---------------------------- MODULE WorkerProofs ----------------------------
(***************************************************************************)
(* What the worker thread keeps.                                           *)
(*                                                                         *)
(* The peer table, for any number of connections and connecting threads.   *)
(*                                                                         *)
(* LossReachesTable is about one event; PeerInv says what the queue holds. *)
(* Until the clock is set back the queue is in the order of its time       *)
(* stamps, none of them older than a record, so no event is skipped        *)
(* (InOrder); a connection that is gone has nothing left to report and its *)
(* LOST is behind every READY in the queue (LostIsLast); and the status of *)
(* a connect is behind the READY of its connection (ReadyFirst).           *)
(*                                                                         *)
(* The requests of the threads, for every set of requests and connections. *)
(* OneCompletion and LossReleasesWaiter rest on one fact about req_db: as  *)
(* long as the worker thread runs, a blocking send that was entered is in  *)
(* the table exactly until an event is put on its queue.                   *)
(***************************************************************************)
EXTENDS Peers, RequestsInstance, TLAPS

Reported == {"ready", "lost", "removed"}
Losses == {"LOST", "REMOVED"}

\* An entry of the queue.
Is(i, type, h) == queue[i].type = type /\ queue[i].handle = h

\* What a connection that was not reported ready has left behind: nothing but
\* the failure of its connect.
QuietInv ==
    \A h \in Handles : conn[h] \notin Reported =>
        /\ owed[h] = <<>> /\ h \notin DOMAIN peers
        /\ \A i \in 1 .. Len(queue) : queue[i].handle = h => queue[i].type = "CONN_FAIL"

\* Losses are reported of connections that are gone, and only they make a
\* record uncallable.
LossMeansGone ==
    /\ \A i \in 1 .. Len(queue) : queue[i].type \in Losses => Gone(queue[i].handle)
    /\ work.type \in Losses => Gone(work.handle)
    /\ \A h \in Handles : conn[h] = "ready" /\ h \in DOMAIN peers => peers[h].callable

\* READY is reported before the status of the connect.
ReadyFirstAt(h) ==
    /\ owed[h] \in {<<>>, <<"READY">>, <<"CONN_OK">>, <<"READY", "CONN_OK">>}
    /\ conn[h] = "ready" =>
         /\ owed[h] = <<"CONN_OK">> =>
                Callable(h) \/ \E j \in 1 .. Len(queue) : Is(j, "READY", h)
         /\ \A i \in 1 .. Len(queue) : Is(i, "CONN_OK", h) =>
                Callable(h) \/ \E j \in 1 .. (i - 1) : Is(j, "READY", h)
ReadyFirst == \A h \in Handles : ReadyFirstAt(h)

\* A thread that has not asked for its connection yet has none.
UsersInv ==
    \A u \in Users : user[u] = "find" => conn[ConnOf[u]] = "none"

\* The events are handled in the order of their time stamps, none is skipped.
InOrder ==
    ~setBack =>
        /\ \A h \in DOMAIN peers : peers[h].last_seen <= clock
        /\ \A i \in 1 .. Len(queue) :
             /\ queue[i].timestamp <= clock
             /\ \A h \in DOMAIN peers : peers[h].last_seen <= queue[i].timestamp
             /\ \A j \in i .. Len(queue) : queue[i].timestamp <= queue[j].timestamp

\* The loss of a connection is the last that is reported of it.
LostIsLast ==
    \A h \in Handles : Gone(h) /\ h \notin overtaken =>
        /\ owed[h] = <<>>
        /\ \A i \in 1 .. Len(queue) : Is(i, "READY", h) =>
             \E j \in (i + 1) .. Len(queue) : Is(j, "LOST", h)

PeerInv == /\ TypeOK /\ QuietInv /\ LossMeansGone /\ ReadyFirst /\ UsersInv
           /\ InOrder /\ LostIsLast
           /\ LossReachesTable /\ CompletedConnectFindsPeer

-----------------------------------------------------------------------------
(* The queue and the table. *)

\* The connection a thread asks for is one of the connections.
LEMMA UserConns == \A u \in Users : ConnOf[u] \in Handles
  BY Zenon, PeersAssumption

\* What is on the event queue, and in the peer table, has its type.
LEMMA QueueTypes ==
    ASSUME TypeOK
    PROVE  /\ Len(queue) \in Nat /\ clock \in Nat
           /\ \A i \in 1 .. Len(queue) : /\ queue[i].handle \in Handles
                                        /\ queue[i].timestamp \in Nat
           /\ \A h \in DOMAIN peers : h \in Handles /\ peers[h].last_seen \in Nat
<1>1. queue \in Seq(Events)
  BY Zenon DEF TypeOK
<1>2. \A i \in 1 .. Len(queue) : queue[i] \in Events
  BY SMTT(30), <1>1
<1>3. Len(queue) \in Nat
  BY SMTT(30), <1>1
<1>4. \A i \in 1 .. Len(queue) : queue[i].handle \in Handles /\ queue[i].timestamp \in Nat
  BY SMTT(30), <1>2 DEF Events
<1> QED BY SMTT(30), <1>3, <1>4 DEF TypeOK

\* g_event_queue.put adds at the end.
LEMMA PutAdds ==
    ASSUME TypeOK, NEW type \in EventTypes, NEW h \in Handles, Put(type, h)
    PROVE  /\ queue' \in Seq(Events) /\ Len(queue') = Len(queue) + 1
           /\ \A i \in 1 .. Len(queue) : queue'[i] = queue[i]
           /\ queue'[Len(queue) + 1] = Event(type, h)
           /\ Event(type, h) \in Events
<1>1. Event(type, h) \in Events
  BY Zenon DEF TypeOK, Event, Events
<1>2. queue \in Seq(Events) /\ queue' = Append(queue, Event(type, h))
  BY Zenon DEF TypeOK, Put
<1> QED BY SMTT(30), <1>1, <1>2

\* The worker takes from the front, and the others move up.
LEMMA HeadGoes ==
    ASSUME TypeOK, queue # <<>>, queue' = Tail(queue)
    PROVE  /\ Head(queue) = queue[1] /\ Head(queue) \in Events
           /\ queue' \in Seq(Events) /\ Len(queue) \in Nat /\ Len(queue) > 0
           /\ Len(queue') = Len(queue) - 1
           /\ \A i \in 1 .. Len(queue') : queue'[i] = queue[i + 1]
<1>1. queue \in Seq(Events)
  BY Zenon DEF TypeOK
<1> QED BY SMTT(30), <1>1

\* What apply_event does to the record of its connection and to the others.
LEMMA Applied ==
    ASSUME TypeOK, NEW e \in Events, peers' = ApplyEvent(e)
    PROVE  LET h == e.handle IN
           /\ DOMAIN peers' \subseteq Handles
           /\ \A g \in DOMAIN peers' :
                  peers'[g] \in [callable : BOOLEAN, last_seen : 0..MaxClock]
           /\ \A g \in Handles \ {h} :
                  /\ g \in DOMAIN peers' <=> g \in DOMAIN peers
                  /\ g \in DOMAIN peers => peers'[g] = peers[g]
           /\ \/ /\ h \in DOMAIN peers /\ e.timestamp < peers[h].last_seen
                 /\ h \in DOMAIN peers' /\ peers'[h] = peers[h]
              \/ h \notin DOMAIN peers' /\ e.type # "READY"
              \/ /\ h \in DOMAIN peers' /\ peers'[h].last_seen = e.timestamp
                 /\ peers'[h].callable = (e.type = "READY")
<1>1. /\ DOMAIN peers \subseteq Handles
      /\ \A g \in DOMAIN peers :
             peers[g] \in [callable : BOOLEAN, last_seen : 0..MaxClock]
      /\ e.handle \in Handles /\ e.timestamp \in 0..MaxClock
  BY Zenon DEF TypeOK, Events
<1>2. CASE e.handle \in DOMAIN peers /\ e.timestamp < peers[e.handle].last_seen
  BY Zenon, <1>1, <1>2 DEF ApplyEvent
<1>3. CASE ~(e.handle \in DOMAIN peers /\ e.timestamp < peers[e.handle].last_seen)
  <2>1. CASE e.type = "REMOVED"
    BY Zenon, <1>1, <1>3, <2>1 DEF ApplyEvent, Restrict
  <2>2. CASE e.type # "REMOVED" /\ e.handle \notin DOMAIN peers /\ e.type # "READY"
    BY Zenon, <1>1, <1>3, <2>2 DEF ApplyEvent
  <2>3. CASE e.type # "REMOVED" /\ ~(e.handle \notin DOMAIN peers /\ e.type # "READY")
    <3>1. peers' = [h \in DOMAIN peers \cup {e.handle} |->
                       IF h = e.handle
                       THEN [callable |-> e.type = "READY", last_seen |-> e.timestamp]
                       ELSE peers[h]]
      BY Zenon, <1>3, <2>3 DEF ApplyEvent
    <3> QED BY SMTT(30), <1>1, <3>1
  <2> QED BY Zenon, <2>1, <2>2, <2>3
<1> QED BY Zenon, <1>2, <1>3

\* A peer that was found is in the table.
LEMMA FoundIsKnown ==
    ASSUME NEW handle, NEW u PROVE FindBoundAgent(handle, u) \subseteq DOMAIN peers
<1>1. ASSUME NEW outbound, NEW fallback
      PROVE  GetAgent(handle, u, outbound, fallback) \subseteq DOMAIN peers
  BY Zenon DEF GetAgent
<1> QED BY Zenon, <1>1 DEF FindBoundAgent

-----------------------------------------------------------------------------
(* Types. *)

\* Every step preserves the types.
LEMMA TypeNext == ASSUME TypeOK, [Next]_vars PROVE TypeOK'
<1> USE PeersAssumption DEF cVars, tableVars, bindVars, userVars
<1>1. CASE UNCHANGED vars
  BY Zenon, <1>1 DEF vars, TypeOK
<1>2. ASSUME Tick PROVE TypeOK'
  <2>1. clock' \in 0..MaxClock /\ setBack' \in BOOLEAN
    <3>1. clock \in 0..MaxClock /\ MaxClock \in Nat /\ setBack \in BOOLEAN
      BY Zenon DEF TypeOK
    <3>2. \/ clock < MaxClock /\ clock' = clock + 1
          \/ clock > 0 /\ clock' = clock - 1
      BY Zenon, <1>2 DEF Tick
    <3>3. clock' \in 0..MaxClock
      BY SMTT(30), <3>1, <3>2
    <3>4. setBack' = setBack \/ setBack' = TRUE
      BY Zenon, <1>2 DEF Tick
    <3> QED BY ZenonT(30), <3>1, <3>3, <3>4
  <2> QED BY Zenon, <1>2, <2>1 DEF Tick, TypeOK
<1>3. ASSUME NEW h \in Handles, Connect(h) PROVE TypeOK'
  BY Zenon, <1>3 DEF Connect, TypeOK
<1>4. ASSUME NEW h \in Handles, ConnectThread(h) PROVE TypeOK'
  <2>1. queue' \in Seq(Events)
    BY Zenon, <1>4, PutAdds DEF ConnectThread, EventTypes, TypeOK
  <2> QED BY ZenonT(30), <1>4, <2>1 DEF ConnectThread, TypeOK
<1>5. ASSUME NEW h \in Handles, MarkReady(h) PROVE TypeOK'
  <2>1. /\ <<"READY", "CONN_OK">> \in Seq({"READY", "CONN_OK"})
        /\ <<"READY">> \in Seq({"READY", "CONN_OK"})
    OBVIOUS
  <2>2. owed' \in [Handles -> Seq({"READY", "CONN_OK"})]
    BY ZenonT(30), <1>5, <2>1 DEF MarkReady, TypeOK
  <2>3. conn' \in [Handles -> {"none", "connecting", "up", "ready", "lost",
                             "removed", "failed"}]
    BY Zenon, <1>5 DEF MarkReady, TypeOK
  <2> QED BY Zenon, <1>5, <2>2, <2>3 DEF MarkReady, TypeOK
<1>6. ASSUME NEW h \in Handles, Notify(h) PROVE TypeOK'
  <2>1. owed[h] \in Seq({"READY", "CONN_OK"}) /\ owed[h] # <<>>
    BY Zenon, <1>6 DEF Notify, TypeOK
  <2>2. Head(owed[h]) \in EventTypes /\ Tail(owed[h]) \in Seq({"READY", "CONN_OK"})
    BY SMTT(30), <2>1 DEF EventTypes
  <2>3. queue' \in Seq(Events)
    BY Zenon, <1>6, <2>2, PutAdds DEF Notify
  <2> QED BY Zenon, <1>6, <2>2, <2>3 DEF Notify, TypeOK
<1>7. ASSUME NEW h \in Handles, Lose(h) PROVE TypeOK'
  <2>1. queue' \in Seq(Events)
    BY Zenon, <1>7, PutAdds DEF Lose, EventTypes, TypeOK
  <2> QED BY Zenon, <1>7, <2>1 DEF Lose, TypeOK
<1>8. ASSUME NEW h \in Handles, Remove(h) PROVE TypeOK'
  <2>1. queue' \in Seq(Events)
    BY Zenon, <1>8, PutAdds DEF Remove, EventTypes
  <2> QED BY Zenon, <1>8, <2>1 DEF Remove, TypeOK
<1>9. ASSUME WorkerApply PROVE TypeOK'
  <2>1. Head(queue) \in Events /\ queue' \in Seq(Events)
    BY Zenon, <1>9, HeadGoes DEF WorkerApply
  <2>2. /\ DOMAIN peers' \subseteq Handles
        /\ \A g \in DOMAIN peers' :
               peers'[g] \in [callable : BOOLEAN, last_seen : 0..MaxClock]
    BY Zenon, <1>9, <2>1, Applied DEF WorkerApply
  <2> QED BY Zenon, <1>9, <2>1, <2>2 DEF WorkerApply, TypeOK
<1>10. ASSUME WorkerFinish PROVE TypeOK'
  BY Zenon, <1>10 DEF WorkerFinish, ClearDirsvcPeer, TypeOK
<1>11. ASSUME WorkerConnComplete PROVE TypeOK'
  <2>1. queue' \in Seq(Events)
    BY Zenon, <1>11, HeadGoes DEF WorkerConnComplete
  <2> QED BY Zenon, <1>11, <2>1 DEF WorkerConnComplete, TypeOK
<1>12. ASSUME NEW h \in DirsvcHandles, Bind(h) PROVE TypeOK'
  BY ZenonT(30), <1>12 DEF Bind, BindCheck, BindStillReady, BindConstruct, BindAssign,
     BinderAt,
               TypeOK
<1>13. ASSUME NEW u \in Users, FindOrConnect(u) PROVE TypeOK'
  <2>1. FindBoundAgent(Target[u].handle, u) \subseteq Handles
    BY SMTT(30), FoundIsKnown DEF TypeOK
  <2>2. ConnOf[u] \in Handles
    BY Zenon
  <2>3. conn' \in [Handles -> {"none", "connecting", "up", "ready", "lost",
                             "removed", "failed"}]
    BY ZenonT(30), <1>13, <2>2 DEF FindOrConnect, TypeOK
  <2>4. user' \in [Users -> {"find", "connecting", "wait", "done", "failed"}]
    BY ZenonT(30), <1>13 DEF FindOrConnect, Got, TypeOK
  <2>5. bound' \in [Users -> Handles \cup {NoHandle}]
    <3>1. (\E h \in Handles : Got(u, h)) \/ bound' = bound
      BY Zenon, <1>13, <2>1 DEF FindOrConnect
    <3>2. bound \in [Users -> Handles \cup {NoHandle}]
      BY Zenon DEF TypeOK
    <3> QED BY SMTT(30), <3>1, <3>2 DEF Got
  <2> QED BY Zenon, <1>13, <2>3, <2>4, <2>5 DEF FindOrConnect, TypeOK
<1>14. ASSUME NEW u \in Users, WaitForBoundAgent(u) PROVE TypeOK'
  <2>1. FindBoundAgent(NoHandle, u) \subseteq Handles
    BY Zenon, FoundIsKnown DEF TypeOK
  <2> QED BY SMTT(30), <1>14, <2>1 DEF WaitForBoundAgent, Got, TypeOK
<1>15. ASSUME NEW u \in Users, TimeOut(u) PROVE TypeOK'
  BY Zenon, <1>15 DEF TimeOut, TypeOK
<1> QED BY Zenon, <1>1, <1>2, <1>3, <1>4, <1>5, <1>6, <1>7, <1>8, <1>9, <1>10, <1>11,
           <1>12,
           <1>13, <1>14, <1>15 DEF Next

-----------------------------------------------------------------------------
(* The invariant.  Steps of the C runtime that queue nothing. *)

\* The clock changes no queue and no table, and is set back at most once.
LEMMA TickKeeps == ASSUME PeerInv, Tick PROVE PeerInv'
<1> USE DEF cVars, tableVars, bindVars, userVars
<1>1. TypeOK'
  BY Zenon, TypeNext DEF PeerInv, Next
<1>2. InOrder'
  <2> SUFFICES ASSUME ~setBack' PROVE InOrder'
    BY Zenon DEF InOrder
  <2>1. ~setBack /\ clock' = clock + 1 /\ clock \in Nat
    BY SMTT(30) DEF Tick, PeerInv, TypeOK
  <2>2. queue' = queue /\ peers' = peers
    BY Zenon DEF Tick
  <2>3. /\ \A h \in DOMAIN peers : peers[h].last_seen \in Nat
        /\ \A i \in 1 .. Len(queue) : queue[i].timestamp \in Nat
    BY Zenon, QueueTypes DEF PeerInv
  <2> QED BY SMTT(30), <2>1, <2>2, <2>3 DEF InOrder, PeerInv
<1>3. LossReachesTable'
  BY SMTT(30) DEF Tick, PeerInv, LossReachesTable, LossDropped, LossQueued, Gone, Callable
<1>4. QuietInv' /\ LossMeansGone' /\ ReadyFirst' /\ UsersInv' /\ LostIsLast'
      /\ CompletedConnectFindsPeer'
  BY SMTT(30) DEF Tick, PeerInv, QuietInv, LossMeansGone, ReadyFirst, ReadyFirstAt,
     UsersInv, LostIsLast,
         CompletedConnectFindsPeer, Gone, Callable, Is
<1> QED BY Zenon, <1>1, <1>2, <1>3, <1>4 DEF PeerInv

\* A connection changes its state and nothing is queued.
LEMMA ConnectKeeps ==
    ASSUME PeerInv, TypeOK', NEW h \in Handles,
           \/ conn[h] = "none" /\ conn' = [conn EXCEPT ![h] = "up"] /\ owed' = owed
           \/ conn[h] = "none" /\ conn' = [conn EXCEPT ![h] = "connecting"] /\ owed' = owed
           \/ conn[h] = "connecting" /\ conn' = [conn EXCEPT ![h] = "up"] /\ owed' = owed
           \/ conn[h] = "up" /\ conn' = [conn EXCEPT ![h] = "failed"] /\ owed' = owed
           \/ /\ conn[h] = "up" /\ conn' = [conn EXCEPT ![h] = "ready"]
              /\ \E o \in {<<"READY">>, <<"READY", "CONN_OK">>} :
                     owed' = [owed EXCEPT ![h] = o],
           UNCHANGED <<clock, setBack, tableVars>>, overtaken' = overtaken,
           \A u \in Users : user'[u] = user[u] \/ user'[u] \notin {"find", "wait"},
           \A u \in Users : user'[u] = "find" /\ ConnOf[u] = h => FALSE
    PROVE  PeerInv'
<1> USE DEF tableVars
<1>1. /\ conn[h] \notin Reported /\ conn \in [Handles -> {"none", "connecting", "up",
                                        "ready", "lost", "removed", "failed"}]
      /\ owed \in [Handles -> Seq({"READY", "CONN_OK"})]
      /\ \A g \in Handles \ {h} : conn'[g] = conn[g] /\ owed'[g] = owed[g]
      /\ conn'[h] \notin {"lost", "removed"} /\ conn[h] \notin {"lost", "removed"}
      /\ conn'[h] # "none"
      /\ \/ conn'[h] \notin Reported /\ owed'[h] = owed[h]
         \/ conn'[h] = "ready" /\ owed'[h] \in {<<"READY">>, <<"READY", "CONN_OK">>}
  BY SMTT(30) DEF PeerInv, TypeOK, Reported
<1>2. /\ h \notin DOMAIN peers /\ owed[h] = <<>>
      /\ \A i \in 1 .. Len(queue) : queue[i].handle = h => queue[i].type = "CONN_FAIL"
  BY Zenon, <1>1 DEF PeerInv, QuietInv
<1>3. QuietInv'
  BY SMTT(30), <1>1, <1>2 DEF PeerInv, QuietInv, Reported
<1>4. \A g \in Handles : Gone(g)' <=> Gone(g)
  BY Zenon, <1>1 DEF Gone
<1>5. \A i \in 1 .. Len(queue) : queue[i].handle \in Handles
  BY Zenon, QueueTypes DEF PeerInv
<1>6. LossMeansGone'
  <2>1. work.type \in Losses => work.handle \in Handles
    BY SMTT(30) DEF PeerInv, TypeOK, Events, NoWork, Losses
  <2> QED BY Zenon, <1>1, <1>2, <1>4, <1>5, <2>1 DEF PeerInv, LossMeansGone
<1>7. ReadyFirst'
  <2>1. ASSUME NEW g \in Handles \ {h}
        PROVE  /\ owed'[g] = owed[g] /\ conn'[g] = conn[g]
               /\ Callable(g)' = Callable(g)
    BY Zenon, <1>1 DEF Callable
  <2>2. \A i \in 1 .. Len(queue) : ~Is(i, "CONN_OK", h)
    BY Zenon, <1>2 DEF Is
  <2>3. owed'[h] \in {<<>>, <<"READY">>, <<"READY", "CONN_OK">>}
    BY Zenon, <1>1, <1>2
  <2>4. <<"CONN_OK">> \notin {<<>>, <<"READY">>, <<"READY", "CONN_OK">>}
    BY Zenon
  <2> QED BY SMTT(30), <2>1, <2>2, <2>3, <2>4 DEF PeerInv, ReadyFirst, ReadyFirstAt, Is
<1>8. UsersInv'
  <2>1. \A u \in Users : ConnOf[u] \in Handles
    BY Zenon, UserConns
  <2> QED BY ZenonT(30), <1>1, <2>1 DEF PeerInv, UsersInv
<1>9. InOrder'
  BY Zenon DEF PeerInv, InOrder
<1>10. LostIsLast'
  BY SMTT(30), <1>1, <1>4 DEF PeerInv, LostIsLast, Is, Gone
<1>11. LossReachesTable'
  BY Zenon, <1>4 DEF PeerInv, LossReachesTable, Callable, LossQueued, LossDropped
<1>12. CompletedConnectFindsPeer'
  <2>1. \A u \in Users : ConnOf[u] \in Handles
    BY Zenon, UserConns
  <2> QED BY Zenon, <1>4, <2>1 DEF PeerInv, CompletedConnectFindsPeer, Callable
<1> QED BY Zenon, <1>3, <1>6, <1>7, <1>8, <1>9, <1>10, <1>11, <1>12 DEF PeerInv

-----------------------------------------------------------------------------
(* Steps that queue an event. *)

\* The entries of the queue stay as they are, and the event is the last one.
LEMMA PutEntries ==
    ASSUME TypeOK, NEW type \in EventTypes, NEW h \in Handles, Put(type, h)
    PROVE  /\ Len(queue) \in Nat /\ Len(queue') = Len(queue) + 1
           /\ \A i \in 1 .. Len(queue) : queue'[i] = queue[i] /\ i \in 1 .. Len(queue')
           /\ \A i \in 1 .. Len(queue') : i \in 1 .. Len(queue) \/ i = Len(queue) + 1
           /\ LET n == Len(queue) + 1
              IN  /\ n \in 1 .. Len(queue')
                  /\ queue'[n].type = type /\ queue'[n].handle = h
                  /\ queue'[n].timestamp = clock
<1>1. Len(queue) \in Nat
  BY Zenon, QueueTypes
<1>2. /\ Len(queue') = Len(queue) + 1
      /\ \A i \in 1 .. Len(queue) : queue'[i] = queue[i]
      /\ queue'[Len(queue) + 1] = Event(type, h)
  BY Zenon, PutAdds
<1>3. Event(type, h).type = type /\ Event(type, h).handle = h
      /\ Event(type, h).timestamp = clock
  BY Zenon DEF Event
<1>4. \A i \in 1 .. Len(queue') : i \in 1 .. Len(queue) \/ i = Len(queue) + 1
  BY SMTT(30), <1>1, <1>2
<1> QED BY SMTT(30), <1>1, <1>2, <1>3, <1>4

\* An event that is put has the newest timestamp, so the queue stays in order.
LEMMA PutInOrder ==
    ASSUME TypeOK, InOrder, NEW type \in EventTypes, NEW h \in Handles, Put(type, h),
           UNCHANGED <<clock, setBack, peers>>
    PROVE  InOrder'
<1> SUFFICES ASSUME ~setBack PROVE InOrder'
  BY Zenon DEF InOrder
<1> DEFINE n == Len(queue) + 1
<1>1. /\ Len(queue) \in Nat /\ Len(queue') = n
      /\ \A i \in 1 .. Len(queue) : queue'[i] = queue[i]
      /\ \A i \in 1 .. Len(queue') : i \in 1 .. Len(queue) \/ i = n
      /\ queue'[n].timestamp = clock
  BY Zenon, PutEntries
<1>2. clock \in Nat /\ \A g \in DOMAIN peers : peers[g].last_seen \in Nat
  BY Zenon, QueueTypes
<1>3. ASSUME NEW i \in 1 .. Len(queue')
      PROVE  /\ queue'[i].timestamp <= clock
             /\ \A g \in DOMAIN peers : peers[g].last_seen <= queue'[i].timestamp
  BY SMTT(30), <1>1, <1>2 DEF InOrder
<1>4. ASSUME NEW i \in 1 .. Len(queue'), NEW j \in i .. Len(queue')
      PROVE  queue'[i].timestamp <= queue'[j].timestamp
  <2>1. CASE j = n
    BY Zenon, <1>1, <1>2, <1>3, <2>1
  <2>2. CASE j # n
    <3>1. i \in 1 .. Len(queue) /\ j \in i .. Len(queue)
      BY SMTT(30), <1>1, <2>2
    <3> QED BY SMTT(30), <1>1, <3>1 DEF InOrder
  <2> QED BY Zenon, <2>1, <2>2
<1> HIDE DEF n
<1> QED BY Zenon, <1>2, <1>3, <1>4 DEF InOrder

\* The READY before a status stays where it is.
LEMMA PutReadyFirst ==
    ASSUME TypeOK, NEW type \in EventTypes, NEW h \in Handles, Put(type, h),
           NEW g \in Handles, ReadyFirstAt(g), type = "CONN_OK" => g # h,
           conn'[g] = "ready" => conn[g] = "ready",
           owed'[g] = owed[g], peers' = peers
    PROVE  ReadyFirstAt(g)'
<1> DEFINE n == Len(queue) + 1
<1>1. /\ Len(queue) \in Nat /\ Len(queue') = n
      /\ \A i \in 1 .. Len(queue) : queue'[i] = queue[i] /\ i \in 1 .. Len(queue')
      /\ \A i \in 1 .. Len(queue') : i \in 1 .. Len(queue) \/ i = n
      /\ queue'[n].type = type /\ queue'[n].handle = h
  BY Zenon, PutEntries
<1>2. Callable(g)' <=> Callable(g)
  BY Zenon DEF Callable
<1>3. \A i \in 1 .. Len(queue) : /\ Is(i, "READY", g)' <=> Is(i, "READY", g)
                                 /\ Is(i, "CONN_OK", g)' <=> Is(i, "CONN_OK", g)
  BY Zenon, <1>1 DEF Is
<1>4. \A i \in 1 .. Len(queue') : i = n => ~Is(i, "CONN_OK", g)'
  BY Zenon, <1>1 DEF Is
<1>5. \A i \in 1 .. Len(queue) : \A j \in 1 .. (i - 1) : j \in 1 .. Len(queue)
  BY SMTT(30), <1>1
<1> HIDE DEF n
<1>6. ASSUME conn[g] = "ready", NEW i \in 1 .. Len(queue'), Is(i, "CONN_OK", g)'
      PROVE  Callable(g)' \/ \E j \in 1 .. (i - 1) : Is(j, "READY", g)'
  <2>1. i \in 1 .. Len(queue) /\ Is(i, "CONN_OK", g)
    BY Zenon, <1>1, <1>3, <1>4, <1>6
  <2> QED BY Zenon, <1>2, <1>3, <1>5, <1>6, <2>1 DEF ReadyFirstAt
<1>7. ASSUME conn[g] = "ready", owed[g] = <<"CONN_OK">>
      PROVE  Callable(g)' \/ \E j \in 1 .. Len(queue') : Is(j, "READY", g)'
  BY Zenon, <1>1, <1>2, <1>3, <1>7 DEF ReadyFirstAt
<1> QED BY Zenon, <1>6, <1>7 DEF ReadyFirstAt

\* A connection that fails before it was ready queues its failure last.
LEMMA FailKeeps ==
    ASSUME PeerInv, TypeOK', NEW h \in Handles, conn[h] = "connecting",
           conn' = [conn EXCEPT ![h] = "failed"], Put("CONN_FAIL", h),
           UNCHANGED <<owed, clock, setBack, overtaken, work, peers, user>>
    PROVE  PeerInv'
<1> DEFINE n == Len(queue) + 1
<1>0. TypeOK /\ "CONN_FAIL" \in EventTypes
  BY Zenon DEF PeerInv, EventTypes
<1>1. /\ Len(queue) \in Nat /\ Len(queue') = n
      /\ \A i \in 1 .. Len(queue) : queue'[i] = queue[i] /\ i \in 1 .. Len(queue')
      /\ \A i \in 1 .. Len(queue') : i \in 1 .. Len(queue) \/ i = n
      /\ queue'[n].type = "CONN_FAIL" /\ queue'[n].handle = h
  BY Zenon, <1>0, PutEntries
<1>2. /\ conn[h] \notin Reported /\ conn'[h] \notin Reported
      /\ \A g \in Handles \ {h} : conn'[g] = conn[g]
      /\ \A g \in Handles : (Gone(g)' <=> Gone(g))
                            /\ (conn'[g] = "ready" <=> conn[g] = "ready")
                            /\ (conn'[g] \in Reported <=> conn[g] \in Reported)
  BY Zenon, <1>0 DEF TypeOK, Gone, Reported
<1>3. QuietInv'
  BY SMTT(30), <1>1, <1>2 DEF PeerInv, QuietInv
<1>4. LossMeansGone'
  <2>1. work.type \in Losses => work.handle \in Handles
    BY SMTT(30), <1>0 DEF TypeOK, Events, NoWork, Losses
  <2>2. \A i \in 1 .. Len(queue) : queue[i].handle \in Handles
    BY Zenon, <1>0, QueueTypes
  <2> QED BY SMTT(30), <1>1, <1>2, <2>1, <2>2 DEF PeerInv, LossMeansGone, Losses
<1>5. ReadyFirst'
  BY Zenon, <1>0, <1>2, PutReadyFirst DEF PeerInv, ReadyFirst
<1>6. UsersInv'
  <2>1. \A u \in Users : ConnOf[u] \in Handles
    BY Zenon, UserConns
  <2> QED BY Zenon, <1>2, <2>1 DEF PeerInv, UsersInv
<1>7. InOrder'
  BY Zenon, <1>0, PutInOrder DEF PeerInv
<1>8. LostIsLast'
  BY SMTT(30), <1>1, <1>2 DEF PeerInv, LostIsLast, Is
<1>9. LossReachesTable'
  BY SMTT(30), <1>1, <1>2 DEF PeerInv, LossReachesTable, LossQueued, LossDropped, Callable
<1>10. CompletedConnectFindsPeer'
  BY Zenon, <1>2, PeersAssumption DEF PeerInv, CompletedConnectFindsPeer, Callable
<1> QED BY Zenon, <1>3, <1>4, <1>5, <1>6, <1>7, <1>8, <1>9, <1>10 DEF PeerInv

\* Notify: what was owed is queued.
LEMMA NotifyKeeps ==
    ASSUME PeerInv, TypeOK', NEW h \in Handles, Notify(h)
    PROVE  PeerInv'
<1> DEFINE n == Len(queue) + 1
           type == Head(owed[h])
<1>0. /\ TypeOK /\ owed[h] # <<>> /\ Put(type, h)
      /\ owed' = [owed EXCEPT ![h] = Tail(@)]
      /\ UNCHANGED <<conn, clock, setBack, overtaken, work, peers, user>>
  BY Zenon DEF PeerInv, Notify, userVars
<1>1. /\ owed'[h] = Tail(owed[h]) /\ \A g \in Handles \ {h} : owed'[g] = owed[g]
      /\ owed' \in [Handles -> Seq({"READY", "CONN_OK"})]
  BY Zenon, <1>0 DEF TypeOK
<1>2. owed[h] \in {<<"READY">>, <<"CONN_OK">>, <<"READY", "CONN_OK">>}
  BY Zenon, <1>0 DEF PeerInv, ReadyFirst, ReadyFirstAt
<1>3. \/ owed[h] = <<"READY">> /\ type = "READY" /\ Tail(owed[h]) = <<>>
      \/ owed[h] = <<"CONN_OK">> /\ type = "CONN_OK" /\ Tail(owed[h]) = <<>>
      \/ /\ owed[h] = <<"READY", "CONN_OK">>
         /\ type = "READY" /\ Tail(owed[h]) = <<"CONN_OK">>
  <2>1. Head(<<"READY">>) = "READY" /\ Tail(<<"READY">>) = <<>>
    OBVIOUS
  <2>2. Head(<<"CONN_OK">>) = "CONN_OK" /\ Tail(<<"CONN_OK">>) = <<>>
    OBVIOUS
  <2>3. Head(<<"READY", "CONN_OK">>) = "READY"
    OBVIOUS
  <2>4. Tail(<<"READY", "CONN_OK">>) = <<"CONN_OK">>
    OBVIOUS
  <2> QED BY ZenonT(30), <1>2, <2>1, <2>2, <2>3, <2>4
<1>4. type \in EventTypes /\ type \in {"READY", "CONN_OK"}
  BY Zenon, <1>3 DEF EventTypes
<1>5. /\ Len(queue) \in Nat /\ Len(queue') = n
      /\ \A i \in 1 .. Len(queue) : queue'[i] = queue[i] /\ i \in 1 .. Len(queue')
      /\ \A i \in 1 .. Len(queue') : i \in 1 .. Len(queue) \/ i = n
      /\ n \in 1 .. Len(queue') /\ queue'[n].type = type /\ queue'[n].handle = h
  BY Zenon, <1>0, <1>4, PutEntries
<1>6. conn[h] \in Reported
  BY Zenon, <1>0 DEF PeerInv, QuietInv
<1> HIDE DEF n, type
<1>7. QuietInv'
  BY SMTT(30), <1>0, <1>1, <1>5, <1>6 DEF PeerInv, QuietInv
<1>8. LossMeansGone'
  BY Zenon, <1>0, <1>4, <1>5 DEF PeerInv, LossMeansGone, Losses, Gone
<1>9. ReadyFirst'
  <2>1. ASSUME NEW g \in Handles \ {h} PROVE ReadyFirstAt(g)'
    BY Zenon, <1>0, <1>1, <1>4, <2>1, PutReadyFirst DEF PeerInv, ReadyFirst
  <2>2. ReadyFirstAt(h)'
    <3>1. owed'[h] \in {<<>>, <<"CONN_OK">>}
      BY Zenon, <1>1, <1>3
    <3>2. CASE type = "READY"
      <4>1. \A i \in 1 .. Len(queue) : /\ Is(i, "READY", h)' <=> Is(i, "READY", h)
                                       /\ Is(i, "CONN_OK", h)' <=> Is(i, "CONN_OK", h)
        BY Zenon, <1>5 DEF Is
      <4>2. \A i \in 1 .. Len(queue') : i = n => Is(i, "READY", h)' /\ ~Is(i, "CONN_OK", h)'
        BY Zenon, <1>5, <3>2 DEF Is
      <4>3. \E i \in 1 .. Len(queue') : Is(i, "READY", h)'
        BY Zenon, <1>5, <4>2
      <4>4. Callable(h)' <=> Callable(h)
        BY Zenon, <1>0 DEF Callable
      <4>5. ASSUME conn[h] = "ready", NEW i \in 1 .. Len(queue'), Is(i, "CONN_OK", h)'
            PROVE  Callable(h)' \/ \E j \in 1 .. (i - 1) : Is(j, "READY", h)'
        <5>1. i \in 1 .. Len(queue) /\ Is(i, "CONN_OK", h)
          BY Zenon, <1>5, <4>1, <4>2, <4>5
        <5>2. \A j \in 1 .. (i - 1) : j \in 1 .. Len(queue)
          BY SMTT(30), <1>5, <5>1
        <5> QED BY Zenon, <4>1, <4>4, <4>5, <5>1, <5>2 DEF PeerInv, ReadyFirst,
                   ReadyFirstAt
      <4> QED BY Zenon, <1>0, <3>1, <4>3, <4>5 DEF ReadyFirstAt
    <3>3. CASE type = "CONN_OK"
      <4>1. owed[h] = <<"CONN_OK">> /\ owed'[h] = <<>>
        BY Zenon, <1>1, <1>3, <3>3
      <4>2. ASSUME conn[h] = "ready", NEW i \in 1 .. Len(queue'), Is(i, "CONN_OK", h)'
            PROVE  Callable(h)' \/ \E j \in 1 .. (i - 1) : Is(j, "READY", h)'
        <5>1. Callable(h)' <=> Callable(h)
          BY Zenon, <1>0 DEF Callable
        <5>2. \A j \in 1 .. Len(queue) : /\ Is(j, "READY", h)' <=> Is(j, "READY", h)
                                         /\ Is(j, "CONN_OK", h)' <=> Is(j, "CONN_OK", h)
          BY Zenon, <1>5 DEF Is
        <5>3. CASE i = n
          <6>1. \A j \in 1 .. Len(queue) : j \in 1 .. (i - 1)
            BY SMTT(30), <1>5, <5>3 DEF n
          <6> QED BY Zenon, <4>1, <4>2, <5>1, <5>2, <6>1 DEF PeerInv, ReadyFirst,
                     ReadyFirstAt
        <5>4. CASE i # n
          <6>1. i \in 1 .. Len(queue) /\ Is(i, "CONN_OK", h)
            BY Zenon, <1>5, <4>2, <5>2, <5>4
          <6>2. \A j \in 1 .. (i - 1) : j \in 1 .. Len(queue)
            BY SMTT(30), <1>5, <6>1
          <6> QED BY Zenon, <4>2, <5>1, <5>2, <6>1, <6>2 DEF PeerInv, ReadyFirst,
                     ReadyFirstAt
        <5> QED BY Zenon, <5>3, <5>4
      <4>3. <<>> # <<"CONN_OK">>
        BY Zenon
      <4> QED BY ZenonT(30), <1>0, <4>1, <4>2, <4>3 DEF ReadyFirstAt
    <3> QED BY Zenon, <1>4, <3>2, <3>3
  <2> QED BY Zenon, <2>1, <2>2 DEF ReadyFirst
<1>10. UsersInv'
  BY Zenon, <1>0 DEF PeerInv, UsersInv
<1>11. InOrder'
  BY Zenon, <1>0, <1>4, PutInOrder DEF PeerInv
<1>12. LostIsLast'
  <2> SUFFICES ASSUME NEW g \in Handles, Gone(g), g \notin overtaken
               PROVE  /\ owed'[g] = <<>>
                      /\ \A i \in 1 .. Len(queue') : Is(i, "READY", g)' =>
                           \E j \in (i + 1) .. Len(queue') : Is(j, "LOST", g)'
    BY Zenon, <1>0 DEF LostIsLast, Gone
  <2>1. g # h /\ owed[g] = <<>>
    BY Zenon, <1>0 DEF PeerInv, LostIsLast
  <2>2. ASSUME NEW i \in 1 .. Len(queue'), Is(i, "READY", g)'
        PROVE  \E j \in (i + 1) .. Len(queue') : Is(j, "LOST", g)'
    <3>1. i \in 1 .. Len(queue) /\ Is(i, "READY", g)
      BY Zenon, <1>5, <2>1, <2>2 DEF Is
    <3>2. PICK j \in (i + 1) .. Len(queue) : Is(j, "LOST", g)
      BY Zenon, <3>1 DEF PeerInv, LostIsLast
    <3>3. j \in 1 .. Len(queue) /\ j \in (i + 1) .. Len(queue')
      BY SMTT(30), <1>5, <3>1, <3>2 DEF n
    <3> QED BY Zenon, <1>5, <3>2, <3>3 DEF Is
  <2> QED BY Zenon, <1>1, <2>1, <2>2
<1>13. LossReachesTable'
  BY Zenon, <1>0, <1>5 DEF PeerInv, LossReachesTable, LossQueued, LossDropped,
     Callable, Gone
<1>14. CompletedConnectFindsPeer'
  BY Zenon, <1>0 DEF PeerInv, CompletedConnectFindsPeer, Callable, Gone
<1> QED BY Zenon, <1>7, <1>8, <1>9, <1>10, <1>11, <1>12, <1>13, <1>14 DEF PeerInv

\* A loss, or the removal, of a connection that was reported ready is queued.
LEMMA LossKeeps ==
    ASSUME PeerInv, TypeOK', NEW h \in Handles, NEW type \in Losses, Put(type, h),
           \/ /\ conn[h] = "ready" /\ type = "LOST" /\ conn' = [conn EXCEPT ![h] = "lost"]
              /\ overtaken' = IF owed[h] = <<>> THEN overtaken ELSE overtaken \cup {h}
           \/ /\ conn[h] = "lost" /\ conn' = [conn EXCEPT ![h] = "removed"]
              /\ overtaken' = overtaken,
           UNCHANGED <<owed, clock, setBack, work, peers, user>>
    PROVE  PeerInv'
<1> DEFINE n == Len(queue) + 1
<1>0. TypeOK /\ type \in EventTypes
  BY Zenon DEF PeerInv, Losses, EventTypes
<1>1. /\ Len(queue) \in Nat /\ Len(queue') = n
      /\ \A i \in 1 .. Len(queue) : queue'[i] = queue[i] /\ i \in 1 .. Len(queue')
      /\ \A i \in 1 .. Len(queue') : i \in 1 .. Len(queue) \/ i = n
      /\ n \in 1 .. Len(queue') /\ queue'[n].type = type /\ queue'[n].handle = h
  BY Zenon, <1>0, PutEntries
<1>2. /\ conn[h] \in Reported /\ Gone(h)' /\ conn'[h] # "ready" /\ conn'[h] \in Reported
      /\ \A g \in Handles \ {h} : conn'[g] = conn[g]
      /\ \A g \in Handles : Gone(g) => Gone(g)'
      /\ \A g \in Handles : conn'[g] = "ready" => conn[g] = "ready"
      /\ overtaken \subseteq overtaken'
  BY SMTT(30), <1>0 DEF TypeOK, Gone, Reported
<1> HIDE DEF n
<1>3. QuietInv'
  <2> SUFFICES ASSUME NEW g \in Handles, conn'[g] \notin Reported
               PROVE  /\ owed[g] = <<>> /\ g \notin DOMAIN peers
                      /\ \A i \in 1 .. Len(queue') :
                             queue'[i].handle = g => queue'[i].type = "CONN_FAIL"
    BY Zenon DEF QuietInv
  <2>1. g # h /\ conn[g] \notin Reported
    BY Zenon, <1>2
  <2>2. /\ owed[g] = <<>> /\ g \notin DOMAIN peers
        /\ \A i \in 1 .. Len(queue) : queue[i].handle = g => queue[i].type = "CONN_FAIL"
    BY Zenon, <2>1 DEF PeerInv, QuietInv
  <2> QED BY Zenon, <1>1, <2>1, <2>2
<1>4. LossMeansGone'
  <2>1. work.type \in Losses => work.handle \in Handles
    BY SMTT(30), <1>0 DEF TypeOK, Events, NoWork, Losses
  <2>2. \A i \in 1 .. Len(queue) : queue[i].handle \in Handles
    BY Zenon, <1>0, QueueTypes
  <2> QED BY ZenonT(30), <1>1, <1>2, <2>1, <2>2 DEF PeerInv, LossMeansGone
<1>5. ReadyFirst'
  <2>1. type # "CONN_OK"
    BY Zenon DEF Losses
  <2> QED BY ZenonT(30), <1>0, <1>2, <2>1, PutReadyFirst DEF PeerInv, ReadyFirst
<1>6. UsersInv'
  <2>1. \A u \in Users : ConnOf[u] \in Handles
    BY Zenon, UserConns
  <2> QED BY Zenon, <1>2, <2>1 DEF PeerInv, UsersInv
<1>7. InOrder'
  <2>1. InOrder /\ UNCHANGED <<clock, setBack, peers>>
    BY Zenon DEF PeerInv
  <2> QED BY Zenon, <1>0, <2>1, PutInOrder
<1>8. LostIsLast'
  <2> SUFFICES ASSUME NEW g \in Handles, Gone(g)', g \notin overtaken'
               PROVE  /\ owed[g] = <<>>
                      /\ \A i \in 1 .. Len(queue') : Is(i, "READY", g)' =>
                           \E j \in (i + 1) .. Len(queue') : Is(j, "LOST", g)'
    BY Zenon DEF LostIsLast
  <2>1. CASE Gone(g)
    <3>1. ASSUME NEW i \in 1 .. Len(queue'), Is(i, "READY", g)'
          PROVE  \E j \in (i + 1) .. Len(queue') : Is(j, "LOST", g)'
      <4>1. i \in 1 .. Len(queue) /\ Is(i, "READY", g)
        BY Zenon, <1>1, <3>1 DEF Is, Losses
      <4>2. PICK j \in (i + 1) .. Len(queue) : Is(j, "LOST", g)
        BY ZenonT(30), <1>2, <2>1, <4>1 DEF PeerInv, LostIsLast
      <4>3. j \in 1 .. Len(queue) /\ j \in (i + 1) .. Len(queue')
        BY SMTT(30), <1>1, <4>1, <4>2 DEF n
      <4> QED BY Zenon, <1>1, <4>2, <4>3 DEF Is
    <3> QED BY Zenon, <1>2, <2>1, <3>1 DEF PeerInv, LostIsLast
  <2>2. CASE ~Gone(g)
    <3>1. g = h /\ conn[h] = "ready" /\ type = "LOST" /\ owed[g] = <<>>
      BY Zenon, <1>2, <2>2 DEF Gone
    <3>2. ASSUME NEW i \in 1 .. Len(queue'), Is(i, "READY", g)'
          PROVE  \E j \in (i + 1) .. Len(queue') : Is(j, "LOST", g)'
      <4>1. i \in 1 .. Len(queue)
        BY Zenon, <1>1, <3>1, <3>2 DEF Is
      <4>2. n \in (i + 1) .. Len(queue')
        BY SMTT(30), <1>1, <4>1 DEF n
      <4>3. \A j \in (i + 1) .. Len(queue') : j = n => Is(j, "LOST", g)'
        BY Zenon, <1>1, <3>1 DEF Is
      <4> QED BY Zenon, <4>2, <4>3
    <3> QED BY Zenon, <3>1, <3>2
  <2> QED BY Zenon, <2>1, <2>2
<1>9. LossReachesTable'
  <2>1. ASSUME NEW g \in Handles, Callable(g)', Gone(g)', ~LossDropped(g)'
        PROVE  LossQueued(g)'
    <3>1. CASE Gone(g)
      <4>1. LossQueued(g)
        BY Zenon, <1>2, <2>1, <3>1 DEF PeerInv, LossReachesTable, Callable, LossDropped
      <4> QED BY Zenon, <1>1, <4>1 DEF LossQueued
    <3>2. CASE ~Gone(g)
      BY Zenon, <1>1, <1>2, <3>2, <2>1 DEF LossQueued, Gone
    <3> QED BY Zenon, <3>1, <3>2
  <2> QED BY Zenon, <2>1 DEF LossReachesTable
<1>10. CompletedConnectFindsPeer'
  <2>1. \A u \in Users : ConnOf[u] \in Handles
    BY ZenonT(30), UserConns
  <2> QED BY Zenon, <1>2, <2>1 DEF PeerInv, CompletedConnectFindsPeer, Callable
<1> QED BY Zenon, <1>3, <1>4, <1>5, <1>6, <1>7, <1>8, <1>9, <1>10 DEF PeerInv

-----------------------------------------------------------------------------
(* The worker. *)

\* The first entry leaves the queue.
LEMMA HeadEntries ==
    ASSUME TypeOK, queue # <<>>, queue' = Tail(queue)
    PROVE  /\ Head(queue) = queue[1] /\ Head(queue) \in Events
           /\ Len(queue) \in Nat /\ 1 \in 1 .. Len(queue)
           /\ \A i \in 1 .. Len(queue') : /\ i + 1 \in 1 .. Len(queue)
                                          /\ queue'[i] = queue[i + 1]
           /\ \A i \in 1 .. Len(queue) : i # 1 =>
                  /\ i - 1 \in 1 .. Len(queue') /\ queue'[i - 1] = queue[i]
<1>1. /\ Head(queue) = queue[1] /\ Head(queue) \in Events
      /\ Len(queue) \in Nat /\ Len(queue) > 0
      /\ Len(queue') = Len(queue) - 1
      /\ \A i \in 1 .. Len(queue') : queue'[i] = queue[i + 1]
  BY Zenon, HeadGoes
<1>2. \A i \in 1 .. Len(queue) : i # 1 => i - 1 \in 1 .. Len(queue') /\ (i - 1) + 1 = i
  BY SMTT(30), <1>1
<1>3. \A i \in 1 .. Len(queue') : i + 1 \in 1 .. Len(queue)
  BY SMTT(30), <1>1
<1> QED BY SMTT(30), <1>1, <1>2, <1>3

\* Taking the first event keeps the order of the others.
LEMMA HeadInOrder ==
    ASSUME TypeOK, InOrder, queue # <<>>, queue' = Tail(queue),
           UNCHANGED <<clock, setBack>>, TypeOK',
           \A g \in DOMAIN peers' : \/ g \in DOMAIN peers /\ peers'[g] = peers[g]
                                    \/ peers'[g].last_seen = Head(queue).timestamp
    PROVE  InOrder'
<1> SUFFICES ASSUME ~setBack PROVE InOrder'
  BY Zenon DEF InOrder
<1>1. /\ Head(queue) = queue[1] /\ 1 \in 1 .. Len(queue) /\ Len(queue) \in Nat
      /\ \A i \in 1 .. Len(queue') : /\ i + 1 \in 1 .. Len(queue)
                                     /\ queue'[i] = queue[i + 1]
  BY Zenon, HeadEntries
<1>2. Len(queue') = Len(queue) - 1
  BY Zenon, HeadGoes
<1>3. \A i \in 1 .. Len(queue') : \A j \in i .. Len(queue') :
          j \in 1 .. Len(queue') /\ j + 1 \in (i + 1) .. Len(queue)
  BY SMTT(30), <1>1, <1>2
<1>4. \A i \in 1 .. Len(queue') : i + 1 \in 1 .. Len(queue)
  BY Zenon, <1>1, <1>2
<1>5. \A i \in 1 .. Len(queue) : queue[1].timestamp <= queue[i].timestamp
  BY Zenon, <1>1 DEF InOrder
<1>6. \A g \in DOMAIN peers' : peers'[g].last_seen <= clock
  BY Zenon, <1>1 DEF InOrder
<1>7. ASSUME NEW i \in 1 .. Len(queue'), NEW g \in DOMAIN peers'
      PROVE  peers'[g].last_seen <= queue'[i].timestamp
  BY Zenon, <1>1, <1>4, <1>5 DEF InOrder
<1>8. ASSUME NEW i \in 1 .. Len(queue')
      PROVE  /\ queue'[i].timestamp <= clock
             /\ \A j \in i .. Len(queue') : queue'[i].timestamp <= queue'[j].timestamp
  BY Zenon, <1>1, <1>3, <1>4 DEF InOrder
<1> QED BY Zenon, <1>6, <1>7, <1>8 DEF InOrder

\* The worker takes an entry.  What it does to the table is stated by its
\* effect on the connections that are still ready and on the ones that are gone.
LEMMA TakeKeeps ==
    ASSUME PeerInv, TypeOK', queue # <<>>, queue' = Tail(queue), UNCHANGED cVars,
           \A g \in DOMAIN peers' : \/ g \in DOMAIN peers /\ peers'[g] = peers[g]
                                    \/ peers'[g].last_seen = Head(queue).timestamp,
           \A g \in DOMAIN peers' : g \in DOMAIN peers \/ Is(1, "READY", g),
           \A g \in Handles : conn[g] = "ready" =>
               /\ Callable(g) \/ Is(1, "READY", g) => Callable(g)'
               /\ g \in DOMAIN peers' => peers'[g].callable,
           \A g \in Handles : Callable(g)' => Callable(g) \/ Is(1, "READY", g),
           \A g \in Handles : Is(1, "LOST", g) /\ Callable(g)' => LossDropped(g),
           work'.type \in Losses => work' = queue[1]
    PROVE  /\ QuietInv' /\ LossMeansGone' /\ ReadyFirst' /\ InOrder' /\ LostIsLast'
           /\ LossReachesTable'
<1> USE DEF cVars
<1>0. TypeOK
  BY Zenon DEF PeerInv
<1>1. /\ Head(queue) = queue[1] /\ Len(queue) \in Nat /\ 1 \in 1 .. Len(queue)
      /\ \A i \in 1 .. Len(queue') : /\ i + 1 \in 1 .. Len(queue)
                                     /\ queue'[i] = queue[i + 1]
      /\ \A i \in 1 .. Len(queue) : i # 1 =>
             /\ i - 1 \in 1 .. Len(queue') /\ queue'[i - 1] = queue[i]
  BY Zenon, <1>0, HeadEntries
<1>2. Len(queue') = Len(queue) - 1
  BY Zenon, <1>0, HeadGoes
<1>3. QuietInv'
  BY SMTT(30), <1>1 DEF PeerInv, QuietInv, Is
<1>4. LossMeansGone'
  <2>1. \A i \in 1 .. Len(queue') : queue'[i].type \in Losses => Gone(queue'[i].handle)
    BY SMTT(30), <1>1 DEF PeerInv, LossMeansGone, Gone
  <2>2. work'.type \in Losses => Gone(work'.handle)
    BY Zenon, <1>1 DEF PeerInv, LossMeansGone, Gone
  <2>3. \A g \in Handles : conn[g] = "ready" /\ g \in DOMAIN peers' => peers'[g].callable
    BY Zenon
  <2> QED BY Zenon, <2>1, <2>2, <2>3 DEF LossMeansGone, Gone
<1>5. ReadyFirst'
  <2> SUFFICES ASSUME NEW g \in Handles PROVE ReadyFirstAt(g)'
    BY Zenon DEF ReadyFirst
  <2>1. ReadyFirstAt(g)
    BY Zenon DEF PeerInv, ReadyFirst
  <2>2. ASSUME conn[g] = "ready", owed[g] = <<"CONN_OK">>
        PROVE  Callable(g)' \/ \E j \in 1 .. Len(queue') : Is(j, "READY", g)'
    <3>1. CASE Callable(g)
      BY Zenon, <2>2, <3>1
    <3>2. ASSUME NEW j \in 1 .. Len(queue), Is(j, "READY", g)
          PROVE  Callable(g)' \/ \E k \in 1 .. Len(queue') : Is(k, "READY", g)'
      <4>1. CASE j = 1
        BY Zenon, <2>2, <3>2, <4>1
      <4>2. CASE j # 1
        <5>1. /\ j - 1 \in 1 .. Len(queue')
              /\ queue'[j - 1].type = "READY" /\ queue'[j - 1].handle = g
          BY Zenon, <1>1, <3>2, <4>2 DEF Is
        <5> QED BY Zenon, <5>1 DEF Is
      <4> QED BY Zenon, <4>1, <4>2
    <3> QED BY Zenon, <2>1, <2>2, <3>1, <3>2 DEF ReadyFirstAt
  <2>3. ASSUME conn[g] = "ready", NEW i \in 1 .. Len(queue'), Is(i, "CONN_OK", g)'
        PROVE  Callable(g)' \/ \E j \in 1 .. (i - 1) : Is(j, "READY", g)'
    <3>1. i + 1 \in 1 .. Len(queue) /\ Is(i + 1, "CONN_OK", g) /\ (i + 1) - 1 = i
      BY SMTT(30), <1>1, <2>3 DEF Is
    <3>2. Callable(g) \/ \E j \in 1 .. i : Is(j, "READY", g)
      BY ZenonT(30), <2>1, <2>3, <3>1 DEF ReadyFirstAt
    <3>3. CASE Callable(g)
      BY Zenon, <2>3, <3>3
    <3>4. ASSUME NEW j \in 1 .. i, Is(j, "READY", g)
          PROVE  Callable(g)' \/ \E k \in 1 .. (i - 1) : Is(k, "READY", g)'
      <4>1. CASE j = 1
        BY Zenon, <2>3, <3>4, <4>1
      <4>2. CASE j # 1
        <5>1. j \in 1 .. Len(queue) /\ j - 1 \in 1 .. (i - 1)
          BY SMTT(30), <1>1, <3>1, <4>2
        <5>2. queue'[j - 1] = queue[j]
          BY Zenon, <1>1, <4>2, <5>1
        <5> QED BY Zenon, <3>4, <5>1, <5>2 DEF Is
      <4> QED BY Zenon, <4>1, <4>2
    <3> QED BY Zenon, <3>2, <3>3, <3>4
  <2> QED BY Zenon, <2>1, <2>2, <2>3 DEF ReadyFirstAt
<1>6. InOrder'
  BY Zenon, <1>0, HeadInOrder DEF PeerInv
<1>7. LostIsLast'
  <2> SUFFICES ASSUME NEW g \in Handles, Gone(g), g \notin overtaken,
                      NEW i \in 1 .. Len(queue'), Is(i, "READY", g)'
               PROVE  \E j \in (i + 1) .. Len(queue') : Is(j, "LOST", g)'
    BY Zenon DEF PeerInv, LostIsLast, Gone
  <2>1. i + 1 \in 1 .. Len(queue) /\ Is(i + 1, "READY", g)
    BY Zenon, <1>1 DEF Is
  <2>2. PICK j \in ((i + 1) + 1) .. Len(queue) : Is(j, "LOST", g)
    BY Zenon, <2>1 DEF PeerInv, LostIsLast
  <2>3. Len(queue) \in Nat
    BY Zenon, <1>0, QueueTypes
  <2>4. j \in 1 .. Len(queue) /\ j # 1 /\ j - 1 \in (i + 1) .. Len(queue')
    BY SMTT(30), <1>2, <2>2, <2>3
  <2>5. queue'[j - 1] = queue[j]
    BY Zenon, <1>1, <2>4
  <2> QED BY ZenonT(30), <2>2, <2>4, <2>5 DEF Is
<1>8. LossReachesTable'
  <2> SUFFICES ASSUME NEW g \in Handles, Callable(g)', Gone(g), ~LossDropped(g)
               PROVE  LossQueued(g)'
    BY Zenon DEF LossReachesTable, Gone, LossDropped
  <2>1. CASE Is(1, "READY", g)
    <3>1. PICK j \in (1 + 1) .. Len(queue) : Is(j, "LOST", g)
      BY Zenon, <1>1, <2>1 DEF PeerInv, LostIsLast, LossDropped
    <3>2. j \in 1 .. Len(queue) /\ j # 1
      BY SMTT(30), <1>1, <3>1
    <3>3. j - 1 \in 1 .. Len(queue') /\ queue'[j - 1] = queue[j]
      BY Zenon, <1>1, <3>2
    <3> QED BY Zenon, <3>1, <3>3 DEF Is, LossQueued
  <2>2. CASE ~Is(1, "READY", g)
    <3>1. LossQueued(g)
      BY Zenon, <2>2 DEF PeerInv, LossReachesTable
    <3>2. PICK i \in 1 .. Len(queue) : Is(i, "LOST", g)
      BY Zenon, <3>1 DEF LossQueued, Is
    <3>3. i # 1
      BY Zenon, <3>2
    <3>4. /\ i - 1 \in 1 .. Len(queue')
          /\ queue'[i - 1].type = "LOST" /\ queue'[i - 1].handle = g
      BY Zenon, <1>1, <3>2, <3>3 DEF Is
    <3> QED BY ZenonT(30), <3>4 DEF LossQueued
  <2> QED BY Zenon, <2>1, <2>2
<1> QED BY Zenon, <1>3, <1>4, <1>5, <1>6, <1>7, <1>8

\* The worker applies the event it took.
LEMMA ApplyKeeps == ASSUME PeerInv, WorkerApply PROVE PeerInv'
<1> USE DEF cVars, bindVars, userVars
<1>0. TypeOK /\ TypeOK'
  BY Zenon, TypeNext DEF PeerInv, Next
<1>1. /\ queue # <<>> /\ queue' = Tail(queue) /\ UNCHANGED cVars
      /\ peers' = ApplyEvent(Head(queue)) /\ work' = Head(queue)
      /\ user' = user
  BY Zenon DEF WorkerApply
<1>2. /\ Head(queue) = queue[1] /\ queue[1] \in Events /\ 1 \in 1 .. Len(queue)
      /\ queue[1].handle \in Handles
      /\ queue[1].type \in {"READY", "LOST", "REMOVED"}
  BY ZenonT(30), <1>0, <1>1, HeadEntries DEF Events, WorkerApply
<1> DEFINE e == queue[1]
           h == queue[1].handle
<1>3. /\ \A g \in Handles \ {h} : /\ g \in DOMAIN peers' <=> g \in DOMAIN peers
                                  /\ g \in DOMAIN peers => peers'[g] = peers[g]
      /\ \/ /\ h \in DOMAIN peers /\ e.timestamp < peers[h].last_seen
            /\ h \in DOMAIN peers' /\ peers'[h] = peers[h]
         \/ h \notin DOMAIN peers' /\ e.type # "READY"
         \/ /\ h \in DOMAIN peers' /\ peers'[h].last_seen = e.timestamp
            /\ peers'[h].callable = (e.type = "READY")
  BY Zenon, <1>0, <1>1, <1>2, Applied
<1>4. DOMAIN peers \subseteq Handles /\ DOMAIN peers' \subseteq Handles
  BY Zenon, <1>0 DEF TypeOK
<1>5. /\ e.type \in Losses => Gone(h)
      /\ \A g \in Handles : conn[g] = "ready" /\ g \in DOMAIN peers => peers[g].callable
  BY Zenon, <1>2 DEF PeerInv, LossMeansGone
<1>6. ~setBack => ~(h \in DOMAIN peers /\ e.timestamp < peers[h].last_seen)
  <2>1. h \in DOMAIN peers => peers[h].last_seen \in Nat /\ e.timestamp \in Nat
    BY Zenon, <1>0, <1>2, QueueTypes
  <2>2. ~setBack /\ h \in DOMAIN peers => peers[h].last_seen <= e.timestamp
    BY Zenon, <1>2 DEF PeerInv, InOrder
  <2> QED BY SMTT(30), <2>1, <2>2
<1>7. \A g \in DOMAIN peers' : \/ g \in DOMAIN peers /\ peers'[g] = peers[g]
                               \/ peers'[g].last_seen = e.timestamp
  BY Zenon, <1>3, <1>4
<1>8. \A g \in DOMAIN peers' : g \in DOMAIN peers \/ Is(1, "READY", g)
  <2>1. e.type # "READY" => (h \in DOMAIN peers' => h \in DOMAIN peers)
    BY Zenon, <1>1, <1>2 DEF ApplyEvent, Restrict
  <2> QED BY Zenon, <1>2, <1>3, <1>4, <2>1 DEF Is
<1>9. \A g \in Handles : conn[g] = "ready" =>
          /\ Callable(g) \/ Is(1, "READY", g) => Callable(g)'
          /\ g \in DOMAIN peers' => peers'[g].callable
  <2> SUFFICES ASSUME NEW g \in Handles, conn[g] = "ready"
               PROVE  /\ Callable(g) \/ Is(1, "READY", g) => Callable(g)'
                      /\ g \in DOMAIN peers' => peers'[g].callable
    BY Zenon
  <2>1. g = h => e.type = "READY"
    BY Zenon, <1>2, <1>5 DEF Gone, Losses
  <2>2. CASE g = h
    BY ZenonT(30), <1>3, <1>5, <2>1, <2>2 DEF Callable
  <2>3. CASE g # h
    BY Zenon, <1>3, <1>5, <2>3 DEF Callable, Is
  <2> QED BY Zenon, <2>2, <2>3
<1>10. \A g \in Handles : Callable(g)' => Callable(g) \/ Is(1, "READY", g)
  <2> SUFFICES ASSUME NEW g \in Handles, Callable(g)'
               PROVE  Callable(g) \/ Is(1, "READY", g)
    BY Zenon
  <2>1. CASE g = h
    BY ZenonT(30), <1>3, <2>1 DEF Callable, Is
  <2>2. CASE g # h
    BY Zenon, <1>3, <2>2 DEF Callable
  <2> QED BY Zenon, <2>1, <2>2
<1>11. \A g \in Handles : Is(1, "LOST", g) /\ Callable(g)' => LossDropped(g)
  BY ZenonT(30), <1>3, <1>6 DEF Is, Callable, LossDropped
<1>12. work'.type \in Losses => work' = e
  BY Zenon, <1>1, <1>2
<1>13. /\ QuietInv' /\ LossMeansGone' /\ ReadyFirst' /\ InOrder' /\ LostIsLast'
       /\ LossReachesTable'
  BY Zenon, <1>0, <1>1, <1>2, <1>7, <1>8, <1>9, <1>10, <1>11, <1>12, TakeKeeps
<1>14. UsersInv'
  BY Zenon, <1>1 DEF PeerInv, UsersInv
<1>15. CompletedConnectFindsPeer'
  <2> SUFFICES ASSUME NEW u \in Users, user[u] = "wait"
               PROVE  Callable(ConnOf[u])' \/ Gone(ConnOf[u])
    BY Zenon, <1>1 DEF CompletedConnectFindsPeer, Gone
  <2>1. ConnOf[u] \in Handles
    BY Zenon, PeersAssumption
  <2>2. CASE Gone(ConnOf[u])
    BY Zenon, <2>2
  <2>3. CASE Callable(ConnOf[u]) /\ ~Gone(ConnOf[u])
    <3>1. conn[ConnOf[u]] = "ready"
      BY Zenon, <2>1, <2>3 DEF PeerInv, QuietInv, Callable, Reported, Gone
    <3> QED BY Zenon, <1>9, <2>1, <2>3, <3>1
  <2> QED BY Zenon, <2>2, <2>3 DEF PeerInv, CompletedConnectFindsPeer
<1> QED BY Zenon, <1>0, <1>13, <1>14, <1>15 DEF PeerInv

\* The status of a connect is taken from the queue: READY was applied before.
LEMMA CompleteKeeps == ASSUME PeerInv, WorkerConnComplete PROVE PeerInv'
<1> USE DEF cVars, bindVars
<1>0. TypeOK /\ TypeOK'
  BY Zenon, TypeNext DEF PeerInv, Next
<1>1. /\ queue # <<>> /\ queue' = Tail(queue) /\ UNCHANGED cVars
      /\ peers' = peers /\ work' = work /\ work = NoWork
  BY Zenon DEF WorkerConnComplete
<1>2. /\ Head(queue) = queue[1] /\ 1 \in 1 .. Len(queue) /\ Len(queue) \in Nat
      /\ queue[1].handle \in Handles
      /\ queue[1].type \in {"CONN_OK", "CONN_FAIL"}
  BY Zenon, <1>0, <1>1, HeadEntries DEF Events, WorkerConnComplete
<1>3. /\ \A g : ~Is(1, "READY", g) /\ ~Is(1, "LOST", g)
      /\ \A g \in Handles : Callable(g)' <=> Callable(g)
      /\ work'.type \notin Losses
  BY Zenon, <1>1, <1>2 DEF Is, Callable, NoWork, Losses
<1>4. \A g \in Handles : conn[g] = "ready" /\ g \in DOMAIN peers' => peers'[g].callable
  BY Zenon, <1>1 DEF PeerInv, LossMeansGone
<1>5. /\ QuietInv' /\ LossMeansGone' /\ ReadyFirst' /\ InOrder' /\ LostIsLast'
      /\ LossReachesTable'
  BY Zenon, <1>0, <1>1, <1>2, <1>3, <1>4, TakeKeeps
<1>6. UsersInv'
  BY Zenon, <1>1 DEF PeerInv, UsersInv, WorkerConnComplete
<1>7. CompletedConnectFindsPeer'
  <2> SUFFICES ASSUME NEW u \in Users, user'[u] = "wait"
               PROVE  Callable(ConnOf[u]) \/ Gone(ConnOf[u])
    BY Zenon, <1>1 DEF CompletedConnectFindsPeer, Gone, Callable
  <2>1. CASE user[u] = "wait"
    BY Zenon, <2>1 DEF PeerInv, CompletedConnectFindsPeer
  <2>2. CASE user[u] # "wait"
    <3>1. queue[1].handle = ConnOf[u] /\ queue[1].type = "CONN_OK"
      BY Zenon, <1>2, <2>2 DEF WorkerConnComplete
    <3>2. conn[ConnOf[u]] \in Reported
      BY Zenon, <1>2, <3>1 DEF PeerInv, QuietInv
    <3>3. CASE conn[ConnOf[u]] = "ready"
      <4>1. Is(1, "CONN_OK", ConnOf[u]) /\ ReadyFirstAt(ConnOf[u])
        BY Zenon, <1>2, <3>1 DEF Is, PeerInv, ReadyFirst
      <4>2. 1 .. (1 - 1) = {}
        OBVIOUS
      <4> QED BY Zenon, <1>2, <3>3, <4>1, <4>2 DEF ReadyFirstAt
    <3> QED BY Zenon, <3>2, <3>3 DEF Reported, Gone
  <2> QED BY Zenon, <2>1, <2>2
<1> QED BY Zenon, <1>0, <1>5, <1>6, <1>7 DEF PeerInv

-----------------------------------------------------------------------------
(* The other steps, and the theorems. *)

\* Steps that leave the connections, the queue and the table alone.
LEMMA OthersKeep ==
    ASSUME PeerInv, TypeOK', UNCHANGED <<cVars, queue, peers>>,
           work' \in {work, NoWork},
           \A u \in Users : user'[u] = user[u] \/ user'[u] \notin {"find", "wait"}
    PROVE  PeerInv'
<1> USE DEF cVars
<1>1. LossMeansGone'
  BY SMTT(30) DEF PeerInv, LossMeansGone, Gone, NoWork, Losses
<1>2. QuietInv' /\ ReadyFirst'
  BY SMTT(30) DEF PeerInv, QuietInv, ReadyFirst, ReadyFirstAt, Callable, Is
<1>4. InOrder' /\ LostIsLast' /\ LossReachesTable'
  BY SMTT(30) DEF PeerInv, InOrder, LostIsLast, LossReachesTable, LossQueued,
     LossDropped, Gone,
         Callable, Is
<1>3. UsersInv' /\ CompletedConnectFindsPeer'
  BY Zenon DEF PeerInv, UsersInv, CompletedConnectFindsPeer, Gone, Callable
<1> QED BY Zenon, <1>1, <1>2, <1>3, <1>4 DEF PeerInv

\* A thread that looks for its peer changes no event.
LEMMA FindKeeps ==
    ASSUME PeerInv, TypeOK', NEW u \in Users, FindOrConnect(u)
    PROVE  PeerInv'
<1> USE DEF cVars, tableVars, bindVars
<1>0. /\ user \in [Users -> {"find", "connecting", "wait", "done", "failed"}]
      /\ ConnOf[u] \in Handles
  BY Zenon, PeersAssumption DEF PeerInv, TypeOK
<1>1. CASE conn' = conn
  <2>1. \A v \in Users : user'[v] = user[v] \/ user'[v] \in {"connecting", "done", "failed"}
    BY Zenon, <1>0 DEF FindOrConnect, Got
  <2> QED BY Zenon, <1>1, <2>1, OthersKeep DEF FindOrConnect
<1>2. CASE conn' # conn
  <2>1. /\ user' = [user EXCEPT ![u] = "connecting"]
        /\ conn' = [conn EXCEPT ![ConnOf[u]] = "connecting"]
    BY ZenonT(30), <1>2 DEF FindOrConnect
  <2>2. /\ UNCHANGED <<clock, setBack, tableVars>> /\ overtaken' = overtaken
        /\ owed' = owed
    BY Zenon DEF FindOrConnect
  <2>3. conn[ConnOf[u]] = "none"
    BY Zenon DEF FindOrConnect, PeerInv, UsersInv
  <2>4. \A v \in Users : v # u => ConnOf[v] # ConnOf[u]
    BY Zenon, PeersAssumption
  <2>5. /\ \A v \in Users : user'[v] = user[v] \/ user'[v] \notin {"find", "wait"}
        /\ \A v \in Users : user'[v] = "find" /\ ConnOf[v] = ConnOf[u] => FALSE
    BY Zenon, <1>0, <2>1, <2>4
  <2> QED BY ZenonT(30), <1>0, <2>1, <2>2, <2>3, <2>5, ConnectKeeps
<1> QED BY Zenon, <1>1, <1>2

\* Nothing is queued and no peer is known at the start.
LEMMA PeerInvInit == ASSUME Init PROVE PeerInv
<1>1. TypeOK
  <2>1. PICK group \in Groups :
             /\ conn = [h \in Handles |-> IF h \in group THEN "none" ELSE "failed"]
             /\ user = [u \in Users |-> IF ConnOf[u] \in group THEN "find" ELSE "failed"]
    BY Zenon DEF Init
  <2>2. <<>> \in Seq({"READY", "CONN_OK"}) /\ <<>> \in Seq(Events)
    OBVIOUS
  <2>3. clock \in 0 .. MaxClock
    BY SMTT(30), PeersAssumption DEF Init
  <2>4. DOMAIN peers = {}
    BY Zenon DEF Init
  <2> QED BY ZenonT(30), <2>1, <2>2, <2>3, <2>4 DEF Init, TypeOK
<1>2. Len(queue) = 0 /\ queue = <<>> /\ DOMAIN peers = {} /\ work.type = "none"
  BY Zenon DEF Init, NoWork
<1>3. 1 .. Len(queue) = {}
  BY SMTT(30), <1>2
<1>4. \A h \in Handles : conn[h] \in {"none", "failed"} /\ owed[h] = <<>>
  BY Zenon DEF Init
<1>5. \A u \in Users : /\ user[u] \in {"find", "failed"} /\ ConnOf[u] \in Handles
                       /\ user[u] = "find" => conn[ConnOf[u]] = "none"
  BY SMTT(30), PeersAssumption DEF Init
<1>6. QuietInv /\ LossMeansGone
  BY Zenon, <1>2, <1>3, <1>4 DEF QuietInv, LossMeansGone, Losses
<1>7. ReadyFirst
  BY Zenon, <1>4 DEF ReadyFirst, ReadyFirstAt
<1>8. InOrder /\ LostIsLast /\ LossReachesTable
  BY Zenon, <1>2, <1>3, <1>4 DEF InOrder, LostIsLast, LossReachesTable, Gone
<1>9. UsersInv /\ CompletedConnectFindsPeer
  BY Zenon, <1>5 DEF UsersInv, CompletedConnectFindsPeer
<1> QED BY Zenon, <1>1, <1>6, <1>7, <1>8, <1>9 DEF PeerInv

\* Every step preserves the invariant.
LEMMA PeerInvNext == ASSUME PeerInv, [Next]_vars PROVE PeerInv'
<1> USE DEF cVars, tableVars, bindVars, userVars
<1>0. TypeOK /\ TypeOK'
  BY Zenon, TypeNext DEF PeerInv
<1>1. CASE UNCHANGED vars
  BY Zenon, <1>0, <1>1, OthersKeep DEF vars
<1>2. CASE Tick
  BY Zenon, <1>2, TickKeeps
<1>3. ASSUME NEW h \in Handles, Connect(h) \/ ConnectThread(h) \/ MarkReady(h) \/ Lose(h),
             queue' = queue
      PROVE  PeerInv'
  <2>1. UNCHANGED <<clock, setBack, tableVars>> /\ user' = user
    BY Zenon, <1>3 DEF Connect, ConnectThread, MarkReady, Lose
  <2>2. \A u \in Users : user'[u] = "find" /\ ConnOf[u] = h => h \in Requested /\ conn[h] = "none"
    BY Zenon, <2>1 DEF PeerInv, UsersInv, Requested
  <2>3. CASE Connect(h)
    BY ZenonT(30), <1>0, <2>1, <2>2, <2>3, ConnectKeeps DEF Connect
  <2>4. CASE ConnectThread(h) /\ conn' = [conn EXCEPT ![h] = "up"]
    BY ZenonT(30), <1>0, <2>1, <2>2, <2>4, ConnectKeeps DEF ConnectThread
  <2>5. CASE MarkReady(h)
    BY ZenonT(30), <1>0, <2>1, <2>2, <2>5, ConnectKeeps DEF MarkReady
  <2>6. CASE Lose(h)
    <3>1. conn[h] = "up" \/ Put("LOST", h)
      BY Zenon, <2>6 DEF Lose
    <3>2. ~Put("LOST", h)
      <4>1. Put("LOST", h) => Len(queue') = Len(queue) + 1
        BY Zenon, <1>0, PutAdds DEF EventTypes
      <4> QED BY SMTT(30), <1>0, <1>3, <4>1, QueueTypes
    <3>3. owed[h] = <<>> /\ conn[h] = "up"
      BY Zenon, <3>1, <3>2 DEF PeerInv, QuietInv, Reported
    <3> QED BY ZenonT(30), <1>0, <2>1, <2>2, <2>6, <3>3, ConnectKeeps DEF Lose
  <2>7. CASE ConnectThread(h) /\ Put("CONN_FAIL", h)
    <3>1. Len(queue') = Len(queue) + 1
      BY Zenon, <1>0, <2>7, PutAdds DEF EventTypes
    <3> QED BY SMTT(30), <1>0, <1>3, <3>1, QueueTypes
  <2> QED BY Zenon, <1>3, <2>3, <2>4, <2>5, <2>6, <2>7 DEF ConnectThread
<1>4. ASSUME NEW h \in Handles, ConnectThread(h), Put("CONN_FAIL", h) PROVE PeerInv'
  <2>1. Len(queue') = Len(queue) + 1
    BY Zenon, <1>0, <1>4, PutAdds DEF EventTypes
  <2>2. queue' # queue
    BY SMTT(30), <1>0, <2>1, QueueTypes
  <2> QED BY Zenon, <1>0, <1>4, <2>2, FailKeeps DEF ConnectThread
<1>5. ASSUME NEW h \in Handles, Notify(h) PROVE PeerInv'
  BY Zenon, <1>0, <1>5, NotifyKeeps
<1>6. ASSUME NEW h \in Handles, Lose(h), conn[h] = "ready" PROVE PeerInv'
  BY ZenonT(30), <1>0, <1>6, LossKeeps DEF Lose, Losses
<1>7. ASSUME NEW h \in Handles, Remove(h) PROVE PeerInv'
  BY ZenonT(30), <1>0, <1>7, LossKeeps DEF Remove, Losses
<1>8. CASE WorkerApply
  BY ZenonT(30), <1>8, ApplyKeeps
<1>9. CASE WorkerConnComplete
  BY ZenonT(30), <1>9, CompleteKeeps
<1>10. CASE WorkerFinish
  BY Zenon, <1>0, <1>10, OthersKeep DEF WorkerFinish
<1>11. ASSUME NEW h \in DirsvcHandles, Bind(h) PROVE PeerInv'
  BY Zenon, <1>0, <1>11, OthersKeep DEF Bind, BindCheck, BindStillReady, BindConstruct,
     BindAssign
<1>12. ASSUME NEW u \in Users, FindOrConnect(u) PROVE PeerInv'
  BY Zenon, <1>0, <1>12, FindKeeps
<1>13. ASSUME NEW u \in Users, WaitForBoundAgent(u) \/ TimeOut(u) PROVE PeerInv'
  <2>1. \A v \in Users : user'[v] = user[v] \/ user'[v] \in {"done", "failed"}
    BY Zenon, <1>0, <1>13 DEF WaitForBoundAgent, TimeOut, Got, TypeOK
  <2> QED BY Zenon, <1>0, <1>13, <2>1, OthersKeep DEF WaitForBoundAgent, TimeOut
<1>14. \A h \in Handles :
          /\ Connect(h) \/ MarkReady(h) => queue' = queue
          /\ ConnectThread(h) => queue' = queue \/ Put("CONN_FAIL", h)
          /\ Lose(h) => queue' = queue \/ conn[h] = "ready"
  BY Zenon DEF Connect, MarkReady, ConnectThread, Lose
<1> QED BY Zenon, <1>1, <1>2, <1>3, <1>4, <1>5, <1>6, <1>7, <1>8, <1>9, <1>10, <1>11,
           <1>12,
           <1>13, <1>14 DEF Next

\* PeerTable.apply_event and the order in which events are queued: the record of
\* a connection that is gone is callable only while its LOST event is queued, or
\* in the two cases LossDropped names.
THEOREM LossReaches == Spec => []LossReachesTable
<1>1. Init => PeerInv
  BY Zenon, PeerInvInit
<1>2. PeerInv /\ [Next]_vars => PeerInv'
  BY Zenon, PeerInvNext
<1>3. PeerInv => LossReachesTable
  BY Zenon DEF PeerInv
<1> HIDE DEF PeerInv, LossReachesTable, Init, Next
<1> QED BY <1>1, <1>2, <1>3, PTL DEF Spec

\* defw.connect_to_services: when its connect was completed the worker has
\* applied READY, so the peer is found in the table unless it was lost.
THEOREM CompletedConnect == Spec => []CompletedConnectFindsPeer
<1>1. Init => PeerInv
  BY Zenon, PeerInvInit
<1>2. PeerInv /\ [Next]_vars => PeerInv'
  BY Zenon, PeerInvNext
<1>3. PeerInv => CompletedConnectFindsPeer
  BY Zenon DEF PeerInv
<1> HIDE DEF PeerInv, CompletedConnectFindsPeer, Init, Next
<1> QED BY <1>1, <1>2, <1>3, PTL DEF Spec

\* WorkerThread.clear_dirsvc_peer: only the loss of the connection it is bound
\* to clears the proxy of the directory service.
THEOREM ReplacementIsKept == Spec => ReplacementKept
<1> DEFINE Cleared == dirsvc # NoHandle /\ dirsvc' = NoHandle
                          => work # NoWork /\ work.handle = dirsvc /\ Gone(dirsvc)
<1>1. Init => PeerInv
  BY Zenon, PeerInvInit
<1>2. PeerInv /\ [Next]_vars => PeerInv'
  BY Zenon, PeerInvNext
<1>3. PeerInv /\ [Next]_vars => [Cleared]_vars
  <2> USE DEF cVars, tableVars, bindVars, userVars
  <2> SUFFICES ASSUME PeerInv, Next, dirsvc # NoHandle, dirsvc' = NoHandle
               PROVE  work # NoWork /\ work.handle = dirsvc /\ Gone(dirsvc)
    BY Zenon
  <2>1. ASSUME NEW h \in DirsvcHandles, Bind(h) PROVE FALSE
    <3>1. h # NoHandle
      BY Zenon, PeersAssumption
    <3> QED BY Zenon, <2>1, <3>1 DEF Bind, BindCheck, BindStillReady, BindConstruct,
               BindAssign
  <2>2. WorkerFinish
    BY ZenonT(30), <2>1 DEF Next, Tick, Connect, ConnectThread, MarkReady, Notify,
       Lose, Remove,
                WorkerApply, WorkerConnComplete, FindOrConnect, WaitForBoundAgent, TimeOut
  <2>3. work # NoWork /\ work.type \in Losses /\ work.handle = dirsvc
    BY Zenon, <2>2 DEF WorkerFinish, ClearDirsvcPeer, Losses
  <2> QED BY Zenon, <2>3 DEF PeerInv, LossMeansGone
<1>4. ReplacementKept <=> [][Cleared]_vars
  BY PTL DEF ReplacementKept
<1> HIDE DEF PeerInv, Init, Next, Cleared
<1> QED BY <1>1, <1>2, <1>3, <1>4, PTL DEF Spec

-----------------------------------------------------------------------------
(* What Append, Head and Tail do to the contents of a queue. *)

\* What a queue holds after an append.
LEMMA AppendContents ==
    ASSUME NEW T, NEW s \in Seq(T), NEW e \in T
    PROVE  /\ Append(s, e) \in Seq(T)
           /\ Append(s, e) # <<>>
           /\ Len(Append(s, e)) = Len(s) + 1
           /\ \A i \in 1..Len(s) : Append(s, e)[i] = s[i]
           /\ Append(s, e)[Len(s) + 1] = e
  OBVIOUS

\* What it holds after its head was taken.
LEMMA TailContents ==
    ASSUME NEW T, NEW s \in Seq(T), s # <<>>
    PROVE  /\ Tail(s) \in Seq(T) /\ Head(s) \in T /\ Head(s) = s[1]
           /\ Len(s) \in Nat /\ Len(s) >= 1
           /\ Len(Tail(s)) = Len(s) - 1
           /\ \A i \in 1..Len(Tail(s)) : Tail(s)[i] = s[i + 1]
  OBVIOUS

\* A queue of one is empty after its head was taken.
LEMMA SingleTail ==
    ASSUME NEW T, NEW s \in Seq(T), s # <<>>, Len(s) <= 1
    PROVE  Tail(s) = <<>>
  <1>1. Len(s) \in Nat /\ Len(s) >= 1 /\ Tail(s) \in Seq(T)
        /\ Len(Tail(s)) = Len(s) - 1
    BY Zenon, TailContents
  <1>2. Len(Tail(s)) = 0
    BY SMTT(30), <1>1
  <1> QED  BY SMTT(30), <1>1, <1>2

\* A request that finishes keeps the types.
LEMMA OfCaller ==
    ASSUME W!TypeOK, NEW q \in W!Reqs, NEW how \in W!Outcomes, W!Finish(q, how)
    PROVE  /\ phase' \in [W!Reqs -> {"idle", "added", "sending", "done"} \cup W!Pending]
           /\ outcome' \in [W!Reqs -> W!Outcomes]
  BY Zenon DEF W!TypeOK, W!Finish

\* Appending to the queues of some requests keeps every queue a queue.
LEMMA PutType ==
    ASSUME W!TypeOK, NEW qs, NEW type \in W!Completions, W!Put(qs, type)
    PROVE  /\ inbox' \in [W!Reqs -> Seq(W!Completions)]
           /\ \A q \in W!Reqs : q \notin qs => inbox'[q] = inbox[q]
           /\ \A q \in W!Reqs : q \in qs => inbox'[q] = Append(inbox[q], type)
  <1>1. \A q \in W!Reqs : inbox[q] \in Seq(W!Completions)
    BY Zenon DEF W!TypeOK
  <1>2. \A q \in W!Reqs : Append(inbox[q], type) \in Seq(W!Completions)
    BY Zenon, <1>1, AppendContents
  <1> QED  BY Zenon, <1>1, <1>2 DEF W!Put

\* Handling a message keeps the types.
LEMMA HandleType ==
    ASSUME W!TypeOK, W!Handle
    PROVE  /\ workq' \in Seq(W!WorkerEvents)
           /\ inbox' \in [W!Reqs -> Seq(W!Completions)]
           /\ req_db' \in SUBSET W!Reqs /\ running' \in BOOLEAN
  <1> DEFINE we == Head(workq)
  <1>1. workq \in Seq(W!WorkerEvents) /\ workq # <<>>
    BY Zenon DEF W!TypeOK, W!Handle
  <1>2. we \in W!WorkerEvents /\ workq' \in Seq(W!WorkerEvents)
    BY Zenon, <1>1, TailContents DEF W!Handle
  <1>3. req_db \in SUBSET W!Reqs /\ running \in BOOLEAN
    BY Zenon DEF W!TypeOK
  <1>4. CASE we.type = "RESPONSE" /\ W!HandleResponse(we.arg)
    BY Zenon, <1>2, <1>3, <1>4, PutType DEF W!HandleResponse, W!Completions
  <1>5. CASE we.type \in {"CONN_OK", "CONN_FAIL"}
             /\ W!HandleConnComplete(we.arg, we.type)
    BY Zenon, <1>2, <1>3, <1>5, PutType DEF W!HandleConnComplete, W!Completions
  <1>6. CASE we.type = "PEER_LOST" /\ W!HandlePeerLost(we.arg)
    BY Zenon, <1>2, <1>3, <1>6, PutType DEF W!HandlePeerLost, W!Completions
  <1>7. CASE we.type = "SHUTDOWN" /\ W!HandleShutdown
    BY ZenonT(30), <1>2, <1>3, <1>7, PutType DEF W!HandleShutdown, W!Completions
  <1> QED  BY Zenon, <1>4, <1>5, <1>6, <1>7 DEF W!Handle

\* Every step preserves the types.
LEMMA TypeStep == W!TypeOK /\ [W!Next]_(W!vars) => W!TypeOK'
  <1> SUFFICES ASSUME W!TypeOK, [W!Next]_(W!vars) PROVE W!TypeOK'
    BY Zenon
  <1>1. ASSUME NEW q \in W!Reqs, W!AddWorkRequest(q) PROVE W!TypeOK'
    BY Zenon, <1>1 DEF W!AddWorkRequest, W!TypeOK, W!farVars
  <1>2. ASSUME NEW q \in W!Reqs, W!SendFinds(q) \/ W!SendOk(q) \/ W!ConnectStarted(q)
        PROVE W!TypeOK'
    BY ZenonT(30), <1>2 DEF W!SendFinds, W!SendOk, W!ConnectStarted, W!TypeOK, W!farVars,
                W!workerVars, W!Pending
  <1>3. ASSUME NEW q \in W!Reqs, W!SendFails(q) \/ W!ConnectRefused(q) PROVE W!TypeOK'
    <2>1. W!Finish(q, "send-failed")
      BY Zenon, <1>3 DEF W!SendFails, W!ConnectRefused
    <2> QED  BY Zenon, <1>3, <2>1, OfCaller DEF W!SendFails, W!ConnectRefused, W!TypeOK,
                W!farVars, W!workerVars, W!Outcomes
  <1>4. ASSUME NEW q \in W!Reqs, W!WaitTop(q) PROVE W!TypeOK'
    <2>1. UNCHANGED <<late, W!workerVars, up, W!farVars>>
      BY Zenon, <1>4 DEF W!WaitTop
    <2>2. CASE phase' = [phase EXCEPT ![q] = "getting"] /\ UNCHANGED outcome
      BY Zenon, <2>1, <2>2 DEF W!TypeOK, W!farVars, W!workerVars, W!Pending
    <2>3. CASE W!Finish(q, "timeout") \/ W!Finish(q, "shutdown")
      BY Zenon, <2>1, <2>3, OfCaller DEF W!TypeOK, W!farVars, W!workerVars, W!Outcomes
    <2> QED  BY Zenon, <1>4, <2>2, <2>3 DEF W!WaitTop
  <1>5. ASSUME NEW q \in W!Reqs, W!WaitEmpty(q) PROVE W!TypeOK'
    BY Zenon, <1>5 DEF W!WaitEmpty, W!TypeOK, W!farVars, W!workerVars, W!Pending
  <1>6. ASSUME NEW q \in W!Reqs, W!WaitGet(q) PROVE W!TypeOK'
    <2>1. inbox[q] \in Seq(W!Completions) /\ inbox[q] # <<>>
      BY Zenon, <1>6 DEF W!WaitGet, W!TypeOK
    <2>2. Tail(inbox[q]) \in Seq(W!Completions) /\ Head(inbox[q]) \in W!Completions
      BY Zenon, <2>1, TailContents
    <2>3. W!ResultOf(Head(inbox[q])) \in W!Outcomes
      BY Zenon, <2>2 DEF W!ResultOf, W!Completions, W!Outcomes
    <2>4. inbox' \in [W!Reqs -> Seq(W!Completions)]
      BY Zenon, <1>6, <2>2 DEF W!WaitGet, W!TypeOK
    <2>5. W!Finish(q, W!ResultOf(Head(inbox[q])))
          /\ UNCHANGED <<late, req_db, workq, running, up, W!farVars>>
      BY Zenon, <1>6 DEF W!WaitGet
    <2> QED  BY Zenon, <2>3, <2>4, <2>5, OfCaller DEF W!TypeOK, W!farVars
  <1>7. ASSUME NEW q \in W!Reqs, W!Deadline(q) PROVE W!TypeOK'
    BY Zenon, <1>7 DEF W!Deadline, W!TypeOK, W!farVars, W!workerVars
  <1>8. ASSUME NEW q \in W!Reqs, W!Execute(q) \/ W!NoAnswer(q) PROVE W!TypeOK'
    <2>1. /\ UNCHANGED <<W!callerVars, W!workerVars, up, link>>
          /\ \E x \in {"executed", "silent"} : call' = [call EXCEPT ![q] = x]
      BY Zenon, <1>8 DEF W!Execute, W!NoAnswer
    <2>0. executed \in [W!Reqs -> Nat]
      BY Zenon DEF W!TypeOK
    <2>2. executed' \in [W!Reqs -> Nat]
      BY SMTT(30), <1>8, <2>0 DEF W!Execute, W!NoAnswer
    <2> QED  BY ZenonT(30), <2>1, <2>2 DEF W!TypeOK, W!callerVars, W!workerVars
  <1>9. ASSUME NEW q \in W!Reqs, W!PutResponse(q) PROVE W!TypeOK'
    <2>1. workq' \in Seq(W!WorkerEvents)
      BY Zenon, <1>9, AppendContents DEF W!PutResponse, W!Event, W!WorkerEvents, W!TypeOK
    <2> QED  BY Zenon, <1>9, <2>1 DEF W!PutResponse, W!TypeOK, W!callerVars
  <1>10. ASSUME NEW q \in ConnReqs, NEW type \in {"CONN_OK", "CONN_FAIL"},
                W!PutConnectComplete(q, type) PROVE W!TypeOK'
    <2>1. workq' \in Seq(W!WorkerEvents)
      BY ZenonT(30), <1>10, AppendContents DEF W!PutConnectComplete, W!Event,
         W!WorkerEvents, W!TypeOK
    <2> QED  BY Zenon, <1>10, <2>1 DEF W!PutConnectComplete, W!TypeOK, W!callerVars,
                W!Reqs
  <1>11. ASSUME NEW h \in Conns, W!PutPeerLost(h) PROVE W!TypeOK'
    <2>1. workq' \in Seq(W!WorkerEvents)
      BY SMTT(30), <1>11, AppendContents DEF W!PutPeerLost, W!Event, W!WorkerEvents,
         W!TypeOK
    <2> QED  BY Zenon, <1>11, <2>1 DEF W!PutPeerLost, W!TypeOK, W!callerVars
  <1>12. CASE W!Handle
    BY Zenon, <1>12, HandleType DEF W!Handle, W!TypeOK, W!callerVars, W!farVars
  <1>13. CASE W!Shutdown
    <2>1. workq' \in Seq(W!WorkerEvents)
      BY Zenon, <1>13, AppendContents DEF W!Shutdown, W!Event, W!WorkerEvents, W!TypeOK
    <2> QED  BY ZenonT(30), <1>13, <2>1 DEF W!Shutdown, W!TypeOK, W!callerVars, W!farVars
  <1>14. CASE UNCHANGED W!vars
    BY Zenon, <1>14 DEF W!TypeOK, W!vars, W!callerVars, W!workerVars, W!farVars
  <1> QED  BY ZenonT(30), <1>1, <1>2, <1>3, <1>4, <1>5, <1>6, <1>7, <1>8, <1>9, <1>10,
              <1>11, <1>12, <1>13, <1>14 DEF W!Next, W!Caller

\* The queues of the worker thread and of the callers hold events of their
\* kinds, whatever the callers, the far end and the C threads do.
THEOREM TypeCorrect == W!Spec => []W!TypeOK
  <1>1. W!Init => W!TypeOK
    BY SMTT(30) DEF W!Init, W!TypeOK, W!Pending, W!Outcomes
  <1> QED  BY <1>1, TypeStep, PTL DEF W!Spec

-----------------------------------------------------------------------------
(* At most one completion, and no lost loss. *)

Entered == W!Pending \cup {"added", "sending"}
InFlight == W!Pending \cup {"sending"}

\* While the worker thread runs, an entered send is in req_db or has its event
\* on its queue, never both; a call that ended by an event is not in req_db.
TableInv ==
    \A q \in SendReqs :
        /\ phase[q] = "idle" => (q \notin req_db /\ inbox[q] = <<>>)
        /\ phase[q] # "done" => outcome[q] = "none"
        /\ (running /\ phase[q] \in Entered) =>
              (q \in req_db \/ inbox[q] # <<>>)
        /\ (running /\ q \in req_db) =>
              /\ inbox[q] = <<>>
              /\ outcome[q] \notin {"response", "peer-lost"}

\* A send in flight whose connections are all lost, and that is still in
\* req_db, has the loss of one of them ahead of it in the worker's queue.
LossAhead ==
    \A q \in SendReqs :
        (/\ running /\ q \in req_db /\ phase[q] \in InFlight
         /\ \A h \in Targets[q] : link[h] = "lost")
        => \E h \in Targets[q] : W!LossQueued(h)

RequestInv == W!TypeOK /\ TableInv /\ W!OneCompletion /\ LossAhead

\* No request is under way at the start.
LEMMA InitInv == W!Init => RequestInv
  <1> SUFFICES ASSUME W!Init PROVE RequestInv
    BY Zenon
  <1>1. W!TypeOK
    BY SMTT(30) DEF W!Init, W!TypeOK, W!Pending, W!Outcomes
  <1>2. TableInv
    BY Zenon DEF W!Init, TableInv, Entered, W!Pending, W!Reqs
  <1>3. W!OneCompletion
    BY SMTT(30) DEF W!Init, W!OneCompletion, W!Reqs
  <1>4. LossAhead
    BY Zenon DEF W!Init, LossAhead
  <1> QED  BY Zenon, <1>1, <1>2, <1>3, <1>4 DEF RequestInv

\* Steps that leave the worker's state and the connections alone and move one
\* thread from one phase to a later one.
LEMMA CallerMoves ==
    ASSUME RequestInv, UNCHANGED <<outcome, W!workerVars, link>>,
           NEW q \in W!Reqs, NEW p \in InFlight, phase[q] \in Entered,
           q \in SendReqs => \/ phase[q] \in InFlight
                            \/ \E h \in Targets[q] : link[h] = "up",
           phase' = [phase EXCEPT ![q] = p]
    PROVE  TableInv' /\ W!OneCompletion' /\ LossAhead'
  <1>1. phase \in [W!Reqs -> {"idle", "added", "sending", "done"} \cup W!Pending]
        /\ SendReqs \subseteq W!Reqs
    BY Zenon DEF RequestInv, W!TypeOK, W!Reqs
  <1>2. UNCHANGED <<req_db, inbox, workq, running, link>>
    BY Zenon DEF W!workerVars
  <1>3. TableInv'
    BY Zenon, <1>1, <1>2 DEF RequestInv, TableInv, Entered, InFlight, W!Pending
  <1>4. W!OneCompletion'
    BY Zenon, <1>2 DEF RequestInv, W!OneCompletion
  <1>5. LossAhead'
    <2> SUFFICES ASSUME NEW r \in SendReqs, running, r \in req_db,
                        phase'[r] \in InFlight,
                        \A h \in Targets[r] : link[h] = "lost"
                 PROVE  \E h \in Targets[r] : W!LossQueued(h)
      BY Zenon, <1>2 DEF LossAhead, W!LossQueued
    <2>1. phase[r] \in InFlight
      BY Zenon, <1>1
    <2> QED  BY Zenon, <2>1 DEF RequestInv, LossAhead
  <1> QED  BY Zenon, <1>3, <1>4, <1>5

\* Steps that end a call without an event.
LEMMA CallerEnds ==
    ASSUME RequestInv, UNCHANGED <<inbox, workq, running, link>>,
           NEW q \in W!Reqs, NEW how \in W!Outcomes \ {"response", "peer-lost"},
           phase[q] \in Entered, W!Finish(q, how),
           req_db' = req_db \/ (q \in ConnReqs /\ req_db' = req_db \ {q})
    PROVE  TableInv' /\ W!OneCompletion' /\ LossAhead'
  <1>1. phase \in [W!Reqs -> {"idle", "added", "sending", "done"} \cup W!Pending]
        /\ outcome \in [W!Reqs -> W!Outcomes] /\ SendReqs \subseteq W!Reqs
    BY Zenon DEF RequestInv, W!TypeOK, W!Reqs
  <1>2. \A r \in SendReqs : r \in req_db' <=> r \in req_db
    BY Zenon, RequestsAssumption
  <1>3. \A r \in W!Reqs : /\ r = q => phase'[r] = "done" /\ outcome'[r] = how
                          /\ r # q => phase'[r] = phase[r]
                                      /\ outcome'[r] = outcome[r]
    BY Zenon, <1>1 DEF W!Finish
  <1>4. TableInv'
    BY Zenon, <1>1, <1>2, <1>3 DEF RequestInv, TableInv, Entered, W!Pending
  <1>5. W!OneCompletion'
    BY ZenonT(30), <1>1, <1>3 DEF RequestInv, W!OneCompletion
  <1>6. LossAhead'
    BY SMTT(30), <1>1, <1>2, <1>3 DEF RequestInv, LossAhead, W!LossQueued, InFlight,
       W!Pending
  <1> QED  BY Zenon, <1>4, <1>5, <1>6

\* The one step that ends a call by an event.
LEMMA CallerGets ==
    ASSUME RequestInv, NEW q \in W!Reqs, W!WaitGet(q)
    PROVE  TableInv' /\ W!OneCompletion' /\ LossAhead'
  <1> DEFINE how == W!ResultOf(Head(inbox[q]))
  <1>1. phase \in [W!Reqs -> {"idle", "added", "sending", "done"} \cup W!Pending]
        /\ outcome \in [W!Reqs -> W!Outcomes] /\ SendReqs \subseteq W!Reqs
        /\ inbox \in [W!Reqs -> Seq(W!Completions)]
        /\ TableInv /\ W!OneCompletion /\ LossAhead
    BY Zenon DEF RequestInv, W!TypeOK, W!Reqs
  <1>2. /\ phase[q] = "getting" /\ inbox[q] # <<>>
        /\ UNCHANGED <<req_db, workq, running, link>>
        /\ inbox'[q] = Tail(inbox[q])
        /\ \A r \in W!Reqs : /\ r = q => phase'[r] = "done" /\ outcome'[r] = how
                             /\ r # q => /\ phase'[r] = phase[r]
                                         /\ outcome'[r] = outcome[r]
                                         /\ inbox'[r] = inbox[r]
    BY Zenon, <1>1 DEF W!WaitGet, W!Finish, W!farVars
  <1>3. q \in SendReqs => ~(running /\ q \in req_db)
    BY ZenonT(30), <1>1, <1>2 DEF TableInv
  <1>4. TableInv'
    BY SMTT(30), <1>1, <1>2, <1>3 DEF TableInv, Entered, W!Pending
  <1>5. q \in SendReqs => inbox'[q] = <<>>
    <2> SUFFICES ASSUME q \in SendReqs PROVE inbox'[q] = <<>>
      BY Zenon
    <2>1. inbox[q] \in Seq(W!Completions) /\ inbox[q] # <<>> /\ Len(inbox[q]) <= 1
      BY ZenonT(30), <1>1, <1>2 DEF W!OneCompletion
    <2> QED  BY Zenon, <1>2, <2>1, SingleTail
  <1>7. W!OneCompletion'
    BY SMTT(30), <1>1, <1>2, <1>5 DEF W!OneCompletion
  <1>6. LossAhead'
    BY ZenonT(30), <1>1, <1>2 DEF LossAhead, W!LossQueued, InFlight, W!Pending
  <1> QED  BY Zenon, <1>4, <1>6, <1>7

\* Steps that only add an event to the worker's queue.
LEMMA QueueGrows ==
    ASSUME RequestInv, NEW e \in W!WorkerEvents, workq' = Append(workq, e),
           UNCHANGED <<phase, outcome, req_db, inbox, running>>,
           \A h \in Conns : link'[h] # link[h] => e = W!Event("PEER_LOST", h)
    PROVE  TableInv' /\ W!OneCompletion' /\ LossAhead'
  <1>1. TableInv' /\ W!OneCompletion'
    BY Zenon DEF RequestInv, TableInv, W!OneCompletion
  <1>2. workq \in Seq(W!WorkerEvents)
    BY ZenonT(30) DEF RequestInv, W!TypeOK
  <1>3. /\ Len(workq) \in Nat /\ Len(workq') = Len(workq) + 1
        /\ \A i \in 1..Len(workq) : workq'[i] = workq[i]
        /\ workq'[Len(workq) + 1] = e
    BY SMTT(30), <1>2, AppendContents
  <1>4. \A h : W!LossQueued(h) => W!LossQueued(h)'
    BY SMTT(30), <1>3 DEF W!LossQueued
  <1>5. \A h : e = W!Event("PEER_LOST", h) => W!LossQueued(h)'
    BY SMTT(30), <1>3 DEF W!LossQueued
  <1>6. LossAhead'
    <2> SUFFICES ASSUME NEW r \in SendReqs, running, r \in req_db,
                        phase[r] \in InFlight,
                        \A h \in Targets[r] : link'[h] = "lost"
                 PROVE  \E h \in Targets[r] : W!LossQueued(h)'
      BY Zenon DEF LossAhead
    <2>1. CASE \A h \in Targets[r] : link'[h] = link[h]
      BY Zenon, <2>1, <1>4 DEF RequestInv, LossAhead
    <2>2. CASE \E h \in Targets[r] : link'[h] # link[h]
      <3>1. Targets[r] \subseteq Conns
        BY Zenon, RequestsAssumption
      <3> QED  BY Zenon, <2>2, <3>1, <1>5
    <2> QED  BY Zenon, <2>1, <2>2
  <1> QED  BY Zenon, <1>1, <1>6

\* A step of the worker thread preserves the invariant.
LEMMA WorkerStep ==
    ASSUME RequestInv, W!Handle
    PROVE  TableInv' /\ W!OneCompletion' /\ LossAhead'
  <1> DEFINE we == Head(workq)
  <1>1. workq \in Seq(W!WorkerEvents) /\ workq # <<>> /\ running
    BY Zenon DEF RequestInv, W!TypeOK, W!Handle
  <1>2. /\ we \in W!WorkerEvents /\ we = workq[1]
        /\ Len(workq) \in Nat /\ Len(workq) >= 1
        /\ Len(workq') = Len(workq) - 1
        /\ \A i \in 1..Len(workq') : workq'[i] = workq[i + 1]
    BY Zenon, <1>1, TailContents DEF W!Handle
  <1>3. UNCHANGED <<phase, outcome, link>>
    BY Zenon DEF W!Handle, W!callerVars, W!farVars
  <1>4. \A h : W!LossQueued(h) => we = W!Event("PEER_LOST", h) \/ W!LossQueued(h)'
    <2> SUFFICES ASSUME NEW h, NEW i \in 1..Len(workq),
                        workq[i] = W!Event("PEER_LOST", h),
                        we # W!Event("PEER_LOST", h)
                 PROVE  \E j \in 1..Len(workq') : workq'[j] = W!Event("PEER_LOST", h)
      BY Zenon DEF W!LossQueued
    <2>1. i # 1
      BY Zenon, <1>2
    <2>2. i - 1 \in 1..Len(workq') /\ (i - 1) + 1 = i
      BY SMTT(30), <1>2, <2>1
    <2>3. workq'[i - 1] = workq[i]
      BY Zenon, <1>2, <2>2
    <2> QED  BY Zenon, <2>2, <2>3
  <1>5. SendReqs \subseteq W!Reqs /\ W!TypeOK /\ TableInv /\ W!OneCompletion
        /\ LossAhead
    BY Zenon DEF RequestInv, W!Reqs
  \* What every branch of handle does: some requests get one event each; a
  \* send among them was in req_db, and leaves it unless the worker stops.
  <1> DEFINE Branch(qs, type) ==
        /\ W!Put(qs, type) /\ type \in W!Completions /\ qs \subseteq req_db
        /\ req_db' \subseteq req_db /\ req_db \ req_db' \subseteq qs
        /\ \A q \in SendReqs : running' /\ q \in req_db' => q \notin qs
        /\ \A q \in SendReqs : running' /\ q \in req_db' =>
              ~\E h \in Targets[q] : we = W!Event("PEER_LOST", h)
  <1>6. ASSUME NEW qs, NEW type, Branch(qs, type)
        PROVE  TableInv' /\ W!OneCompletion' /\ LossAhead'
    <2>1. /\ \A q \in W!Reqs : q \notin qs => inbox'[q] = inbox[q]
          /\ \A q \in W!Reqs : q \in qs => inbox'[q] = Append(inbox[q], type)
      BY Zenon, <1>5, <1>6, PutType
    <2>2. \A q \in SendReqs : q \in qs => inbox[q] = <<>>
      BY Zenon, <1>1, <1>5, <1>6 DEF TableInv
    <2>3. \A q \in SendReqs : q \in qs => inbox'[q] = <<type>>
      BY SMTT(30), <1>5, <2>1, <2>2
    <2>4. TableInv'
      <3> SUFFICES ASSUME NEW q \in SendReqs
                   PROVE
            /\ phase[q] = "idle" => (q \notin req_db' /\ inbox'[q] = <<>>)
            /\ phase[q] # "done" => outcome[q] = "none"
            /\ (running' /\ phase[q] \in Entered) =>
                  (q \in req_db' \/ inbox'[q] # <<>>)
            /\ (running' /\ q \in req_db') =>
                  /\ inbox'[q] = <<>>
                  /\ outcome[q] \notin {"response", "peer-lost"}
        BY Zenon, <1>3 DEF TableInv
      <3>1. CASE q \in qs
        <4>1. inbox'[q] = <<type>> /\ <<type>> # <<>>
          BY Zenon, <3>1, <2>3
        <4>2. q \in req_db /\ ~(running' /\ q \in req_db')
          BY Zenon, <3>1, <1>6
        <4>3. phase[q] # "idle" /\ (phase[q] # "done" => outcome[q] = "none")
          BY ZenonT(30), <4>2, <1>5 DEF TableInv
        <4> QED  BY Zenon, <4>1, <4>2, <4>3
      <3>2. CASE q \notin qs
        BY SMTT(30), <3>2, <1>1, <1>5, <1>6, <2>1 DEF TableInv
      <3> QED  BY Zenon, <3>1, <3>2
    <2>5. W!OneCompletion'
      <3> SUFFICES ASSUME NEW q \in SendReqs
                   PROVE  /\ Len(inbox'[q]) <= 1
                          /\ outcome[q] \in {"response", "peer-lost"}
                             => inbox'[q] = <<>>
        BY Zenon, <1>3 DEF W!OneCompletion
      <3>1. CASE q \in qs
        <4>1. inbox'[q] = <<type>> /\ Len(<<type>>) = 1
          BY Zenon, <3>1, <2>3
        <4>2. outcome[q] \notin {"response", "peer-lost"}
          BY Zenon, <3>1, <1>1, <1>5, <1>6 DEF TableInv
        <4> QED  BY SMTT(30), <4>1, <4>2
      <3>2. CASE q \notin qs
        BY Zenon, <3>2, <1>5, <2>1 DEF W!OneCompletion
      <3> QED  BY Zenon, <3>1, <3>2
    <2>6. LossAhead'
      <3> SUFFICES ASSUME NEW q \in SendReqs, running', q \in req_db',
                          phase[q] \in InFlight,
                          \A h \in Targets[q] : link[h] = "lost"
                   PROVE  \E h \in Targets[q] : W!LossQueued(h)'
        BY Zenon, <1>3 DEF LossAhead
      <3>1. PICK h \in Targets[q] : W!LossQueued(h)
        BY Zenon, <1>1, <1>5, <1>6 DEF LossAhead
      <3> QED  BY Zenon, <3>1, <1>4, <1>6
    <2> QED  BY Zenon, <2>4, <2>5, <2>6
  <1>7. CASE we.type = "RESPONSE" /\ W!HandleResponse(we.arg)
    <2>1. Branch({we.arg} \cap req_db, "RESPONSE")
      BY SMTT(30), <1>7 DEF W!HandleResponse, W!Completions, W!Event
    <2> QED  BY Zenon, <2>1, <1>6
  <1>8. CASE we.type \in {"CONN_OK", "CONN_FAIL"}
             /\ W!HandleConnComplete(we.arg, we.type)
    <2>1. we.arg \notin SendReqs
      BY Zenon, <1>2, <1>8, RequestsAssumption DEF W!WorkerEvents
    <2>2. Branch({we.arg} \cap req_db, we.type)
      BY SMTT(30), <1>8, <2>1 DEF W!HandleConnComplete, W!Completions, W!Event
    <2> QED  BY Zenon, <2>2, <1>6
  <1>9. CASE we.type = "PEER_LOST" /\ W!HandlePeerLost(we.arg)
    <2>1. Branch({q \in req_db : W!TargetsPeer(q, we.arg)}, "PEER_LOST")
      BY SMTT(30), <1>9 DEF W!HandlePeerLost, W!TargetsPeer, W!Completions, W!Event
    <2> QED  BY Zenon, <2>1, <1>6
  <1>10. CASE we.type = "SHUTDOWN" /\ W!HandleShutdown
    <2>1. Branch(req_db, "SHUTDOWN")
      BY Zenon, <1>10 DEF W!HandleShutdown, W!Completions
    <2> QED  BY Zenon, <2>1, <1>6
  <1> QED  BY Zenon, <1>7, <1>8, <1>9, <1>10 DEF W!Handle

\* The inductive invariant is preserved by every step.
LEMMA NextInv == RequestInv /\ [W!Next]_(W!vars) => RequestInv'
  <1> SUFFICES ASSUME RequestInv, W!TypeOK', [W!Next]_(W!vars)
               PROVE  TableInv' /\ W!OneCompletion' /\ LossAhead'
    BY Zenon, TypeStep DEF RequestInv
  <1>0. W!TypeOK /\ TableInv /\ W!OneCompletion /\ LossAhead
    BY Zenon DEF RequestInv
  <1>1. ASSUME NEW q \in W!Reqs, W!AddWorkRequest(q)
        PROVE  TableInv' /\ W!OneCompletion' /\ LossAhead'
    <2>1. phase[q] = "idle" /\ phase' = [phase EXCEPT ![q] = "added"]
          /\ req_db' = req_db \cup {q}
          /\ UNCHANGED <<outcome, inbox, workq, running, link>>
          /\ SendReqs \subseteq W!Reqs
          /\ phase \in [W!Reqs -> {"idle", "added", "sending", "done"} \cup W!Pending]
      BY Zenon, <1>1 DEF W!AddWorkRequest, RequestInv, W!TypeOK, W!farVars, W!Reqs
    <2>2. TableInv'
      BY Zenon, <1>0, <2>1 DEF TableInv, Entered, W!Pending
    <2>3. W!OneCompletion'
      BY Zenon, <1>0, <2>1 DEF W!OneCompletion
    <2>4. LossAhead'
      BY Zenon, <1>0, <2>1 DEF LossAhead, W!LossQueued, InFlight, W!Pending
    <2> QED  BY Zenon, <2>2, <2>3, <2>4
  <1>2. ASSUME NEW q \in W!Reqs, W!SendFinds(q)
        PROVE  TableInv' /\ W!OneCompletion' /\ LossAhead'
    BY ZenonT(30), <1>2, CallerMoves DEF W!SendFinds, W!farVars, InFlight, Entered,
       W!Pending
  <1>3. ASSUME NEW q \in W!Reqs, W!SendOk(q) \/ W!ConnectStarted(q)
        PROVE  TableInv' /\ W!OneCompletion' /\ LossAhead'
    <2>1. q \in SendReqs => phase[q] \in InFlight
      BY Zenon, <1>3, RequestsAssumption DEF W!SendOk, W!ConnectStarted, InFlight
    <2>2. phase[q] \in Entered /\ "waiting" \in InFlight
      BY Zenon, <1>3 DEF W!SendOk, W!ConnectStarted, InFlight, Entered, W!Pending
    <2> QED  BY Zenon, <1>3, <2>1, <2>2, CallerMoves DEF W!SendOk, W!ConnectStarted
  <1>4. ASSUME NEW q \in W!Reqs, W!WaitEmpty(q)
        PROVE  TableInv' /\ W!OneCompletion' /\ LossAhead'
    BY ZenonT(30), <1>4, CallerMoves DEF W!WaitEmpty, W!farVars, InFlight, Entered,
       W!Pending
  <1>5. ASSUME NEW q \in W!Reqs, W!WaitTop(q)
        PROVE  TableInv' /\ W!OneCompletion' /\ LossAhead'
    <2>1. phase[q] \in Entered /\ phase[q] \in InFlight
          /\ "getting" \in InFlight /\ UNCHANGED <<W!workerVars, link>>
      BY Zenon, <1>5 DEF W!WaitTop, InFlight, Entered, W!Pending, W!farVars
    <2>2. CASE W!Finish(q, "timeout") \/ W!Finish(q, "shutdown")
      BY Zenon, <2>1, <2>2, CallerEnds DEF W!Outcomes, W!workerVars
    <2>3. CASE phase' = [phase EXCEPT ![q] = "getting"] /\ UNCHANGED outcome
      BY ZenonT(30), <2>1, <2>3, CallerMoves
    <2> QED  BY Zenon, <1>5, <2>2, <2>3 DEF W!WaitTop
  <1>6. ASSUME NEW q \in W!Reqs, W!SendFails(q) \/ W!ConnectRefused(q)
        PROVE  TableInv' /\ W!OneCompletion' /\ LossAhead'
    BY Zenon, <1>6, CallerEnds DEF W!SendFails, W!ConnectRefused, W!Outcomes, Entered,
                            W!workerVars, W!farVars
  <1>7. ASSUME NEW q \in W!Reqs, W!WaitGet(q)
        PROVE  TableInv' /\ W!OneCompletion' /\ LossAhead'
    BY Zenon, <1>7, CallerGets
  <1>8. ASSUME NEW q \in W!Reqs, W!Deadline(q) \/ W!Execute(q) \/ W!NoAnswer(q)
        PROVE  TableInv' /\ W!OneCompletion' /\ LossAhead'
    <2>1. UNCHANGED <<phase, outcome, req_db, inbox, workq, running, link>>
      BY Zenon, <1>8 DEF W!Deadline, W!Execute, W!NoAnswer, W!callerVars, W!workerVars,
         W!farVars
    <2> QED  BY Zenon, <1>0, <2>1 DEF TableInv, W!OneCompletion, LossAhead, W!LossQueued
  <1>9. ASSUME NEW q \in W!Reqs, W!PutResponse(q)
        PROVE  TableInv' /\ W!OneCompletion' /\ LossAhead'
    <2>1. W!Event("RESPONSE", q) \in W!WorkerEvents
      BY Zenon, <1>9 DEF W!PutResponse, W!Event, W!WorkerEvents
    <2> QED  BY Zenon, <1>9, <2>1, QueueGrows DEF W!PutResponse, W!callerVars
  <1>10. ASSUME NEW q \in ConnReqs, NEW type \in {"CONN_OK", "CONN_FAIL"},
                W!PutConnectComplete(q, type)
         PROVE  TableInv' /\ W!OneCompletion' /\ LossAhead'
    <2>1. W!Event(type, q) \in W!WorkerEvents
      BY Zenon DEF W!Event, W!WorkerEvents
    <2> QED  BY Zenon, <1>10, <2>1, QueueGrows DEF W!PutConnectComplete, W!callerVars
  <1>11. ASSUME NEW h \in Conns, W!PutPeerLost(h)
         PROVE  TableInv' /\ W!OneCompletion' /\ LossAhead'
    <2>1. W!Event("PEER_LOST", h) \in W!WorkerEvents
      BY Zenon DEF W!Event, W!WorkerEvents
    <2>2. \A g \in Conns : link'[g] # link[g] => g = h
      BY Zenon, <1>0, <1>11 DEF W!PutPeerLost, W!TypeOK
    <2> QED  BY Zenon, <1>11, <2>1, <2>2, QueueGrows DEF W!PutPeerLost, W!callerVars
  <1>12. CASE W!Handle
    BY Zenon, <1>12, WorkerStep
  <1>13. CASE W!Shutdown
    <2>1. W!Event("SHUTDOWN", W!NoReq) \in W!WorkerEvents
      BY Zenon DEF W!Event, W!WorkerEvents
    <2> QED  BY Zenon, <1>13, <2>1, QueueGrows DEF W!Shutdown, W!callerVars, W!farVars
  <1>14. CASE UNCHANGED W!vars
    BY Zenon, <1>0, <1>14 DEF TableInv, W!OneCompletion, LossAhead, W!LossQueued, W!vars,
                       W!callerVars, W!workerVars, W!farVars
  <1> QED  BY ZenonT(30), <1>1, <1>2, <1>3, <1>4, <1>5, <1>6, <1>7, <1>8, <1>9, <1>10,
              <1>11, <1>12, <1>13, <1>14 DEF W!Next, W!Caller

\* The invariant holds in every reachable state.
LEMMA RequestInvariant == W!Spec => []RequestInv
  BY InitInv, NextInv, PTL DEF W!Spec

\* The worker thread completes a blocking send at most once.
THEOREM AtMostOneCompletion == W!Spec => []W!OneCompletion
  BY RequestInvariant, PTL DEF RequestInv

\* A thread waiting on connections that are all lost is going to be woken.
THEOREM LossesReleaseWaiters == W!Spec => []LossReleasesWaiter
  <1>1. RequestInv => LossReleasesWaiter
    BY Zenon DEF RequestInv, TableInv, LossAhead, LossReleasesWaiter,
       W!LossReleasesWaiter, Entered, InFlight
  <1> QED  BY <1>1, RequestInvariant, PTL

-----------------------------------------------------------------------------
(* Requests implements RpcContract.  The refinement rests on where         *)
(* responses come from: an event RESPONSE in the worker's queue or a       *)
(* caller's queue belongs to a call the far end executed.                  *)


ResponseQueued(q) == \E i \in 1..Len(workq) : workq[i] = W!Event("RESPONSE", q)
ResponseDelivered(q) == \E i \in 1..Len(inbox[q]) : inbox[q][i] = "RESPONSE"

\* The far end executes a call at most once, after it was sent, and a response
\* on its way to the caller belongs to an executed call.
FarInv ==
    \A q \in SendReqs :
        /\ phase[q] \in {"idle", "added", "sending"} => call[q] = "none"
        /\ call[q] \in {"none", "sent"} => executed[q] = 0
        /\ call[q] \in {"executed", "answered"} => executed[q] = 1
        /\ ResponseQueued(q) => executed[q] = 1
        /\ ResponseDelivered(q) => executed[q] = 1

\* Once executed, always executed: responses that were justified stay so.
LEMMA FarKept ==
    ASSUME FarInv, UNCHANGED <<call, executed>>,
           \A q \in SendReqs : phase'[q] \in {"idle", "added", "sending"}
                                => phase[q] \in {"idle", "added", "sending"},
           \A q \in SendReqs : ResponseQueued(q)' => ResponseQueued(q),
           \A q \in SendReqs : ResponseDelivered(q)' =>
                               ResponseDelivered(q) \/ ResponseQueued(q)
    PROVE  FarInv'
  BY Zenon DEF FarInv

\* Another event that is queued is not the response of a request.
LEMMA QueueAppends ==
    ASSUME W!TypeOK, NEW e \in W!WorkerEvents, workq' = Append(workq, e),
           NEW q, e # W!Event("RESPONSE", q), ResponseQueued(q)'
    PROVE  ResponseQueued(q)
  <1>1. workq \in Seq(W!WorkerEvents)
    BY Zenon DEF W!TypeOK
  <1>2. /\ Len(workq) \in Nat /\ Len(workq') = Len(workq) + 1
        /\ \A i \in 1..Len(workq) : workq'[i] = workq[i]
        /\ workq'[Len(workq) + 1] = e
    BY SMTT(30), <1>1, AppendContents
  <1>3. PICK i \in 1..Len(workq') : workq'[i] = W!Event("RESPONSE", q)
    BY Zenon DEF ResponseQueued
  <1>4. i \in 1..Len(workq)
    BY SMTT(30), <1>2, <1>3
  <1> QED  BY Zenon, <1>2, <1>3, <1>4 DEF ResponseQueued

\* What the worker thread puts on a caller's queue it took from its own.
LEMMA HandleDelivers ==
    ASSUME W!TypeOK, W!Handle, NEW q \in SendReqs
    PROVE  /\ ResponseQueued(q)' => ResponseQueued(q)
           /\ ResponseDelivered(q)' => ResponseDelivered(q) \/ ResponseQueued(q)
  <1> DEFINE we == Head(workq)
  <1>1. workq \in Seq(W!WorkerEvents) /\ workq # <<>> /\ q \in W!Reqs
        /\ inbox[q] \in Seq(W!Completions)
    BY Zenon DEF W!TypeOK, W!Handle, W!Reqs
  <1>2. /\ we \in W!WorkerEvents /\ we = workq[1]
        /\ Len(workq) \in Nat /\ Len(workq) >= 1
        /\ Len(workq') = Len(workq) - 1
        /\ \A i \in 1..Len(workq') : workq'[i] = workq[i + 1]
    BY Zenon, <1>1, TailContents DEF W!Handle
  <1>3. ResponseQueued(q)' => ResponseQueued(q)
    <2> SUFFICES ASSUME NEW i \in 1..Len(workq'),
                        workq'[i] = W!Event("RESPONSE", q)
                 PROVE  ResponseQueued(q)
      BY Zenon DEF ResponseQueued
    <2>1. i + 1 \in 1..Len(workq)
      BY SMTT(30), <1>2
    <2> QED  BY Zenon, <1>2, <2>1 DEF ResponseQueued
  <1>4. we = W!Event("RESPONSE", q) => ResponseQueued(q)
    <2>1. 1 \in 1..Len(workq)
      BY SMTT(30), <1>2
    <2> QED  BY Zenon, <1>2, <2>1 DEF ResponseQueued
  <1>5. ASSUME NEW qs, NEW type \in W!Completions, W!Put(qs, type),
               type = "RESPONSE" /\ q \in qs => we = W!Event("RESPONSE", q),
               ResponseDelivered(q)'
        PROVE  ResponseDelivered(q) \/ ResponseQueued(q)
    <2>1. /\ q \notin qs => inbox'[q] = inbox[q]
          /\ q \in qs => inbox'[q] = Append(inbox[q], type)
      BY ZenonT(30), <1>1, <1>5, PutType
    <2>2. CASE q \notin qs
      BY Zenon, <2>1, <2>2, <1>5 DEF ResponseDelivered
    <2>3. CASE q \in qs
      <3>1. /\ Len(inbox[q]) \in Nat /\ Len(inbox'[q]) = Len(inbox[q]) + 1
            /\ \A i \in 1..Len(inbox[q]) : inbox'[q][i] = inbox[q][i]
            /\ inbox'[q][Len(inbox[q]) + 1] = type
        BY SMTT(30), <1>1, <2>1, <2>3, AppendContents
      <3>2. PICK i \in 1..Len(inbox'[q]) : inbox'[q][i] = "RESPONSE"
        BY Zenon, <1>5 DEF ResponseDelivered
      <3>3. CASE i \in 1..Len(inbox[q])
        BY Zenon, <3>1, <3>2, <3>3 DEF ResponseDelivered
      <3>4. CASE i = Len(inbox[q]) + 1
        BY Zenon, <1>4, <1>5, <2>3, <3>1, <3>2, <3>4
      <3> QED  BY SMTT(30), <3>1, <3>2, <3>3, <3>4
    <2> QED  BY Zenon, <2>2, <2>3
  <1>6. CASE we.type = "RESPONSE" /\ W!HandleResponse(we.arg)
    <2>1. we = W!Event("RESPONSE", we.arg)
      BY Zenon, <1>2, <1>6 DEF W!WorkerEvents, W!Event
    <2> QED  BY Zenon, <1>3, <1>5, <1>6, <2>1 DEF W!HandleResponse, W!Completions
  <1>7. CASE we.type \in {"CONN_OK", "CONN_FAIL"}
             /\ W!HandleConnComplete(we.arg, we.type)
    BY Zenon, <1>3, <1>5, <1>7 DEF W!HandleConnComplete, W!Completions
  <1>8. CASE we.type = "PEER_LOST" /\ W!HandlePeerLost(we.arg)
    BY Zenon, <1>3, <1>5, <1>8 DEF W!HandlePeerLost, W!Completions
  <1>9. CASE we.type = "SHUTDOWN" /\ W!HandleShutdown
    BY Zenon, <1>3, <1>5, <1>9 DEF W!HandleShutdown, W!Completions
  <1> QED  BY Zenon, <1>6, <1>7, <1>8, <1>9 DEF W!Handle

\* Every step preserves what is known of the far side.
LEMMA FarStep == RequestInv /\ FarInv /\ [W!Next]_(W!vars) => FarInv'
  <1> SUFFICES ASSUME RequestInv, FarInv, [W!Next]_(W!vars) PROVE FarInv'
    BY Zenon
  <1>0. W!TypeOK /\ SendReqs \subseteq W!Reqs
        /\ phase \in [W!Reqs -> {"idle", "added", "sending", "done"} \cup W!Pending]
        /\ call \in [W!Reqs -> {"none", "sent", "executed", "answered", "silent"}]
        /\ executed \in [W!Reqs -> Nat]
    BY Zenon DEF RequestInv, W!TypeOK, W!Reqs
  \* Steps of a caller that send nothing.
  <1>1. ASSUME NEW q \in W!Reqs, NEW p, phase[q] \in {"idle", "added", "sending"}
                                 \/ p \notin {"idle", "added", "sending"},
               phase' = [phase EXCEPT ![q] = p],
               UNCHANGED <<inbox, workq, call, executed>>
        PROVE  FarInv'
    BY Zenon, <1>0, <1>1, FarKept DEF ResponseQueued, ResponseDelivered
  <1>2. ASSUME NEW q \in W!Reqs,
               W!AddWorkRequest(q) \/ W!SendFinds(q) \/ W!SendFails(q)
               \/ W!ConnectRefused(q) \/ W!WaitTop(q) \/ W!WaitEmpty(q)
        PROVE  FarInv'
    BY Zenon, <1>1, <1>2 DEF W!AddWorkRequest, W!SendFinds, W!SendFails, W!ConnectRefused,
                      W!WaitTop, W!WaitEmpty, W!Finish, W!workerVars, W!farVars
  <1>3. ASSUME NEW q \in W!Reqs, W!SendOk(q) \/ W!ConnectStarted(q) PROVE FarInv'
    <2>1. /\ phase' = [phase EXCEPT ![q] = "waiting"]
          /\ call' = [call EXCEPT ![q] = "sent"]
          /\ UNCHANGED <<inbox, workq, executed>>
          /\ phase[q] \in {"added", "sending"}
      BY Zenon, <1>3 DEF W!SendOk, W!ConnectStarted, W!workerVars
    <2> QED  BY Zenon, <1>0, <2>1 DEF FarInv, ResponseQueued, ResponseDelivered
  <1>4. ASSUME NEW q \in W!Reqs, W!WaitGet(q) PROVE FarInv'
    <2>1. /\ inbox[q] \in Seq(W!Completions) /\ inbox[q] # <<>>
          /\ inbox'[q] = Tail(inbox[q])
          /\ \A r \in W!Reqs \ {q} : inbox'[r] = inbox[r]
          /\ UNCHANGED <<workq, call, executed>>
          /\ phase' = [phase EXCEPT ![q] = "done"]
      BY Zenon, <1>0, <1>4 DEF W!WaitGet, W!Finish, W!TypeOK, W!farVars
    <2>2. Len(inbox[q]) \in Nat /\ Len(inbox'[q]) = Len(inbox[q]) - 1
          /\ \A i \in 1..Len(inbox'[q]) : inbox'[q][i] = inbox[q][i + 1]
      BY SMTT(30), <2>1, TailContents
    <2>3. ASSUME NEW r \in SendReqs, ResponseDelivered(r)'
          PROVE  ResponseDelivered(r)
      <3>1. CASE r = q
        <4>1. PICK i \in 1..Len(inbox'[q]) : inbox'[q][i] = "RESPONSE"
          BY Zenon, <2>3, <3>1 DEF ResponseDelivered
        <4>2. i + 1 \in 1..Len(inbox[q])
          BY SMTT(30), <2>2, <4>1
        <4> QED  BY Zenon, <2>2, <3>1, <4>1, <4>2 DEF ResponseDelivered
      <3>2. CASE r # q
        BY Zenon, <1>0, <2>1, <2>3, <3>2 DEF ResponseDelivered
      <3> QED  BY Zenon, <3>1, <3>2
    <2> QED  BY Zenon, <1>0, <2>1, <2>3, FarKept DEF ResponseQueued
  <1>5. ASSUME NEW q \in W!Reqs, W!Deadline(q) PROVE FarInv'
    BY Zenon, <1>5, FarKept DEF W!Deadline, W!workerVars, W!farVars, ResponseQueued,
                         ResponseDelivered
  <1>6. ASSUME NEW q \in W!Reqs, W!Execute(q) PROVE FarInv'
    <2>1. /\ UNCHANGED <<phase, inbox, workq>>
          /\ call[q] = "sent" /\ q \in SendReqs
          /\ call' = [call EXCEPT ![q] = "executed"]
          /\ executed' = [executed EXCEPT ![q] = executed[q] + 1]
      BY Zenon, <1>6 DEF W!Execute, W!callerVars, W!workerVars
    <2>2. executed'[q] = 1 /\ call'[q] = "executed"
      BY SMTT(30), <1>0, <2>1 DEF FarInv
    <2>3. \A r \in W!Reqs \ {q} : executed'[r] = executed[r] /\ call'[r] = call[r]
      BY Zenon, <1>0, <2>1
    <2>4. phase[q] \notin {"idle", "added", "sending"}
      BY Zenon, <2>1 DEF FarInv
    <2> QED  BY ZenonT(30), <1>0, <2>1, <2>2, <2>3, <2>4
             DEF FarInv, ResponseQueued, ResponseDelivered
  <1>7. ASSUME NEW q \in W!Reqs, W!NoAnswer(q) PROVE FarInv'
    <2>1. /\ UNCHANGED <<phase, inbox, workq, executed>>
          /\ call[q] \in {"sent", "executed"}
          /\ call' = [call EXCEPT ![q] = "silent"]
      BY Zenon, <1>7 DEF W!NoAnswer, W!callerVars, W!workerVars
    <2> QED  BY Zenon, <1>0, <2>1 DEF FarInv, ResponseQueued, ResponseDelivered
  <1>8. ASSUME NEW q \in W!Reqs, W!PutResponse(q) PROVE FarInv'
    <2>1. /\ q \in SendReqs /\ call[q] = "executed"
          /\ call' = [call EXCEPT ![q] = "answered"]
          /\ workq' = Append(workq, W!Event("RESPONSE", q))
          /\ UNCHANGED <<phase, inbox, executed>>
      BY Zenon, <1>8 DEF W!PutResponse, W!callerVars
    <2>2. W!Event("RESPONSE", q) \in W!WorkerEvents
      BY Zenon, <2>1 DEF W!Event, W!WorkerEvents
    <2>3. \A r \in SendReqs : W!Event("RESPONSE", q) = W!Event("RESPONSE", r) => r = q
      BY Zenon DEF W!Event
    <2>4. \A r \in SendReqs : r # q /\ ResponseQueued(r)' => ResponseQueued(r)
      BY Zenon, <1>0, <2>1, <2>2, <2>3, QueueAppends
    <2>5. \A r \in SendReqs : ResponseQueued(r)' => executed[r] = 1
      BY Zenon, <2>1, <2>4 DEF FarInv
    <2>6. \A r \in SendReqs : ResponseDelivered(r)' => executed[r] = 1
      BY Zenon, <2>1 DEF FarInv, ResponseDelivered
    <2> QED  BY Zenon, <1>0, <2>1, <2>5, <2>6 DEF FarInv
  \* Other events of the worker's queue.
  <1>9. ASSUME NEW e \in W!WorkerEvents, e.type # "RESPONSE",
               workq' = Append(workq, e), UNCHANGED <<phase, inbox, executed>>,
               \A q \in SendReqs : call'[q] = call[q]
        PROVE  FarInv'
    <2>1. \A r \in SendReqs : e # W!Event("RESPONSE", r)
      BY SMTT(30), <1>9 DEF W!Event
    <2>2. \A r \in SendReqs : ResponseQueued(r)' => ResponseQueued(r)
      BY Zenon, <1>0, <1>9, <2>1, QueueAppends
    <2> QED  BY Zenon, <1>9, <2>2 DEF FarInv, ResponseDelivered
  <1>10. ASSUME NEW q \in ConnReqs, NEW type \in {"CONN_OK", "CONN_FAIL"},
                W!PutConnectComplete(q, type)
         PROVE  FarInv'
    <2>1. W!Event(type, q) \in W!WorkerEvents /\ W!Event(type, q).type # "RESPONSE"
      BY Zenon DEF W!Event, W!WorkerEvents
    <2>2. \A r \in SendReqs : call'[r] = call[r]
      BY Zenon, <1>0, <1>10, RequestsAssumption DEF W!PutConnectComplete
    <2> QED  BY Zenon, <1>9, <1>10, <2>1, <2>2 DEF W!PutConnectComplete, W!callerVars
  <1>11. ASSUME NEW h \in Conns, W!PutPeerLost(h) PROVE FarInv'
    <2>1. W!Event("PEER_LOST", h) \in W!WorkerEvents
          /\ W!Event("PEER_LOST", h).type # "RESPONSE"
      BY Zenon DEF W!Event, W!WorkerEvents
    <2> QED  BY Zenon, <1>9, <1>11, <2>1 DEF W!PutPeerLost, W!callerVars
  <1>12. CASE W!Handle
    BY Zenon, <1>0, <1>12, HandleDelivers, FarKept DEF W!Handle, W!callerVars, W!farVars
  <1>13. CASE W!Shutdown
    <2>1. W!Event("SHUTDOWN", W!NoReq) \in W!WorkerEvents
          /\ W!Event("SHUTDOWN", W!NoReq).type # "RESPONSE"
      BY Zenon DEF W!Event, W!WorkerEvents
    <2> QED  BY Zenon, <1>9, <1>13, <2>1 DEF W!Shutdown, W!callerVars, W!farVars
  <1>14. CASE UNCHANGED W!vars
    BY Zenon, <1>14, FarKept DEF W!vars, W!callerVars, W!workerVars, W!farVars,
                          ResponseQueued, ResponseDelivered
  <1> QED  BY ZenonT(30), <1>2, <1>3, <1>4, <1>5, <1>6, <1>7, <1>8, <1>10,
              <1>11, <1>12, <1>13, <1>14 DEF W!Next, W!Caller

\* A step maps to an execution, to the end of one call, or to nothing.
LEMMA ContractStep ==
    RequestInv /\ FarInv /\ [W!Next]_(W!vars) =>
        [W!Contract!Next]_<<[c \in SendReqs |-> outcome[c]], executed>>
  <1> DEFINE Same == /\ \A c \in SendReqs : outcome'[c] = outcome[c]
                     /\ executed' = executed
             Goal == [W!Contract!Next]_<<[c \in SendReqs |-> outcome[c]], executed>>
  <1> SUFFICES ASSUME RequestInv, FarInv, [W!Next]_(W!vars) PROVE Goal
    BY Zenon
  <1>0. /\ SendReqs \subseteq W!Reqs /\ outcome \in [W!Reqs -> W!Outcomes]
        /\ executed \in [W!Reqs -> Nat] /\ inbox \in [W!Reqs -> Seq(W!Completions)]
    BY Zenon DEF RequestInv, W!TypeOK, W!Reqs
  <1>1. Same => Goal
    BY Zenon DEF W!Contract!Next
  <1>2. ASSUME NEW q \in W!Reqs, NEW how \in W!Outcomes \ {"none"}, W!Finish(q, how),
               phase[q] # "done", executed' = executed,
               q \in SendReqs /\ how = "response" => executed[q] = 1
        PROVE  Goal
    <2>1. outcome' = [outcome EXCEPT ![q] = how]
      BY Zenon, <1>2 DEF W!Finish
    <2>2. CASE q \notin SendReqs
      BY Zenon, <1>0, <1>1, <1>2, <2>1, <2>2
    <2>3. CASE q \in SendReqs
      <3>1. outcome[q] = "none"
        BY Zenon, <1>2, <2>3 DEF RequestInv, TableInv
      <3>2. W!Contract!End(q)
        BY Zenon, <1>0, <1>2, <2>1, <2>3, <3>1 DEF W!Contract!End
      <3> QED  BY Zenon, <2>3, <3>2 DEF W!Contract!Next
    <2> QED  BY Zenon, <2>2, <2>3
  <1>3. ASSUME NEW q \in W!Reqs, W!SendFails(q) \/ W!ConnectRefused(q) PROVE Goal
    BY Zenon, <1>2, <1>3 DEF W!SendFails, W!ConnectRefused, W!Outcomes, W!farVars
  <1>4. ASSUME NEW q \in W!Reqs, W!WaitTop(q) PROVE Goal
    <2>1. phase[q] # "done" /\ executed' = executed
      BY Zenon, <1>4 DEF W!WaitTop, W!farVars
    <2>2. CASE W!Finish(q, "timeout") \/ W!Finish(q, "shutdown")
      BY Zenon, <1>2, <2>1, <2>2 DEF W!Outcomes
    <2>3. CASE UNCHANGED outcome
      BY Zenon, <1>1, <2>1, <2>3
    <2> QED  BY Zenon, <1>4, <2>2, <2>3 DEF W!WaitTop
  <1>5. ASSUME NEW q \in W!Reqs, W!WaitGet(q) PROVE Goal
    <2> DEFINE how == W!ResultOf(Head(inbox[q]))
    <2>1. /\ inbox[q] \in Seq(W!Completions) /\ inbox[q] # <<>>
          /\ W!Finish(q, how) /\ phase[q] # "done" /\ executed' = executed
      BY Zenon, <1>0, <1>5 DEF W!WaitGet, W!farVars
    <2>2. /\ Head(inbox[q]) \in W!Completions /\ Head(inbox[q]) = inbox[q][1]
          /\ 1 \in 1..Len(inbox[q])
      BY SMTT(30), <2>1, TailContents
    <2>3. how \in W!Outcomes \ {"none"}
      BY Zenon, <2>2 DEF W!ResultOf, W!Completions, W!Outcomes
    <2>4. how = "response" => Head(inbox[q]) = "RESPONSE"
      BY Zenon, <2>2 DEF W!ResultOf, W!Completions
    <2>5. q \in SendReqs /\ how = "response" => executed[q] = 1
      BY Zenon, <2>2, <2>4 DEF FarInv, ResponseDelivered
    <2> QED  BY Zenon, <1>2, <2>1, <2>3, <2>5
  <1>6. ASSUME NEW q \in W!Reqs, W!Execute(q) PROVE Goal
    <2>1. /\ q \in SendReqs /\ executed[q] = 0 /\ UNCHANGED outcome
          /\ executed' = [executed EXCEPT ![q] = executed[q] + 1]
      BY Zenon, <1>6 DEF W!Execute, FarInv, W!callerVars
    <2>2. W!Contract!Execute(q)
      BY SMTT(30), <2>1 DEF W!Contract!Execute
    <2> QED  BY Zenon, <2>1, <2>2 DEF W!Contract!Next
  <1>7. ASSUME NEW q \in W!Reqs,
               W!AddWorkRequest(q) \/ W!SendFinds(q) \/ W!SendOk(q)
               \/ W!ConnectStarted(q) \/ W!WaitEmpty(q) \/ W!Deadline(q)
               \/ W!PutResponse(q) \/ W!NoAnswer(q)
        PROVE  Goal
    BY Zenon, <1>1, <1>7 DEF W!AddWorkRequest, W!SendFinds, W!SendOk, W!ConnectStarted,
       W!WaitEmpty, W!Deadline, W!PutResponse, W!NoAnswer, W!callerVars, W!farVars
  <1>8. CASE \/ \E q \in ConnReqs, type \in {"CONN_OK", "CONN_FAIL"} :
                    W!PutConnectComplete(q, type)
             \/ \E h \in Conns : W!PutPeerLost(h)
             \/ W!Handle \/ W!Shutdown \/ UNCHANGED W!vars
    BY Zenon, <1>1, <1>8 DEF W!PutConnectComplete, W!PutPeerLost, W!Handle, W!Shutdown,
       W!vars,
       W!callerVars, W!farVars
  <1> QED  BY Zenon, <1>3, <1>4, <1>5, <1>6, <1>7, <1>8 DEF W!Next, W!Caller

\* send_req implements RpcContract: a call is executed at most once, ends at
\* most once, and ends with a response only if it was executed.
THEOREM SendReqImplementsContract == W!Spec => ImplementsContract
  <1>1. W!Init => FarInv /\ W!Contract!Init
    BY SMTT(30) DEF W!Init, FarInv, W!Contract!Init, W!Reqs, ResponseQueued,
       ResponseDelivered
  <1> QED  BY <1>1, RequestInvariant, FarStep, ContractStep, PTL
           DEF W!Spec, ImplementsContract, W!ImplementsContract, W!Contract!Spec
=============================================================================
