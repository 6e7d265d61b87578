------------------------------ MODULE AgentBlk ------------------------------
(***************************************************************************)
(* The life of one agent block of libdefw_agent.c: its reference count,    *)
(* its state bits and sockets, the events reported for it, and the threads *)
(* that use it, from its first control message on (Handshake has the rest).*)
(*                                                                         *)
(* The listener walks the table without agent_array_mutex, takes a         *)
(* reference under the block's state_mutex, reads what the peer sent and   *)
(* releases the block, as dead when reading failed.  Python threads in     *)
(* defw_send find the block under agent_array_mutex, send and release it.  *)
(* The connect thread inserts the block it made into the table and then    *)
(* goes on using it; the one reference it took is the table's from then on.*)
(*                                                                         *)
(* acquire_agent_blk and the release change ref_count under different      *)
(* mutexes: one of the two changes may be lost, after which torn is set.   *)
(*                                                                         *)
(* A thread that would touch a freed block takes no step: what follows is  *)
(* undefined.  The listener can, between finding a block and acquiring it, *)
(* and so can the connect thread; CountsHolders is about the others.       *)
(***************************************************************************)
EXTENDS Naturals, Sequences, FiniteSets

CONSTANT Senders        \* threads in defw_send

ASSUME AgentBlkAssumption == /\ {"listener", "connector"} \cap Senders = {}
                             /\ IsFiniteSet(Senders)

Threads == {"listener", "connector"} \cup Senders
Bits == {"ALIVE", "CTRL", "RPC", "DEAD", "UUID", "READY", "LOST",
         "REMOVED"}         \* DEFW_AGENT_*; UUID: remote_uuid is known

VARIABLES
    outbound,   \* this process made the connection
    ofi,        \* the OFI transport is active: a send can fail as
                \* EN_DEFW_RC_SOCKET_FAIL, over TCP none does
    live,       \* the block has not been freed
    linked,     \* it is in agent_connection_table
    ref,        \* ref_count
    bits,       \* state
    sockets,    \* which of iFileDesc ("CTRL") and iRpcFd ("RPC") are open
    events,     \* what defw_notify_peer_event was called with
    status,     \* connect_req_pending: "none", "pending", then "complete"
    peerUp,     \* the far end is there
    pc,         \* where each thread is
    amutex,     \* the thread that holds agent_array_mutex, or "free"
    count,      \* ref_count as the holder of the mutex read it
    torn        \* a change of ref_count was lost

blkVars == <<live, linked, ref, bits, sockets, events, status>>
kind == <<outbound, ofi>>
vars == <<kind, blkVars, peerUp, pc, amutex, count, torn>>

Holding == {"process", "ready?", "sending", "release", "release-dead",
            "releasing", "releasing-dead"}            \* owns a reference
Using == Holding \cup {"have", "report", "notify", "complete"}

Init ==
    /\ outbound \in BOOLEAN /\ ofi \in BOOLEAN
    /\ live = TRUE /\ ref = 1 /\ events = <<>> /\ peerUp = TRUE
    /\ linked = ~outbound
    /\ bits = IF outbound THEN {"ALIVE", "CTRL", "RPC"}
              ELSE {"ALIVE", "CTRL", "UUID"}
    /\ sockets = IF outbound THEN {"CTRL", "RPC"} ELSE {"CTRL"}
    /\ status = IF outbound THEN "pending" ELSE "none"
    /\ pc = [t \in Threads |->
                IF t = "listener" THEN "loop"
                ELSE IF t = "connector" /\ outbound THEN "insert" ELSE "idle"]
    /\ amutex = "free" /\ count = 0 /\ torn = FALSE

-----------------------------------------------------------------------------
(* Reports. *)

ReadyToReport == {"UUID", "CTRL", "RPC"} \subseteq bits /\ "READY" \notin bits

\* defw_agent_report_peer_ready: the state bit, the event, the status of the
\* connect request.
ReportReady ==
    IF ReadyToReport
    THEN /\ bits' = bits \cup {"READY"}
         /\ events' = Append(events, "READY")
         /\ status' = IF status = "pending" THEN "complete" ELSE status
    ELSE UNCHANGED <<bits, events, status>>

\* The reports of report_peer_lost and report_peer_removed that come out of a
\* release, in this order: only of a block that was ready, each once.
Report(seq, types, e) ==
    IF "READY" \in bits /\ e \in types \ bits THEN Append(seq, e) ELSE seq
Reports(types) == Report(Report(events, types, "LOST"), types, "REMOVED")
Marked(types) == bits \cup (IF "READY" \in bits THEN types ELSE {})

-----------------------------------------------------------------------------
(* defw_release_agent_blk, in two steps: the holder of agent_array_mutex     *)
(* reads ref_count, which acquire_agent_blk changes without that mutex.      *)

ReleaseStart(t) ==
    /\ pc[t] \in {"release", "release-dead"} /\ amutex = "free" /\ live
    /\ amutex' = t /\ count' = ref
    /\ pc' = [pc EXCEPT ![t] = IF @ = "release" THEN "releasing"
                               ELSE "releasing-dead"]
    /\ UNCHANGED <<kind, torn, blkVars, peerUp>>

Free(types) ==
    /\ events' = Reports(types) /\ bits' = Marked(types)
    /\ live' = FALSE /\ linked' = FALSE /\ ref' = 0

\* Mutant: a dead block is freed at once.
MutReleaseFrees(n, dead) ==
    IF dead \/ n = 0 THEN Free({"LOST", "REMOVED"}) /\ sockets' = {}
    ELSE ref' = n /\ UNCHANGED <<live, linked, bits, events, sockets>>

\* Mutant: the loss is reported when the last user is done.
MutReleaseReportsLate(n, dead) ==
    IF "DEAD" \in bits \/ n = 0
    THEN IF n = 0 THEN /\ events' = Report(Reports({"REMOVED"}), {"LOST"}, "LOST")
                       /\ bits' = Marked({"LOST", "REMOVED"}) /\ sockets' = {}
                       /\ live' = FALSE /\ linked' = FALSE /\ ref' = 0
         ELSE ref' = n /\ UNCHANGED <<live, linked, bits, events, sockets>>
    ELSE IF dead THEN /\ ref' = n - 1 /\ linked' = FALSE /\ sockets' = {}
                      /\ bits' = bits \cup {"DEAD"}
                      /\ live' = (n > 1) /\ UNCHANGED events
    ELSE ref' = n /\ UNCHANGED <<live, linked, bits, events, sockets>>

\* Mutant: the table's reference is not dropped.
MutReleaseKeeps(n, dead) ==
    IF "DEAD" \in bits
    THEN IF n = 0 THEN Free({"REMOVED"}) /\ UNCHANGED sockets
         ELSE ref' = n /\ UNCHANGED <<live, linked, bits, events, sockets>>
    ELSE IF dead
    THEN /\ bits' = (Marked({"LOST"}) \ {"ALIVE", "RPC", "CTRL"})
                    \cup {"DEAD"}
         /\ events' = Reports({"LOST"})
         /\ ref' = n /\ linked' = FALSE /\ sockets' = {} /\ UNCHANGED live
    ELSE ref' = n /\ UNCHANGED <<live, linked, bits, events, sockets>>

\* defw_release_agent_blk_unlocked once ref_count is n: the last reference of
\* a dead block; the last reference; a dead connection that still has users.
ReleaseUnlocked(n, dead) ==
    IF "DEAD" \in bits
    THEN IF n = 0 THEN Free({"REMOVED"}) /\ UNCHANGED sockets
         ELSE ref' = n /\ UNCHANGED <<live, linked, bits, events, sockets>>
    ELSE IF n = 0
    THEN Free(IF dead THEN {"LOST", "REMOVED"} ELSE {"REMOVED"})
         /\ sockets' = {}
    ELSE IF dead
    THEN IF n = 1
         THEN Free({"LOST", "REMOVED"}) /\ sockets' = {}
         ELSE /\ bits' = (Marked({"LOST"}) \ {"ALIVE", "RPC", "CTRL"})
                         \cup {"DEAD"}
              /\ events' = Reports({"LOST"})
              /\ ref' = n - 1 /\ linked' = FALSE /\ sockets' = {}
              /\ UNCHANGED live
    ELSE ref' = n /\ UNCHANGED <<live, linked, bits, events, sockets>>

\* If ref_count changed since it was read, either change may be lost (this is
\* bounded to once).
ReleaseEnd(t) ==
    /\ pc[t] \in {"releasing", "releasing-dead"} /\ live
    /\ \E old \in IF ref = count \/ torn THEN {ref} ELSE {ref, count, ref + 1} :
          /\ old > 0
          /\ ReleaseUnlocked(old - 1, pc[t] = "releasing-dead")
          /\ torn' = (torn \/ old # ref)
    /\ amutex' = "free" /\ count' = 0
    /\ pc' = [pc EXCEPT ![t] = IF t = "listener" THEN "loop" ELSE "idle"]
    /\ UNCHANGED <<kind, status, peerUp>>

-----------------------------------------------------------------------------
(* The listener thread. *)

\* The iterator reads the pointer from the list.
ListenerFinds ==
    /\ pc["listener"] = "loop" /\ linked
    /\ pc' = [pc EXCEPT !["listener"] = "have"]
    /\ UNCHANGED <<kind, torn, blkVars, peerUp, amutex, count>>

\* acquire_agent_blk
ListenerAcquires ==
    /\ pc["listener"] = "have" /\ live
    /\ ref' = ref + 1
    /\ pc' = [pc EXCEPT !["listener"] = "process"]
    /\ UNCHANGED <<kind, torn, live, linked, bits, sockets, events, status, peerUp,
                   amutex, count>>

\* A message of the peer: its heartbeat, from which the runtime id is learned,
\* or the session information of the RPC channel of an inbound connection.
ListenerReads ==
    /\ pc["listener"] = "process" /\ live /\ peerUp
    /\ \/ bits' = bits \cup {"UUID"} /\ UNCHANGED sockets
       \/ /\ ~outbound /\ "RPC" \notin bits
          /\ bits' = bits \cup {"RPC"} /\ sockets' = sockets \cup {"RPC"}
    /\ pc' = [pc EXCEPT !["listener"] = "ready?"]
    /\ UNCHANGED <<kind, torn, live, linked, ref, events, status, peerUp, amutex, count>>

\* defw_agent_report_peer_ready on this thread.
ListenerReports ==
    /\ pc["listener"] = "ready?" /\ live
    /\ ReportReady
    /\ pc' = [pc EXCEPT !["listener"] = "release"]
    /\ UNCHANGED <<kind, torn, live, linked, ref, sockets, peerUp, amutex, count>>

\* Nothing to read, or end of file.
ListenerIdle ==
    /\ pc["listener"] = "process" /\ live
    /\ pc' = [pc EXCEPT !["listener"] = IF peerUp THEN "release"
                                        ELSE "release-dead"]
    /\ UNCHANGED <<kind, torn, blkVars, peerUp, amutex, count>>

PeerCloses == /\ peerUp /\ peerUp' = FALSE
              /\ UNCHANGED <<kind, torn, blkVars, pc, amutex, count>>

-----------------------------------------------------------------------------
(* defw_send. *)

\* defw_find_agent_by_uuid_global; the mutex is held throughout.
SenderFinds(t) ==
    /\ pc[t] = "idle" /\ amutex = "free" /\ linked /\ "UUID" \in bits
    /\ ref' = ref + 1
    /\ pc' = [pc EXCEPT ![t] = "sending"]
    /\ UNCHANGED <<kind, torn, live, linked, bits, sockets, events, status, peerUp,
                   amutex, count>>

\* The RPC channel is opened again when it is not connected (the block may be
\* dead by now), and the message goes out or fails.
SenderSends(t) ==
    /\ pc[t] = "sending" /\ live
    /\ \/ "RPC" \in bits /\ UNCHANGED <<bits, sockets>>
       \/ /\ "RPC" \notin bits /\ peerUp
          /\ bits' = bits \cup {"RPC"} /\ sockets' = sockets \cup {"RPC"}
       \/ "RPC" \notin bits /\ ~peerUp /\ UNCHANGED <<bits, sockets>>
    /\ \/ pc' = [pc EXCEPT ![t] = "release"]
       \/ ofi /\ pc' = [pc EXCEPT ![t] = "release-dead"]
    /\ UNCHANGED <<kind, torn, live, linked, ref, events, status, peerUp, amutex, count>>

-----------------------------------------------------------------------------
(* The connect thread, once both channels are up. *)

ConnectorInserts ==
    /\ pc["connector"] = "insert" /\ amutex = "free"
    /\ linked' = TRUE
    /\ pc' = [pc EXCEPT !["connector"] = "report"]
    /\ UNCHANGED <<kind, torn, live, ref, bits, sockets, events, status, peerUp, amutex,
                   count>>

\* defw_agent_report_peer_ready on this thread: the state bit, ...
ConnectorMarks ==
    /\ pc["connector"] = "report" /\ live
    /\ IF ReadyToReport
       THEN /\ bits' = bits \cup {"READY"}
            /\ pc' = [pc EXCEPT !["connector"] = "notify"]
       ELSE pc' = [pc EXCEPT !["connector"] = "done"] /\ UNCHANGED bits
    /\ UNCHANGED <<kind, torn, live, linked, ref, sockets, events, status, peerUp,
                   amutex, count>>

\* ... the event, ...
ConnectorNotifies ==
    /\ pc["connector"] = "notify" /\ live
    /\ events' = Append(events, "READY")
    /\ pc' = [pc EXCEPT !["connector"] = "complete"]
    /\ UNCHANGED <<kind, torn, live, linked, ref, bits, sockets, status, peerUp, amutex,
                   count>>

\* ... the status of the connect request.
ConnectorCompletes ==
    /\ pc["connector"] = "complete" /\ live
    /\ status' = "complete"
    /\ pc' = [pc EXCEPT !["connector"] = "done"]
    /\ UNCHANGED <<kind, torn, live, linked, ref, bits, sockets, events, peerUp, amutex,
                   count>>

Connector == ConnectorInserts \/ ConnectorMarks \/ ConnectorNotifies
             \/ ConnectorCompletes
Release(t) == ReleaseStart(t) \/ ReleaseEnd(t)
Listener == ListenerFinds \/ ListenerAcquires \/ ListenerReads
            \/ ListenerReports \/ ListenerIdle \/ Release("listener")
Sender(t) == SenderFinds(t) \/ SenderSends(t) \/ Release(t)

Next == \/ Listener \/ Connector \/ PeerCloses
        \/ \E t \in Senders : Sender(t)

Spec == Init /\ [][Next]_vars

\* The threads run, and one that waits for agent_array_mutex gets it.
FairSpec == /\ Spec /\ WF_vars(Listener) /\ WF_vars(Connector)
            /\ \A t \in Threads : SF_vars(Release(t))
            /\ \A t \in Senders : WF_vars(SenderSends(t))

-----------------------------------------------------------------------------
(* Properties. *)

\* Shapes of the block and of the threads that use it.
TypeOK ==
    /\ live \in BOOLEAN /\ linked \in BOOLEAN /\ ref \in Nat
    /\ bits \subseteq Bits /\ sockets \subseteq {"CTRL", "RPC"}
    /\ events \in Seq({"READY", "LOST", "REMOVED"})
    /\ status \in {"none", "pending", "complete"} /\ peerUp \in BOOLEAN
    /\ pc \in [Threads -> Using \cup {"loop", "idle", "insert", "done"}]
    /\ amutex \in Threads \cup {"free"} /\ count \in Nat /\ torn \in BOOLEAN
    /\ outbound \in BOOLEAN /\ ofi \in BOOLEAN

\* ref_count is one for the table, until the connection is dead, and one for
\* every thread between its acquire and its release, so the asserts of the
\* release hold and the block is freed with its last user: "Outstanding users
\* retain the unlinked block until they release it"
\* (defw_release_agent_blk_unlocked; "dead peer consumed an outstanding user
\* reference": tests/transport/test_phase1_transport_contracts.c).  And with the
\* TCP transport, where only the listener finds a connection dead, the block the
\* listener has found in the table but not acquired yet is not freed.  Both are
\* so until a change of the count is lost.
CountsHolders ==
    LET holders == {t \in Threads : pc[t] \in Holding}
    IN  ~torn => /\ IF live
                    THEN ref = (IF "DEAD" \in bits THEN 0 ELSE 1)
                               + Cardinality(holders)
                    ELSE holders = {}
                 /\ ~ofi /\ pc["listener"] = "have" => live

\* The events of a connection the peer made keep the contract the Python side
\* relies on, with either transport, until a change of the count is lost, which
\* is mapped to the end of the contract.  Of a connection this process made
\* they do not: the connect thread sets the state bit and may queue READY after
\* the listener queued LOST.
Contract == INSTANCE LifecycleContract
                WITH events <- IF outbound THEN <<>>
                               ELSE IF torn THEN <<"READY", "LOST", "REMOVED">>
                               ELSE events
ImplementsLifecycle == Contract!Spec

\* The block of a connection that goes away is freed once the threads that hold
\* it are done with it, unless a change of the count was lost.
GoneIsFreed == ~peerUp ~> ~live \/ torn
=============================================================================
