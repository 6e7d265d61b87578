--------------------------- MODULE DirsvcConnect ----------------------------
(***************************************************************************)
(* How processes keep themselves connected to the directory service        *)
(* (defw_listener_main, set_dirsvc_connected and the connect thread): the  *)
(* listener starts a connect thread whenever neither dirsvc_connected nor  *)
(* dirsvc_connect_in_progress is set.  The thread reports failure through  *)
(* set_dirsvc_connected; success is reported when the listener reads the   *)
(* first heartbeat of the directory.                                       *)
(***************************************************************************)
EXTENDS Naturals

CONSTANT Procs      \* processes with DEFW_PARENT_NAME set

VARIABLES
    up,             \* the directory runs and accepts connections
    connected,      \* dirsvc_connected
    inProgress,     \* dirsvc_connect_in_progress
    listener,       \* where the listener is
    thread,         \* the connect thread
    intact,         \* the control channel it opened is not broken
    conn,           \* the connection to the directory
    misled          \* a flag was left set by a thread that failed before the
                    \* listener set it, by a refused RPC connect, or by a loss
                    \* that a send found

flags == <<connected, inProgress>>
vars == <<up, flags, listener, thread, intact, conn, misled>>

Init ==
    /\ up \in BOOLEAN
    /\ connected = [p \in Procs |-> FALSE]
    /\ inProgress = [p \in Procs |-> FALSE]
    /\ listener = [p \in Procs |-> "loop"]
    /\ thread = [p \in Procs |-> "none"]
    /\ intact = [p \in Procs |-> FALSE]
    /\ conn = [p \in Procs |-> "none"]
    /\ misled = [p \in Procs |-> FALSE]

\* The directory starts, or it stops and its connections are broken.
Environment ==
    /\ up' = ~up
    /\ conn' = [p \in Procs |-> IF up /\ conn[p] # "none" THEN "broken"
                                ELSE conn[p]]
    /\ intact' = [p \in Procs |-> intact[p] /\ ~up]
    /\ UNCHANGED <<flags, listener, thread, misled>>

\* Mutant: a failed attempt stays in progress.
MutSetDirsvcConnected(p, ok) ==
    /\ connected' = [connected EXCEPT ![p] = ok]
    /\ inProgress' = [inProgress EXCEPT ![p] = @ /\ ~ok]

SetDirsvcConnected(p, ok) ==
    /\ connected' = [connected EXCEPT ![p] = ok]
    /\ inProgress' = [inProgress EXCEPT ![p] = FALSE]

-----------------------------------------------------------------------------
(* The listener. *)

StartConnect(p) ==
    /\ listener[p] = "loop" /\ ~connected[p] /\ ~inProgress[p]
    /\ thread' = [thread EXCEPT ![p] = "control"]
    /\ listener' = [listener EXCEPT ![p] = "started"]
    /\ UNCHANGED <<up, intact, flags, conn, misled>>

\* The call returned EN_DEFW_RC_IN_PROGRESS.
SetInProgress(p) ==
    /\ listener[p] = "started"
    /\ inProgress' = [inProgress EXCEPT ![p] = TRUE]
    /\ listener' = [listener EXCEPT ![p] = "loop"]
    /\ UNCHANGED <<up, intact, connected, thread, conn, misled>>

\* process_msg_hb completes the pending connect.
ReadHeartbeat(p) ==
    /\ listener[p] = "loop" /\ conn[p] = "handshake" /\ up
    /\ conn' = [conn EXCEPT ![p] = "ready"]
    /\ SetDirsvcConnected(p, TRUE)
    /\ UNCHANGED <<up, intact, listener, thread, misled>>

\* process_connection_agents_helper, for an agent of type EN_DEFW_DIRSVC
ReadLoss(p) ==
    /\ listener[p] = "loop" /\ conn[p] = "broken"
    /\ conn' = [conn EXCEPT ![p] = "none"]
    /\ SetDirsvcConnected(p, FALSE)
    /\ UNCHANGED <<up, intact, listener, thread, misled>>

\* send_hb_to_agents, or a failed OFI send in defw_send: heartbeats and
\* requests go to a peer that was reported ready.
SendFindsLoss(p) ==
    /\ conn[p] = "broken" /\ connected[p]
    /\ conn' = [conn EXCEPT ![p] = "none"]
    /\ misled' = [misled EXCEPT ![p] = TRUE]
    /\ UNCHANGED <<up, intact, flags, listener, thread>>

-----------------------------------------------------------------------------
(* defw_connect_to_agent_thread *)

ThreadGoes(p, to) ==
    thread' = [thread EXCEPT ![p] = to] /\ UNCHANGED <<flags, misled>>

\* status_cb, with the rc the thread ends with.
ThreadReports(p, ok) ==
    /\ thread' = [thread EXCEPT ![p] = "none"]
    /\ SetDirsvcConnected(p, ok)
    /\ misled' = [misled EXCEPT ![p] = @ \/ ok \/ listener[p] = "started"]

ControlChannel(p) ==
    /\ thread[p] = "control"
    /\ \/ up /\ ThreadGoes(p, "session")
       \/ ~up /\ ThreadReports(p, FALSE)
    /\ intact' = [intact EXCEPT ![p] = up]
    /\ UNCHANGED <<up, listener, conn>>

\* The session information may be buffered on a connection that is broken.
SessionInfo(p) ==
    /\ thread[p] = "session"
    /\ \/ ThreadGoes(p, "rpc")
       \/ ~intact[p] /\ ThreadReports(p, FALSE)
    /\ UNCHANGED <<up, listener, intact, conn>>

\* When the second connect is refused, rc still is EN_DEFW_RC_OK; when it is
\* the session information that can not be sent, rc tells.
RpcChannel(p) ==
    /\ thread[p] = "rpc"
    /\ \/ up /\ ThreadGoes(p, "insert")
       \/ \E ok \in BOOLEAN : ~up /\ ThreadReports(p, ok)
    /\ UNCHANGED <<up, listener, intact, conn>>

\* The block enters the table; its loss is for the listener to find.
Insert(p) ==
    /\ thread[p] = "insert"
    /\ ThreadGoes(p, "none")
    /\ conn' = [conn EXCEPT ![p] = IF intact[p] THEN "handshake" ELSE "broken"]
    /\ UNCHANGED <<up, listener, intact>>

Next ==
    \/ Environment
    \/ \E p \in Procs :
          \/ StartConnect(p) \/ SetInProgress(p) \/ ReadHeartbeat(p)
          \/ ReadLoss(p) \/ SendFindsLoss(p)
          \/ ControlChannel(p) \/ SessionInfo(p) \/ RpcChannel(p) \/ Insert(p)

\* The listener and its connect thread run; the directory is free to come
\* and go, and no send has to fail.
Fairness ==
    \A p \in Procs :
       /\ WF_vars(StartConnect(p)) /\ WF_vars(SetInProgress(p))
       /\ WF_vars(ReadHeartbeat(p)) /\ WF_vars(ReadLoss(p))
       /\ WF_vars(ControlChannel(p)) /\ WF_vars(SessionInfo(p))
       /\ WF_vars(RpcChannel(p)) /\ WF_vars(Insert(p))

\* The listeners have ended.
Stopped ==
    /\ up = FALSE
    /\ connected = [p \in Procs |-> FALSE] /\ inProgress = [p \in Procs |-> FALSE]
    /\ listener = [p \in Procs |-> "stopped"] /\ thread = [p \in Procs |-> "none"]
    /\ intact = [p \in Procs |-> FALSE] /\ conn = [p \in Procs |-> "none"]
    /\ misled = [p \in Procs |-> FALSE]

-----------------------------------------------------------------------------
(* Properties. *)

\* "Everyone registers with the dirsvc" (defw_listener_main), and "If an agent
\* dies and comes back again, then we know how to deal with it"
\* (defw_spawn_listener): once the directory stays up every process gets
\* connected to it and stays connected, unless a flag was left set.
Reconnects ==
    \A p \in Procs :
        <>[]up => <>(misled[p]) \/ <>[](conn[p] = "ready" /\ connected[p])
=============================================================================
