---------------------------- MODULE FabricReady -----------------------------
(***************************************************************************)
(* When two processes may talk over the fabric.  A connector opens the     *)
(* control and the RPC connection to an acceptor and sends its session     *)
(* information on both; heartbeats follow on the control connection.       *)
(* Session information and heartbeats carry the OFI address of the sender. *)
(* A fabric message names its sender by runtime id and is dropped by a     *)
(* receiver that does not know it (defw_ofi_dispatch).  Nothing orders the *)
(* fabric and the two TCP connections.                                     *)
(***************************************************************************)
EXTENDS Integers

CONSTANTS OfiNodes,    \* the nodes whose endpoint is up
          MaxRpc       \* RPC messages a node sends over the fabric

ASSUME FabricAssumption == MaxRpc \in Nat

Nodes == {"connector", "acceptor"}
Other(n) == IF n = "connector" THEN "acceptor" ELSE "connector"

VARIABLES
    opened,     \* connections the connect thread opened: "CTRL", "RPC"
    session,    \* session information on its way to the acceptor
    up,         \* channels the acceptor's block has
    hb,         \* heartbeats on their way to a node
    known,      \* the node knows the other's runtime id
    addr,       \* DEFW_AGENT_OFI_ADDR_VALID
    ofiReady,   \* DEFW_AGENT_OFI_READY
    ready,      \* the peer was reported ready
    dropped,    \* the node has released the block
    fabric,     \* fabric messages on their way to a node
    sent,       \* fabric messages a node sent
    unknown     \* fabric messages dropped: "from an unknown agent"

blkVars == <<known, addr, ofiReady, ready>>
msgVars == <<session, hb, fabric, sent>>
vars == <<opened, up, blkVars, msgVars, dropped, unknown>>

MaxHb == 2      \* heartbeats on their way to a node
PerNode(v) == [n \in Nodes |-> v]

Init ==
    /\ opened = {} /\ session = {} /\ up = {}
    /\ hb = PerNode(0) /\ fabric = PerNode(0) /\ sent = PerNode(0)
    /\ known = PerNode(FALSE) /\ addr = PerNode(FALSE)
    /\ ofiReady = PerNode(FALSE) /\ ready = PerNode(FALSE)
    /\ dropped = PerNode(FALSE) /\ unknown = PerNode(0)

\* defw_transport_ofi_local_addr gives an address, and
\* defw_transport_ofi_av_insert takes one, only when the endpoint is up.
BothHaveEndpoints == Nodes \subseteq OfiNodes

\* maybe_insert_ofi_addr; fi_av_insert may fail.
Inserted(n) ==
    IF addr[n] THEN {TRUE} ELSE IF BothHaveEndpoints THEN BOOLEAN ELSE {FALSE}

SendHb(n) == hb' = [hb EXCEPT ![Other(n)] = @ + 1]

-----------------------------------------------------------------------------

\* defw_connect_to_agent_thread
Connect(ch) ==
    /\ ch \notin opened
    /\ ch = "RPC" => "CTRL" \in opened
    /\ opened' = opened \cup {ch} /\ session' = session \cup {ch}
    /\ UNCHANGED <<up, blkVars, hb, fabric, sent, dropped, unknown>>

\* process_msg_session_info at the acceptor, in either order; with both
\* channels listener_report_peer_ready reports it and sends a heartbeat.
SessionInfo(ch) ==
    /\ ch \in session /\ ~dropped["acceptor"]
    /\ session' = session \ {ch} /\ up' = up \cup {ch}
    /\ known' = [known EXCEPT !["acceptor"] = TRUE]
    /\ \E ok \in Inserted("acceptor") : addr' = [addr EXCEPT !["acceptor"] = ok]
    /\ IF up' = {"CTRL", "RPC"}
       THEN SendHb("acceptor") /\ ready' = [ready EXCEPT !["acceptor"] = TRUE]
       ELSE UNCHANGED <<hb, ready>>
    /\ UNCHANGED <<opened, ofiReady, fabric, sent, dropped, unknown>>

\* send_hb_to_agents
PeriodicHb(n) ==
    /\ ready[n] /\ ~dropped[n] /\ hb[Other(n)] < MaxHb
    /\ SendHb(n)
    /\ UNCHANGED <<opened, session, up, blkVars, fabric, sent, dropped, unknown>>

\* Mutant: the connector does not answer with a heartbeat of its own.
MutHbSilent(n) ==
    /\ hb[n] > 0 /\ ~dropped[n]
    /\ known' = [known EXCEPT ![n] = TRUE]
    /\ \E ok \in Inserted(n) :
          /\ addr' = [addr EXCEPT ![n] = ok]
          /\ ofiReady' = [ofiReady EXCEPT ![n] = ok]
    /\ hb' = [hb EXCEPT ![n] = @ - 1]
    /\ ready' = [ready EXCEPT ![n] = TRUE]
    /\ UNCHANGED <<opened, session, up, fabric, sent, dropped, unknown>>

\* process_msg_hb: the first one tells the connector who the acceptor is.
HbReceived(n) ==
    /\ hb[n] > 0 /\ ~dropped[n]
    /\ n = "connector" => opened = {"CTRL", "RPC"}
    /\ known' = [known EXCEPT ![n] = TRUE]
    /\ \E ok \in Inserted(n) :
          /\ addr' = [addr EXCEPT ![n] = ok]
          /\ ofiReady' = [ofiReady EXCEPT ![n] = ok]
    /\ hb' = [hb EXCEPT ![n] = @ - 1,
                        ![Other(n)] = IF ~known[n] /\ n \in OfiNodes
                                      THEN @ + 1 ELSE @]
    /\ ready' = [ready EXCEPT ![n] = TRUE]
    /\ UNCHANGED <<opened, session, up, fabric, sent, dropped, unknown>>

\* Mutant: the address is enough to use the fabric.
MutSendRpc(n) ==
    /\ addr[n] /\ ~dropped[n] /\ sent[n] < MaxRpc
    /\ fabric' = [fabric EXCEPT ![Other(n)] = @ + 1]
    /\ sent' = [sent EXCEPT ![n] = @ + 1]
    /\ UNCHANGED <<opened, session, up, blkVars, hb, dropped, unknown>>

\* ofi_send, on the RPC channel.  What goes over TCP changes nothing here.
SendRpc(n) ==
    /\ ofiReady[n] /\ ~dropped[n] /\ sent[n] < MaxRpc
    /\ fabric' = [fabric EXCEPT ![Other(n)] = @ + 1]
    /\ sent' = [sent EXCEPT ![n] = @ + 1]
    /\ UNCHANGED <<opened, session, up, blkVars, hb, dropped, unknown>>

\* defw_ofi_dispatch, on the progress thread
Dispatch(n) ==
    /\ fabric[n] > 0
    /\ fabric' = [fabric EXCEPT ![n] = @ - 1]
    /\ unknown' = [unknown EXCEPT ![n] =
                      IF known[n] /\ ~dropped[n] THEN @ ELSE @ + 1]
    /\ UNCHANGED <<opened, session, up, blkVars, hb, sent, dropped>>

\* A node loses the connection, or reads that the other dropped it.
Drop(n) ==
    /\ opened = {"CTRL", "RPC"} /\ ~dropped[n]
    /\ dropped' = [dropped EXCEPT ![n] = TRUE]
    /\ UNCHANGED <<opened, up, blkVars, msgVars, unknown>>

Next ==
    \/ \E ch \in {"CTRL", "RPC"} : Connect(ch) \/ SessionInfo(ch)
    \/ \E n \in Nodes : \/ PeriodicHb(n) \/ HbReceived(n) \/ SendRpc(n)
                        \/ Dispatch(n) \/ Drop(n)

Spec == Init /\ [][Next]_vars

\* Messages arrive and the connect thread goes on; nobody has to send.
Fairness ==
    /\ \A ch \in {"CTRL", "RPC"} : WF_vars(Connect(ch)) /\ WF_vars(SessionInfo(ch))
    /\ \A n \in Nodes : WF_vars(HbReceived(n))

\* The connection was made and both nodes have released it.
Dropped ==
    /\ opened = {"CTRL", "RPC"} /\ session = {} /\ up = {}
    /\ hb = PerNode(0) /\ fabric = PerNode(0) /\ sent = PerNode(0)
    /\ known = PerNode(FALSE) /\ addr = PerNode(FALSE)
    /\ ofiReady = PerNode(FALSE) /\ ready = PerNode(FALSE)
    /\ dropped = PerNode(TRUE) /\ unknown = PerNode(0)

-----------------------------------------------------------------------------
(* Properties. *)

\* Shapes of the two blocks and of the messages between them.
TypeOK ==
    /\ opened \subseteq {"CTRL", "RPC"} /\ session \subseteq {"CTRL", "RPC"}
    /\ up \subseteq {"CTRL", "RPC"}
    /\ hb \in [Nodes -> Nat] /\ fabric \in [Nodes -> Nat]
    /\ sent \in [Nodes -> 0 .. MaxRpc] /\ unknown \in [Nodes -> Nat]
    /\ known \in [Nodes -> BOOLEAN] /\ addr \in [Nodes -> BOOLEAN]
    /\ ofiReady \in [Nodes -> BOOLEAN] /\ ready \in [Nodes -> BOOLEAN]
    /\ dropped \in [Nodes -> BOOLEAN]

\* "from the first heartbeat on, the sender can name us in a fabric message,
\* and the fabric can carry our RPCs to it" (process_msg_hb): a node that uses
\* the fabric is known by runtime id to the other, whichever of the session
\* information, the heartbeats and the fabric messages overtakes the others.
ReadyIsKnown == \A n \in Nodes : ofiReady[n] => addr[n] /\ known[Other(n)]

\* A fabric message is dropped as coming from an unknown agent only by a node
\* that has dropped the connection.
NoUnknownSender == \A n \in Nodes : unknown[n] > 0 => dropped[n]

\* "Send one now rather than leave the peer on TCP until the periodic
\* heartbeat" (process_msg_hb): between two OFI nodes the fabric is used in
\* both directions without any periodic heartbeat, unless the connection is
\* dropped or an address can not be inserted.
FabricIsUsed ==
    <>(\/ \E n \in Nodes : dropped[n] \/ (ready[n] /\ ~addr[n])
       \/ \A n \in Nodes : ofiReady[n])
=============================================================================
