----------------------------- MODULE Handshake ------------------------------
(***************************************************************************)
(* How the listener turns the sockets it accepts into agent blocks         *)
(* (defw_listener.c).  A peer opens two connections, one after the other,  *)
(* and sends its session information on each.  Every accepted socket gets  *)
(* a NEW block; when its session information arrives the socket becomes    *)
(* the control or the RPC channel of the block of that runtime, which may  *)
(* be this one or one that exists already.  The two messages may arrive in *)
(* either order; an RPC channel that comes first is kept out of the select *)
(* set until the control channel is there.                                 *)
(*                                                                         *)
(* Only the listener thread changes this state.  Blocks are named after    *)
(* the socket they were made for.                                          *)
(***************************************************************************)
EXTENDS Naturals, FiniteSets

CONSTANTS Pairs,       \* connections of peers, two sockets each
          RuntimeOf    \* [Pairs -> runtime ids]

Ctrl(p) == <<p, "CTRL">>
Rpc(p) == <<p, "RPC">>
Socks == Pairs \X {"CTRL", "RPC"}
NoSock == <<"none", "none">>     \* INVALID_TCP_SOCKET
NoRuntime == "null-uuid"

ASSUME HandshakeAssumption ==
    NoSock \notin Socks /\ \A p \in Pairs : RuntimeOf[p] # NoRuntime

VARIABLES
    far,      \* the peer's end of a socket
    info,     \* the session information sent on a socket
    sock,     \* this end of a socket
    select,   \* g_tAllSet, without the listening socket
    blocks,   \* agent_connection_table: the blocks in it
    blk       \* the contents of a block

farVars == <<far, info>>
vars == <<farVars, sock, select, blocks, blk>>

NewBlk(s) == [new |-> TRUE, runtime |-> NoRuntime, iFileDesc |-> s,
              iRpcFd |-> NoSock, ctrlUp |-> FALSE, rpcUp |-> FALSE,
              ready |-> FALSE]

Init ==
    /\ far = [s \in Socks |-> "none"] /\ info = [s \in Socks |-> "none"]
    /\ sock = [s \in Socks |-> "none"]
    /\ select = {} /\ blocks = {}
    /\ blk = [s \in Socks |-> NewBlk(s)]

-----------------------------------------------------------------------------
(* The peer and the network. *)

\* A connect that succeeds: the socket is in the backlog of the listening one.
EstablishTCPConnection(s) ==
    /\ far[s] = "none"
    /\ far' = [far EXCEPT ![s] = "open"]
    /\ sock' = [sock EXCEPT ![s] = "backlog"]

\* defw_connect_to_agent_thread opens the control channel, sends the session
\* information on it, and then does the same for the RPC channel.
FarConnects(s) ==
    /\ s[2] = "RPC" => far[Ctrl(s[1])] = "open" /\ info[Ctrl(s[1])] # "none"
    /\ EstablishTCPConnection(s)
    /\ UNCHANGED <<info, select, blocks, blk>>

FarSends(s) ==
    /\ far[s] = "open" /\ info[s] = "none"
    /\ info' = [info EXCEPT ![s] = "sent"]
    /\ UNCHANGED <<far, sock, select, blocks, blk>>

Arrives(s) ==
    /\ info[s] = "sent"
    /\ info' = [info EXCEPT ![s] = "here"]
    /\ UNCHANGED <<far, sock, select, blocks, blk>>

\* The peer drops the connection; what is on its way still arrives.
FarCloses(p) ==
    /\ far[Ctrl(p)] = "open"
    /\ far' = [s \in Socks |-> IF s[1] = p THEN "closed" ELSE far[s]]
    /\ UNCHANGED <<info, sock, select, blocks, blk>>

\* A connection is reset before its session information arrives.
Reset(s) ==
    /\ far[s] = "open" /\ info[s] \in {"none", "sent"}
    /\ far' = [far EXCEPT ![s] = "closed"]
    /\ info' = [info EXCEPT ![s] = "lost"]
    /\ UNCHANGED <<sock, select, blocks, blk>>

-----------------------------------------------------------------------------
(* The listener. *)

\* Connections are accepted in the order they were made.
Accept(s) ==
    /\ sock[s] = "backlog"
    /\ s[2] = "RPC" => sock[Ctrl(s[1])] # "backlog"
    /\ sock' = [sock EXCEPT ![s] = "accepted"]
    /\ select' = select \cup {s}
    /\ blocks' = blocks \cup {s}
    /\ UNCHANGED <<farVars, blk>>

EndOfFile(s) == far[s] = "closed" /\ info[s] \notin {"sent", "here"}

\* defw_release_agent_blk(agent, true), when nobody else holds the block
ReleaseDead(b) ==
    LET fds == {blk[b].iFileDesc, blk[b].iRpcFd} \ {NoSock}
    IN  /\ sock' = [s \in Socks |-> IF s \in fds THEN "closed" ELSE sock[s]]
        /\ select' = select \ fds
        /\ blocks' = blocks \ {b}
        /\ UNCHANGED blk

\* defw_find_agent_by_uuid_passive
Existing(r) == {b \in blocks : blk[b].runtime = r}

\* Mutant: reported only for a block that still is NEW
MutReported(k) == [k EXCEPT !.ready = @ \/ (k.ctrlUp /\ k.rpcUp /\ k.new)]

\* listener_report_peer_ready
Reported(k) == [k EXCEPT !.ready = @ \/ (k.ctrlUp /\ k.rpcUp)]

\* Mutant: the RPC channel is not put back into the select set.
MutConsolidateSuspended(b, e, isRpc) ==
    LET s == blk[b].iFileDesc
    IN  /\ blk' = [blk EXCEPT ![e] = Reported(
                      IF isRpc THEN [@ EXCEPT !.iRpcFd = s, !.rpcUp = TRUE]
                      ELSE [@ EXCEPT !.iFileDesc = s, !.ctrlUp = TRUE,
                                     !.new = FALSE])]
        /\ blocks' = blocks \ {b} /\ UNCHANGED <<sock, select>>

\* process_msg_session_info, a block of the runtime exists: the socket moves
\* to it and the NEW block goes without closing it.
Consolidate(b, e, isRpc) ==
    LET s == blk[b].iFileDesc
    IN  /\ blk' = [blk EXCEPT ![e] = Reported(
                      IF isRpc THEN [@ EXCEPT !.iRpcFd = s, !.rpcUp = TRUE]
                      ELSE [@ EXCEPT !.iFileDesc = s, !.ctrlUp = TRUE,
                                     !.new = FALSE])]
        /\ select' = IF isRpc \/ blk[e].iRpcFd = NoSock THEN select
                     ELSE select \cup {blk[e].iRpcFd}
        /\ blocks' = blocks \ {b} /\ UNCHANGED sock

\* process_msg_session_info, the first channel of a runtime
Identify(b, r, isRpc) ==
    LET s == blk[b].iFileDesc
    IN  /\ blk' = [blk EXCEPT ![b] =
                      IF isRpc
                      THEN [@ EXCEPT !.runtime = r, !.iRpcFd = s,
                                     !.iFileDesc = NoSock, !.rpcUp = TRUE]
                      ELSE [@ EXCEPT !.runtime = r, !.ctrlUp = TRUE,
                                     !.new = FALSE]]
        /\ select' = IF isRpc THEN select \ {s} ELSE select
        /\ UNCHANGED <<sock, blocks>>

\* The blocks defw_new_agent_iter walks over
NewAgents == {b \in blocks : blk[b].new}

\* process_new_agents_helper, with something to read on iFileDesc
ProcessNew(b) ==
    LET s == blk[b].iFileDesc
    IN  /\ b \in NewAgents /\ s \in select
        /\ \/ /\ info[s] = "here"
              /\ info' = [info EXCEPT ![s] = "read"]
              /\ LET r == RuntimeOf[s[1]]
                 IN  \/ \E e \in Existing(r) : Consolidate(b, e, s[2] = "RPC")
                     \/ Existing(r) = {} /\ Identify(b, r, s[2] = "RPC")
           \/ EndOfFile(s) /\ ReleaseDead(b) /\ UNCHANGED info
        /\ UNCHANGED far

\* process_connection_agents_helper: either channel ends the connection.
ProcessConnection(b) ==
    /\ b \in blocks /\ ~blk[b].new
    /\ \E s \in {blk[b].iFileDesc, blk[b].iRpcFd} \cap select : EndOfFile(s)
    /\ ReleaseDead(b)
    /\ UNCHANGED farVars

\* agent_liveness_check_helper, a NEW block past its handshake_deadline
HandshakeTimeout(b) ==
    /\ b \in blocks /\ blk[b].new
    /\ ReleaseDead(b)
    /\ UNCHANGED farVars

Next ==
    \/ \E s \in Socks : \/ FarConnects(s) \/ FarSends(s) \/ Arrives(s)
                        \/ Reset(s) \/ Accept(s) \/ ProcessNew(s)
                        \/ ProcessConnection(s) \/ HandshakeTimeout(s)
    \/ \E p \in Pairs : FarCloses(p)

\* The listener runs, the network delivers and the connect thread goes on;
\* peers need not stay, and no handshake has to time out.
Fairness ==
    \A s \in Socks : /\ WF_vars(FarConnects(s)) /\ WF_vars(FarSends(s))
                     /\ WF_vars(Arrives(s)) /\ WF_vars(Accept(s))
                     /\ WF_vars(ProcessNew(s)) /\ WF_vars(ProcessConnection(s))

Spec == Init /\ [][Next]_vars /\ Fairness

\* The peers have come and gone.
Gone ==
    /\ far = [s \in Socks |-> "closed"] /\ info = [s \in Socks |-> "lost"]
    /\ sock = [s \in Socks |-> "closed"]
    /\ select = {} /\ blocks = {}
    /\ blk = [s \in Socks |-> NewBlk(s)]

-----------------------------------------------------------------------------
(* Properties. *)

Owners(s) == {b \in blocks : s \in {blk[b].iFileDesc, blk[b].iRpcFd}}

\* A runtime that connects once.  When it connects again before its first
\* connection has gone, process_msg_session_info replaces the channels in its
\* block, and those of the first connection are nobody's.
ConnectsOnce(p) == \A q \in Pairs : RuntimeOf[q] = RuntimeOf[p] => q = p

\* A socket that was accepted and not closed is a channel of at most one block
\* in the table, and of one if its runtime connects once, through all orders in
\* which the session information of two channels is consolidated (the comment
\* in defw_alloc_agent_blk: "It could be another connection on an agent we're
\* already tracking.  We will consolidate it once the agent verifies their
\* identity").  The listener reads all of these, or it would miss their end, but
\* for an RPC channel that waits for its control channel; and it reads no socket
\* that was closed.  A block reported ready has two channels of one and the same
\* runtime (tests/transport/test_phase1_transport_contracts.c: "ready event was
\* emitted before runtime identity").
ChannelsOwned ==
    /\ \A s \in Socks : sock[s] = "accepted" =>
          /\ \A b, c \in Owners(s) : b = c
          /\ ConnectsOnce(s[1]) =>
                \E b \in Owners(s) :
                    s \in select \/ (blk[b].new /\ blk[b].iRpcFd = s)
    /\ \A s \in select : sock[s] = "accepted"
    /\ \A b \in blocks : blk[b].ready =>
          /\ ~blk[b].new
          /\ \E p, q \in Pairs : /\ blk[b].iFileDesc = Ctrl(p)
                                 /\ blk[b].iRpcFd = Rpc(q)
                                 /\ RuntimeOf[p] = blk[b].runtime
                                 /\ RuntimeOf[q] = blk[b].runtime

\* A peer that connected both channels gets ready, whichever session
\* information arrives first, unless a connection ends or times out.
PairBecomesReady ==
    \A p \in Pairs :
        (info[Rpc(p)] = "sent") ~>
            \/ \E b \in blocks : blk[b].ready /\ blk[b].runtime = RuntimeOf[p]
            \/ \E s \in {Ctrl(p), Rpc(p)} : far[s] = "closed"
                                            \/ sock[s] = "closed"

=============================================================================
