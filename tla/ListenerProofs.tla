-------------------------- MODULE ListenerProofs --------------------------
(***************************************************************************)
(* The parts of the listener thread: ChannelsOwned of Handshake, for any   *)
(* number of connections and any runtimes behind them, HearsEverything of  *)
(* SelectLoop, for any descriptors, and TimersAreRight of Heartbeats, for  *)
(* any peers and times.                                                    *)
(*                                                                         *)
(* ChannelsOwned is not inductive: a block is either as it was made, and   *)
(* the session information of its socket unread, or it is known by its     *)
(* runtime and has channels of that runtime whose information was read     *)
(* (BlocksInv); there is one known block for a runtime (OneKnown).  So no  *)
(* two blocks share a socket, and when a socket moves to the block of its  *)
(* runtime the place there is free, if the runtime connects once.          *)
(*                                                                         *)
(* HearsEverything says nothing of the iteration in progress: SetInv adds  *)
(* what the listener has read of the set and is about to write back, and   *)
(* that its copy of the set has no descriptor that was closed.             *)
(***************************************************************************)
EXTENDS MCListener, TLAPS

Runtimes == {RuntimeOf[p] : p \in Pairs}

Block == [new : BOOLEAN, runtime : Runtimes \cup {NoRuntime},
          iFileDesc : Socks \cup {NoSock}, iRpcFd : Socks \cup {NoSock},
          ctrlUp : BOOLEAN, rpcUp : BOOLEAN, ready : BOOLEAN]

\* What is needed of the types.
Shapes ==
    /\ far \in [Socks -> {"none", "open", "closed"}]
    /\ info \in [Socks -> {"none", "sent", "here", "read", "lost"}]
    /\ sock \in [Socks -> {"none", "backlog", "accepted", "closed"}]
    /\ select \subseteq Socks /\ blocks \subseteq Socks
    /\ blk \in [Socks -> Block]

\* What was not accepted has no block, and what is not connected is not here.
NotYetAccepted ==
    \A s \in Socks : /\ far[s] = "none" => sock[s] = "none"
                     /\ sock[s] \in {"none", "backlog"} =>
                           /\ s \notin blocks /\ blk[s] = NewBlk(s)
                           /\ info[s] # "read"

\* s is the channel of kind x, or none, of a block with the contents k.
Channel(s, x, there, k) ==
    /\ there = (s # NoSock)
    /\ there => /\ s[2] = x /\ info[s] = "read" /\ RuntimeOf[s[1]] = k.runtime

\* The contents of a block whose runtime is known.
Known(k) ==
    /\ k.runtime # NoRuntime
    /\ Channel(k.iFileDesc, "CTRL", k.ctrlUp, k)
    /\ Channel(k.iRpcFd, "RPC", k.rpcUp, k)
    /\ k.new = ~k.ctrlUp
    /\ k.ready => k.ctrlUp /\ k.rpcUp

BlocksInv ==
    \A b \in blocks : \/ blk[b] = NewBlk(b) /\ info[b] # "read"
                      \/ Known(blk[b])

OneKnown ==
    \A b, c \in blocks :
        blk[b].runtime = blk[c].runtime /\ blk[b].runtime # NoRuntime => b = c

\* The sockets of the blocks, and those the listener reads, are open.
OpenChannels ==
    /\ \A b \in blocks : \A s \in Socks :
          s \in {blk[b].iFileDesc, blk[b].iRpcFd} => sock[s] = "accepted"
    /\ \A s \in select : sock[s] = "accepted"

\* A socket is owned, and read or waiting.
Held(s) == \E b \in Owners(s) : s \in select \/ (blk[b].new /\ blk[b].iRpcFd = s)

AllHeld ==
    \A s \in Socks : sock[s] = "accepted" /\ ConnectsOnce(s[1]) => Held(s)

HandshakeInv == Shapes /\ NotYetAccepted /\ BlocksInv /\ OneKnown
                /\ OpenChannels /\ AllHeld
-----------------------------------------------------------------------------
(* Sockets and blocks. *)

\* A socket is one of the two of a pair, and a pair has a runtime.
LEMMA SockFacts ==
    /\ NoSock \notin Socks
    /\ \A p \in Pairs : RuntimeOf[p] # NoRuntime
    /\ \A s \in Socks : /\ s[1] \in Pairs /\ s[2] \in {"CTRL", "RPC"}
                        /\ s = <<s[1], s[2]>>
BY SMTT(30), HandshakeAssumption DEF Socks

\* The block that defw_alloc_agent_blk makes for an accepted socket.
LEMMA NewBlkFacts ==
    ASSUME NEW s \in Socks
    PROVE  /\ NewBlk(s) \in Block /\ NewBlk(s).new = TRUE
           /\ NewBlk(s).runtime = NoRuntime /\ NewBlk(s).iFileDesc = s
           /\ NewBlk(s).iRpcFd = NoSock /\ NewBlk(s).ready = FALSE
           /\ NewBlk(s).ctrlUp = FALSE /\ NewBlk(s).rpcUp = FALSE
BY Zenon DEF NewBlk, Block

\* A block that is known is not as it was made.
LEMMA KnownOrNew ==
    ASSUME Shapes, BlocksInv, NEW b \in blocks
    PROVE  /\ b \in Socks /\ blk[b] \in Block
           /\ blk[b].runtime = NoRuntime => blk[b] = NewBlk(b) /\ info[b] # "read"
           /\ blk[b].runtime # NoRuntime => Known(blk[b])
<1>1. b \in Socks /\ blk[b] \in Block
  BY Zenon DEF Shapes
<1>2. blk[b] = NewBlk(b) => blk[b].runtime = NoRuntime
  BY Zenon, <1>1, NewBlkFacts
<1>3. Known(blk[b]) => blk[b].runtime # NoRuntime
  BY Zenon DEF Known
<1> QED BY Zenon, <1>1, <1>2, <1>3 DEF BlocksInv

\* The channels of a known block are sockets of its runtime.
LEMMA KnownChannels ==
    ASSUME NEW k \in Block, Known(k), NEW s \in Socks, s \in {k.iFileDesc, k.iRpcFd}
    PROVE  info[s] = "read" /\ RuntimeOf[s[1]] = k.runtime
<1>1. s # NoSock
  BY Zenon, SockFacts
<1>2. CASE s = k.iFileDesc
  BY Zenon, <1>1, <1>2 DEF Known, Channel
<1>3. CASE s = k.iRpcFd
  BY Zenon, <1>1, <1>3 DEF Known, Channel
<1> QED BY Zenon, <1>2, <1>3

\* No two blocks share a socket.
LEMMA OneOwner ==
    ASSUME Shapes, BlocksInv, OneKnown, NEW s \in Socks,
           NEW b \in Owners(s), NEW c \in Owners(s)
    PROVE  b = c
<1>1. /\ b \in blocks /\ s \in {blk[b].iFileDesc, blk[b].iRpcFd}
      /\ c \in blocks /\ s \in {blk[c].iFileDesc, blk[c].iRpcFd}
  BY Zenon DEF Owners
<1>2. ASSUME NEW d \in blocks, s \in {blk[d].iFileDesc, blk[d].iRpcFd}
      PROVE  \/ d = s /\ info[s] # "read"
             \/ blk[d].runtime = RuntimeOf[s[1]] /\ info[s] = "read"
  <2>1. CASE blk[d].runtime = NoRuntime
    <3>1. d \in Socks /\ blk[d] = NewBlk(d) /\ info[d] # "read"
      BY Zenon, <2>1, KnownOrNew
    <3>2. blk[d].iFileDesc = d /\ blk[d].iRpcFd = NoSock /\ s # NoSock
      BY Zenon, <3>1, NewBlkFacts, SockFacts
    <3> QED BY Zenon, <1>2, <3>1, <3>2
  <2>2. CASE blk[d].runtime # NoRuntime
    <3>1. blk[d] \in Block /\ Known(blk[d])
      BY Zenon, <2>2, KnownOrNew
    <3> QED BY Zenon, <1>2, <3>1, KnownChannels
  <2> QED BY Zenon, <2>1, <2>2
<1>3. RuntimeOf[s[1]] # NoRuntime
  BY Zenon, SockFacts
<1> QED BY Zenon, <1>1, <1>2, <1>3 DEF OneKnown

-----------------------------------------------------------------------------
(* HandshakeInv is inductive. *)

\* Nothing is connected when the listener starts.
LEMMA HandshakeInvInit == Init => HandshakeInv
<1> SUFFICES ASSUME Init PROVE HandshakeInv
  BY Zenon
<1>1. Shapes
  BY Zenon, NewBlkFacts DEF Init, Shapes
<1>2. NotYetAccepted
  BY Zenon DEF Init, NotYetAccepted
<1>3. BlocksInv /\ OneKnown /\ OpenChannels
  BY Zenon DEF Init, BlocksInv, OneKnown, OpenChannels
<1>4. AllHeld
  BY Zenon DEF Init, AllHeld
<1> QED BY Zenon, <1>1, <1>2, <1>3, <1>4 DEF HandshakeInv

\* The peer and the network leave the blocks alone.
LEMMA FarKeeps ==
    ASSUME HandshakeInv, Shapes', UNCHANGED <<select, blocks, blk>>,
           \A s \in Socks : /\ info'[s] = "read" <=> info[s] = "read"
                            /\ far'[s] = "none" => far[s] = "none" /\ sock'[s] = sock[s]
                            /\ \/ sock'[s] = sock[s]
                               \/ sock[s] = "none" /\ sock'[s] = "backlog"
    PROVE  HandshakeInv'
<1> USE DEF HandshakeInv
<1>1. NotYetAccepted'
  BY Zenon DEF NotYetAccepted, Shapes
<1>2. BlocksInv'
  <2> SUFFICES ASSUME NEW b \in blocks
               PROVE  \/ blk[b] = NewBlk(b) /\ info'[b] # "read"
                      \/ Known(blk[b])'
    BY Zenon DEF BlocksInv
  <2>1. b \in Socks /\ blk[b] \in Block
    BY Zenon DEF Shapes
  <2>2. CASE blk[b] = NewBlk(b) /\ info[b] # "read"
    BY Zenon, <2>1, <2>2
  <2>3. CASE Known(blk[b])
    <3>1. ASSUME NEW s \in Socks \cup {NoSock}, NEW x, NEW there, Channel(s, x, there, blk[b])
          PROVE  Channel(s, x, there, blk[b])'
      BY Zenon, <3>1, SockFacts DEF Channel
    <3> QED BY Zenon, <2>1, <2>3, <3>1 DEF Known, Block
  <2> QED BY Zenon, <2>2, <2>3 DEF BlocksInv
<1>3. OneKnown'
  BY Zenon DEF OneKnown
<1>4. OpenChannels'
  BY SMTT(30) DEF OpenChannels, Shapes
<1>5. AllHeld'
  BY Zenon DEF AllHeld, Held, Owners
<1> QED BY Zenon, <1>1, <1>2, <1>3, <1>4, <1>5

\* A socket that is accepted gets a block and is read.
LEMMA AcceptKeeps ==
    ASSUME HandshakeInv, NEW s \in Socks, Accept(s)
    PROVE  HandshakeInv'
<1> USE DEF HandshakeInv
<1>1. /\ sock[s] = "backlog" /\ sock' = [sock EXCEPT ![s] = "accepted"]
      /\ select' = select \cup {s} /\ blocks' = blocks \cup {s}
      /\ UNCHANGED <<far, info, blk>>
  BY Zenon DEF Accept, farVars
<1>2. s \notin blocks /\ blk[s] = NewBlk(s) /\ info[s] # "read"
  BY Zenon, <1>1 DEF NotYetAccepted
<1>3. Shapes'
  BY Zenon, <1>1 DEF Shapes
<1>4. \A t \in Socks \ {s} : sock'[t] = sock[t]
  BY Zenon, <1>1 DEF Shapes
<1>5. sock'[s] = "accepted"
  BY Zenon, <1>1 DEF Shapes
<1>6. NotYetAccepted'
  BY Zenon, <1>1, <1>4, <1>5 DEF NotYetAccepted
<1>7. BlocksInv'
  BY Zenon, <1>1, <1>2 DEF BlocksInv, Known, Channel
<1>8. blk[s].runtime = NoRuntime /\ blk[s].iFileDesc = s /\ blk[s].iRpcFd = NoSock
  BY Zenon, <1>2, NewBlkFacts
<1>9. OneKnown'
  BY Zenon, <1>1, <1>8 DEF OneKnown
<1>10. OpenChannels'
  BY SMTT(30), <1>1, <1>4, <1>5, <1>8, SockFacts DEF OpenChannels, Shapes
<1>11. AllHeld'
  <2> SUFFICES ASSUME NEW t \in Socks, sock'[t] = "accepted", ConnectsOnce(t[1])
               PROVE  Held(t)'
    BY Zenon DEF AllHeld, ConnectsOnce
  <2>1. CASE t = s
    BY Zenon, <1>1, <1>8, <2>1 DEF Held, Owners
  <2>2. CASE t # s
    <3>1. Held(t)
      BY Zenon, <1>4, <2>2 DEF AllHeld
    <3> QED BY Zenon, <1>1, <3>1 DEF Held, Owners
  <2> QED BY Zenon, <2>1, <2>2
<1> QED BY Zenon, <1>3, <1>6, <1>7, <1>9, <1>10, <1>11

\* A connection ends: its sockets are closed, and no other block has them.
LEMMA ReleaseKeeps ==
    ASSUME HandshakeInv, NEW b \in blocks, ReleaseDead(b), UNCHANGED farVars
    PROVE  HandshakeInv'
<1> USE DEF HandshakeInv
<1> DEFINE fds == {blk[b].iFileDesc, blk[b].iRpcFd} \ {NoSock}
<1>1. /\ sock' = [s \in Socks |-> IF s \in fds THEN "closed" ELSE sock[s]]
      /\ select' = select \ fds /\ blocks' = blocks \ {b}
      /\ UNCHANGED <<far, info, blk>>
  BY Zenon DEF ReleaseDead, farVars
<1>2. b \in Socks /\ blk[b] \in Block /\ fds \subseteq Socks
  BY SMTT(30) DEF Shapes, Block
<1>3. \A s \in Socks : s \in fds <=> b \in Owners(s)
  BY Zenon, SockFacts DEF Owners
<1>4. \A s \in fds : sock[s] = "accepted"
  BY Zenon, <1>2 DEF OpenChannels
<1> HIDE DEF fds
<1>5. Shapes'
  BY Zenon, <1>1 DEF Shapes
<1>6. NotYetAccepted'
  BY Zenon, <1>1, <1>4 DEF NotYetAccepted
<1>7. BlocksInv'
  BY Zenon, <1>1 DEF BlocksInv, Known, Channel
<1>8. OneKnown'
  BY Zenon, <1>1 DEF OneKnown
<1>9. OpenChannels'
  <2>1. ASSUME NEW c \in blocks \ {b}, NEW s \in Socks,
               s \in {blk[c].iFileDesc, blk[c].iRpcFd}
        PROVE  sock'[s] = "accepted"
    <3>1. c \in Owners(s) /\ sock[s] = "accepted"
      BY Zenon, <2>1 DEF Owners, OpenChannels
    <3>2. s \notin fds
      BY Zenon, <1>3, <2>1, <3>1, OneOwner
    <3> QED BY Zenon, <1>1, <3>1, <3>2
  <2>2. ASSUME NEW s \in select \ fds PROVE sock'[s] = "accepted"
    BY Zenon, <1>1, <2>2 DEF OpenChannels, Shapes
  <2> QED BY Zenon, <1>1, <2>1, <2>2 DEF OpenChannels
<1>10. AllHeld'
  <2> SUFFICES ASSUME NEW t \in Socks, sock'[t] = "accepted", ConnectsOnce(t[1])
               PROVE  Held(t)'
    BY Zenon DEF AllHeld, ConnectsOnce
  <2>1. t \notin fds /\ sock[t] = "accepted"
    BY Zenon, <1>1
  <2>2. Held(t) /\ b \notin Owners(t)
    BY Zenon, <1>3, <2>1 DEF AllHeld
  <2>3. PICK c \in Owners(t) : t \in select \/ (blk[c].new /\ blk[c].iRpcFd = t)
    BY Zenon, <2>2 DEF Held
  <2>4. c \in Owners(t)'
    BY Zenon, <1>1, <2>2, <2>3 DEF Owners
  <2> QED BY Zenon, <1>1, <2>1, <2>3, <2>4 DEF Held
<1> QED BY Zenon, <1>5, <1>6, <1>7, <1>8, <1>9, <1>10

\* The session information that is read is that of a block as it was made.
LEMMA ReadOfNew ==
    ASSUME HandshakeInv, NEW b \in NewAgents, blk[b].iFileDesc \in select
    PROVE  /\ b \in blocks /\ b \in Socks /\ blk[b] = NewBlk(b)
           /\ blk[b].iFileDesc = b /\ sock[b] = "accepted"
<1> USE DEF HandshakeInv
<1>1. b \in blocks /\ b \in Socks /\ blk[b].new
  BY Zenon DEF NewAgents, Shapes
<1>2. blk[b].iFileDesc # NoSock
  BY Zenon, SockFacts DEF Shapes
<1>3. ~Known(blk[b])
  BY Zenon, <1>1, <1>2 DEF Known, Channel
<1>4. blk[b] = NewBlk(b)
  BY Zenon, <1>1, <1>3 DEF BlocksInv
<1>5. blk[b].iFileDesc = b
  BY Zenon, <1>1, <1>4, NewBlkFacts
<1> QED BY Zenon, <1>1, <1>4, <1>5 DEF OpenChannels

\* Reading the information of a block leaves the others as they are.
LEMMA OthersKnown ==
    ASSUME HandshakeInv, NEW b \in blocks, info' = [info EXCEPT ![b] = "read"],
           NEW c \in blocks \ {b}, blk'[c] = blk[c]
    PROVE  \/ blk[c] = NewBlk(c) /\ info'[c] # "read"
           \/ Known(blk[c])'
<1> USE DEF HandshakeInv
<1>1. b \in Socks /\ c \in Socks /\ blk[c] \in Block
  BY Zenon DEF Shapes
<1>2. \A s \in Socks : info[s] = "read" => info'[s] = "read"
  BY Zenon DEF Shapes
<1>3. info'[c] = info[c]
  BY Zenon, <1>1 DEF Shapes
<1>4. CASE Known(blk[c])
  <2>1. /\ blk[c].iFileDesc # NoSock => blk[c].iFileDesc \in Socks
        /\ blk[c].iRpcFd # NoSock => blk[c].iRpcFd \in Socks
    BY Zenon, <1>1 DEF Block
  <2> QED BY SMTT(30), <1>2, <1>4, <2>1 DEF Known, Channel
<1> QED BY Zenon, <1>1, <1>3, <1>4 DEF BlocksInv

\* A block that was identified by its RPC or by its control channel, and a known
\* block that gets the one or the other.
ByRpc(k, r, s) == [k EXCEPT !.runtime = r, !.iRpcFd = s, !.iFileDesc = NoSock,
                            !.rpcUp = TRUE]
ByCtrl(k, r) == [k EXCEPT !.runtime = r, !.ctrlUp = TRUE, !.new = FALSE]
WithRpc(k, s) == Reported([k EXCEPT !.iRpcFd = s, !.rpcUp = TRUE])
WithCtrl(k, s) == Reported([k EXCEPT !.iFileDesc = s, !.ctrlUp = TRUE, !.new = FALSE])

\* What process_msg_session_info writes into a block of a new runtime.
LEMMA IdentifiedFields ==
    ASSUME NEW k \in Block, NEW r \in Runtimes, NEW s \in Socks
    PROVE  /\ ByRpc(k, r, s) \in Block /\ ByRpc(k, r, s).runtime = r
           /\ ByRpc(k, r, s).iRpcFd = s /\ ByRpc(k, r, s).iFileDesc = NoSock
           /\ ByRpc(k, r, s).rpcUp = TRUE /\ ByRpc(k, r, s).ctrlUp = k.ctrlUp
           /\ ByRpc(k, r, s).new = k.new /\ ByRpc(k, r, s).ready = k.ready
           /\ ByCtrl(k, r) \in Block /\ ByCtrl(k, r).runtime = r
           /\ ByCtrl(k, r).iRpcFd = k.iRpcFd /\ ByCtrl(k, r).iFileDesc = k.iFileDesc
           /\ ByCtrl(k, r).rpcUp = k.rpcUp /\ ByCtrl(k, r).ctrlUp = TRUE
           /\ ByCtrl(k, r).new = FALSE /\ ByCtrl(k, r).ready = k.ready
BY Zenon DEF Block, ByRpc, ByCtrl

\* The block of a socket that was identified.
LEMMA RpcBlk ==
    ASSUME NEW b \in Socks, NEW r \in Runtimes
    PROVE  /\ ByRpc(NewBlk(b), r, b) \in Block /\ ByRpc(NewBlk(b), r, b).runtime = r
           /\ ByRpc(NewBlk(b), r, b).iRpcFd = b
           /\ ByRpc(NewBlk(b), r, b).iFileDesc = NoSock
           /\ ByRpc(NewBlk(b), r, b).rpcUp = TRUE
           /\ ByRpc(NewBlk(b), r, b).ctrlUp = FALSE
           /\ ByRpc(NewBlk(b), r, b).new = TRUE
           /\ ByRpc(NewBlk(b), r, b).ready = FALSE
<1>1. /\ ByRpc(NewBlk(b), r, b).runtime = r
      /\ ByRpc(NewBlk(b), r, b).iRpcFd = b
      /\ ByRpc(NewBlk(b), r, b).iFileDesc = NoSock
  BY Zenon DEF ByRpc, NewBlk
<1>2. /\ ByRpc(NewBlk(b), r, b).rpcUp = TRUE
      /\ ByRpc(NewBlk(b), r, b).ctrlUp = FALSE
      /\ ByRpc(NewBlk(b), r, b).new = TRUE
      /\ ByRpc(NewBlk(b), r, b).ready = FALSE
  BY Zenon DEF ByRpc, NewBlk
<1>3. ByRpc(NewBlk(b), r, b) \in Block
  BY Zenon, NewBlkFacts, IdentifiedFields
<1> QED BY Zenon, <1>1, <1>2, <1>3

\* A block identified by its control channel.
LEMMA CtrlBlk ==
    ASSUME NEW b \in Socks, NEW r \in Runtimes
    PROVE  /\ ByCtrl(NewBlk(b), r) \in Block /\ ByCtrl(NewBlk(b), r).runtime = r
           /\ ByCtrl(NewBlk(b), r).iRpcFd = NoSock
           /\ ByCtrl(NewBlk(b), r).iFileDesc = b
           /\ ByCtrl(NewBlk(b), r).rpcUp = FALSE
           /\ ByCtrl(NewBlk(b), r).ctrlUp = TRUE
           /\ ByCtrl(NewBlk(b), r).new = FALSE
           /\ ByCtrl(NewBlk(b), r).ready = FALSE
<1>1. /\ ByCtrl(NewBlk(b), r).runtime = r
      /\ ByCtrl(NewBlk(b), r).iRpcFd = NoSock
      /\ ByCtrl(NewBlk(b), r).iFileDesc = b
  BY Zenon DEF ByCtrl, NewBlk
<1>2. /\ ByCtrl(NewBlk(b), r).rpcUp = FALSE /\ ByCtrl(NewBlk(b), r).ctrlUp = TRUE
      /\ ByCtrl(NewBlk(b), r).new = FALSE /\ ByCtrl(NewBlk(b), r).ready = FALSE
  BY Zenon DEF ByCtrl, NewBlk
<1>3. ByCtrl(NewBlk(b), r) \in Block
  BY Zenon, NewBlkFacts, IdentifiedFields
<1> QED BY Zenon, <1>1, <1>2, <1>3

\* listener_report_peer_ready changes the ready mark and nothing else.
LEMMA ReportedFields ==
    ASSUME NEW k \in Block
    PROVE  /\ Reported(k) \in Block /\ Reported(k).runtime = k.runtime
           /\ Reported(k).iRpcFd = k.iRpcFd /\ Reported(k).iFileDesc = k.iFileDesc
           /\ Reported(k).rpcUp = k.rpcUp /\ Reported(k).ctrlUp = k.ctrlUp
           /\ Reported(k).new = k.new
           /\ Reported(k).ready => k.ready \/ (k.ctrlUp /\ k.rpcUp)
BY Zenon DEF Block, Reported

\* What process_msg_session_info writes into the block of a runtime it knows.
LEMMA ConsolidatedFields ==
    ASSUME NEW k \in Block, NEW s \in Socks
    PROVE  /\ WithRpc(k, s) \in Block /\ WithRpc(k, s).runtime = k.runtime
           /\ WithRpc(k, s).iRpcFd = s /\ WithRpc(k, s).iFileDesc = k.iFileDesc
           /\ WithRpc(k, s).rpcUp = TRUE /\ WithRpc(k, s).ctrlUp = k.ctrlUp
           /\ WithRpc(k, s).new = k.new
           /\ WithRpc(k, s).ready => k.ready \/ k.ctrlUp
           /\ WithCtrl(k, s) \in Block /\ WithCtrl(k, s).runtime = k.runtime
           /\ WithCtrl(k, s).iRpcFd = k.iRpcFd /\ WithCtrl(k, s).iFileDesc = s
           /\ WithCtrl(k, s).rpcUp = k.rpcUp /\ WithCtrl(k, s).ctrlUp = TRUE
           /\ WithCtrl(k, s).new = FALSE
           /\ WithCtrl(k, s).ready => k.ready \/ k.rpcUp
<1> DEFINE m == [k EXCEPT !.iRpcFd = s, !.rpcUp = TRUE]
           n == [k EXCEPT !.iFileDesc = s, !.ctrlUp = TRUE, !.new = FALSE]
<1>1. /\ m \in Block /\ m.runtime = k.runtime /\ m.iRpcFd = s
      /\ m.iFileDesc = k.iFileDesc /\ m.rpcUp = TRUE /\ m.ctrlUp = k.ctrlUp
      /\ m.new = k.new /\ m.ready = k.ready
  BY Zenon DEF Block
<1>2. /\ n \in Block /\ n.runtime = k.runtime /\ n.iRpcFd = k.iRpcFd
      /\ n.iFileDesc = s /\ n.rpcUp = k.rpcUp /\ n.ctrlUp = TRUE
      /\ n.new = FALSE /\ n.ready = k.ready
  BY Zenon DEF Block
<1>3. WithRpc(k, s) = Reported(m) /\ WithCtrl(k, s) = Reported(n)
  BY Zenon DEF WithRpc, WithCtrl
<1> HIDE DEF m, n
<1>4. /\ Reported(m) \in Block /\ Reported(m).runtime = m.runtime
      /\ Reported(m).iRpcFd = m.iRpcFd /\ Reported(m).iFileDesc = m.iFileDesc
      /\ Reported(m).rpcUp = m.rpcUp /\ Reported(m).ctrlUp = m.ctrlUp
      /\ Reported(m).new = m.new
      /\ Reported(m).ready => m.ready \/ (m.ctrlUp /\ m.rpcUp)
  BY Zenon, <1>1, ReportedFields
<1>5. /\ Reported(n) \in Block /\ Reported(n).runtime = n.runtime
      /\ Reported(n).iRpcFd = n.iRpcFd /\ Reported(n).iFileDesc = n.iFileDesc
      /\ Reported(n).rpcUp = n.rpcUp /\ Reported(n).ctrlUp = n.ctrlUp
      /\ Reported(n).new = n.new
      /\ Reported(n).ready => n.ready \/ (n.ctrlUp /\ n.rpcUp)
  BY Zenon, <1>2, ReportedFields
<1> QED BY Zenon, <1>1, <1>2, <1>3, <1>4, <1>5

\* The first channel of a runtime.
LEMMA IdentifyKeeps ==
    ASSUME HandshakeInv, NEW b \in NewAgents, blk[b].iFileDesc = b, b \in select,
           info' = [info EXCEPT ![b] = "read"], far' = far,
           Existing(RuntimeOf[b[1]]) = {},
           Identify(b, RuntimeOf[b[1]], b[2] = "RPC")
    PROVE  HandshakeInv'
<1> USE DEF HandshakeInv
<1> DEFINE r == RuntimeOf[b[1]]
           k == blk'[b]
<1>1. /\ b \in blocks /\ b \in Socks /\ blk[b] = NewBlk(b)
      /\ sock[b] = "accepted" /\ b[1] \in Pairs /\ r # NoRuntime /\ b # NoSock
      /\ b[2] # "RPC" => b[2] = "CTRL"
  BY Zenon, ReadOfNew, SockFacts
<1>2. /\ UNCHANGED <<sock, blocks>> /\ \A c \in Socks \ {b} : blk'[c] = blk[c]
      /\ select' = IF b[2] = "RPC" THEN select \ {b} ELSE select
  BY Zenon, <1>1 DEF Identify, Shapes
<1>3. info'[b] = "read" /\ \A t \in Socks \ {b} : info'[t] = info[t]
  BY Zenon, <1>1 DEF Shapes
<1>4. /\ k.runtime = r /\ k.ready = FALSE /\ k \in Block
      /\ b[2] = "RPC" => /\ k.iRpcFd = b /\ k.iFileDesc = NoSock /\ k.rpcUp = TRUE
                         /\ k.ctrlUp = FALSE /\ k.new = TRUE
      /\ b[2] # "RPC" => /\ k.iRpcFd = NoSock /\ k.iFileDesc = b /\ k.rpcUp = FALSE
                         /\ k.ctrlUp = TRUE /\ k.new = FALSE
  <2>1. k = IF b[2] = "RPC" THEN ByRpc(blk[b], r, b) ELSE ByCtrl(blk[b], r)
    BY Zenon, <1>1 DEF Identify, Shapes, ByRpc, ByCtrl
  <2> HIDE DEF k, r
  <2>2. r \in Runtimes
    BY Zenon, <1>1 DEF r, Runtimes
  <2>3. CASE b[2] = "RPC"
    <3>1. k = ByRpc(NewBlk(b), r, b)
      BY Zenon, <1>1, <2>1, <2>3
    <3>2. /\ ByRpc(NewBlk(b), r, b) \in Block /\ ByRpc(NewBlk(b), r, b).runtime = r
          /\ ByRpc(NewBlk(b), r, b).iRpcFd = b
          /\ ByRpc(NewBlk(b), r, b).iFileDesc = NoSock
          /\ ByRpc(NewBlk(b), r, b).rpcUp = TRUE
          /\ ByRpc(NewBlk(b), r, b).ctrlUp = FALSE
          /\ ByRpc(NewBlk(b), r, b).new = TRUE
          /\ ByRpc(NewBlk(b), r, b).ready = FALSE
      BY Zenon, <1>1, <2>2, RpcBlk
    <3> QED BY Zenon, <2>3, <3>1, <3>2
  <2>4. CASE b[2] # "RPC"
    <3>1. k = ByCtrl(NewBlk(b), r)
      BY Zenon, <1>1, <2>1, <2>4
    <3>2. /\ ByCtrl(NewBlk(b), r) \in Block /\ ByCtrl(NewBlk(b), r).runtime = r
          /\ ByCtrl(NewBlk(b), r).iRpcFd = NoSock
          /\ ByCtrl(NewBlk(b), r).iFileDesc = b
          /\ ByCtrl(NewBlk(b), r).rpcUp = FALSE
          /\ ByCtrl(NewBlk(b), r).ctrlUp = TRUE
          /\ ByCtrl(NewBlk(b), r).new = FALSE
          /\ ByCtrl(NewBlk(b), r).ready = FALSE
      BY Zenon, <1>1, <2>2, CtrlBlk
    <3> QED BY Zenon, <2>4, <3>1, <3>2
  <2> QED BY Zenon, <2>3, <2>4
<1>5. Shapes'
  <2>1. blk' \in [Socks -> Block]
    BY Zenon, <1>1, <1>2, <1>4 DEF Identify, Shapes
  <2>2. info' \in [Socks -> {"none", "sent", "here", "read", "lost"}]
    BY Zenon DEF Shapes
  <2> QED BY Zenon, <1>1, <1>2, <2>1, <2>2 DEF Shapes
<1>6. NotYetAccepted'
  BY SMTT(30), <1>1, <1>2, <1>3 DEF NotYetAccepted
<1>7. Known(blk[b])'
  <2>2. CASE b[2] = "RPC"
    BY Zenon, <1>1, <1>3, <1>4, <2>2 DEF Known, Channel, k, r
  <2>3. CASE b[2] # "RPC"
    <3>1. b[2] = "CTRL" /\ k.iFileDesc = b /\ k.ctrlUp = TRUE /\ k.new = FALSE
          /\ k.iRpcFd = NoSock /\ k.rpcUp = FALSE /\ k.runtime = r /\ k.ready = FALSE
      BY Zenon, <1>1, <1>4, <2>3
    <3> QED BY Zenon, <1>1, <1>3, <3>1 DEF Known, Channel
  <2> QED BY Zenon, <2>2, <2>3
<1>8. BlocksInv'
  <2>1. ASSUME NEW c \in blocks \ {b}
        PROVE  \/ blk'[c] = NewBlk(c) /\ info'[c] # "read"
               \/ Known(blk[c])'
    <3>1. blk'[c] = blk[c]
      BY Zenon, <1>2 DEF Shapes
    <3> QED BY Zenon, <1>1, <3>1, OthersKnown
  <2> QED BY Zenon, <1>2, <1>7, <2>1 DEF BlocksInv
<1>9. OneKnown'
  <2>1. \A c \in blocks \ {b} : blk'[c] = blk[c] /\ blk[c].runtime # r
    BY Zenon, <1>2 DEF Existing, Shapes
  <2> QED BY SMTT(30), <1>2, <1>4, <2>1 DEF OneKnown
<1>10. OpenChannels'
  <2>1. \A c \in blocks \ {b} : blk'[c] = blk[c]
    BY Zenon, <1>2 DEF Shapes
  <2>2. \A t \in Socks : t \in {k.iFileDesc, k.iRpcFd} => t = b
    BY Zenon, <1>4, SockFacts
  <2> QED BY Zenon, <1>1, <1>2, <2>1, <2>2 DEF OpenChannels
<1>11. AllHeld'
  <2> SUFFICES ASSUME NEW t \in Socks, sock'[t] = "accepted", ConnectsOnce(t[1])
               PROVE  Held(t)'
    BY Zenon DEF AllHeld, ConnectsOnce
  <2>1. CASE t = b
    <3>1. b \in Owners(t)'
      BY Zenon, <1>1, <1>2, <1>4, <2>1 DEF Owners
    <3>2. b \in select' \/ (blk'[b].new /\ blk'[b].iRpcFd = b)
      BY Zenon, <1>2, <1>4
    <3> QED BY Zenon, <2>1, <3>1, <3>2 DEF Held
  <2>2. CASE t # b
    <3>1. PICK c \in Owners(t) : t \in select \/ (blk[c].new /\ blk[c].iRpcFd = t)
      BY Zenon, <1>2 DEF AllHeld, Held
    <3>2. c \in blocks /\ c \in Socks /\ c # b
      <4>1. blk[b].iFileDesc = b /\ blk[b].iRpcFd = NoSock /\ t # NoSock
        BY Zenon, <1>1, NewBlkFacts, SockFacts
      <4>2. b \notin Owners(t)
        BY Zenon, <2>2, <4>1 DEF Owners
      <4> QED BY Zenon, <3>1, <4>2 DEF Owners, Shapes
    <3>3. blk'[c] = blk[c] /\ c \in Owners(t)'
      BY Zenon, <1>2, <3>1, <3>2 DEF Owners
    <3>4. t \in select => t \in select'
      BY Zenon, <1>2, <2>2
    <3> QED BY Zenon, <3>1, <3>3, <3>4 DEF Held
  <2> QED BY Zenon, <2>1, <2>2
<1> QED BY Zenon, <1>5, <1>6, <1>8, <1>9, <1>10, <1>11

\* A channel moves to the block of its runtime.
LEMMA ConsolidateKeeps ==
    ASSUME HandshakeInv, NEW b \in NewAgents, blk[b].iFileDesc = b, b \in select,
           info' = [info EXCEPT ![b] = "read"], far' = far, info[b] = "here",
           NEW e \in Existing(RuntimeOf[b[1]]), Consolidate(b, e, b[2] = "RPC")
    PROVE  HandshakeInv'
<1> USE DEF HandshakeInv
<1> DEFINE r == RuntimeOf[b[1]]
           k == blk'[e]
<1>1. /\ b \in blocks /\ b \in Socks /\ blk[b] = NewBlk(b)
      /\ sock[b] = "accepted" /\ b[1] \in Pairs /\ r # NoRuntime /\ b # NoSock
      /\ b[2] # "RPC" => b[2] = "CTRL"
  BY Zenon, ReadOfNew, SockFacts
<1>2. /\ e \in blocks /\ e \in Socks /\ blk[e].runtime = r /\ blk[e] \in Block
      /\ Known(blk[e]) /\ e # b
  <2>1. e \in blocks /\ blk[e].runtime = r
    BY Zenon DEF Existing
  <2>2. blk[b].runtime = NoRuntime
    BY Zenon, <1>1, NewBlkFacts
  <2> QED BY Zenon, <1>1, <2>1, <2>2, KnownOrNew
<1>3. /\ UNCHANGED sock /\ blocks' = blocks \ {b}
      /\ \A c \in Socks \ {e} : blk'[c] = blk[c]
      /\ k = IF b[2] = "RPC" THEN WithRpc(blk[e], b) ELSE WithCtrl(blk[e], b)
      /\ select' = IF b[2] = "RPC" \/ blk[e].iRpcFd = NoSock THEN select
                   ELSE select \cup {blk[e].iRpcFd}
  BY Zenon, <1>1, <1>2 DEF Consolidate, Shapes, WithRpc, WithCtrl
<1>4. info'[b] = "read" /\ \A t \in Socks \ {b} : info'[t] = info[t]
  BY Zenon, <1>1 DEF Shapes
<1>5. /\ k \in Block /\ k.runtime = r
      /\ b[2] = "RPC" => /\ k.iRpcFd = b /\ k.iFileDesc = blk[e].iFileDesc
                         /\ k.rpcUp = TRUE /\ k.ctrlUp = blk[e].ctrlUp
                         /\ k.new = blk[e].new
                         /\ k.ready => blk[e].ready \/ blk[e].ctrlUp
      /\ b[2] # "RPC" => /\ k.iFileDesc = b /\ k.iRpcFd = blk[e].iRpcFd
                         /\ k.ctrlUp = TRUE /\ k.rpcUp = blk[e].rpcUp
                         /\ k.new = FALSE
                         /\ k.ready => blk[e].ready \/ blk[e].rpcUp
  <2> HIDE DEF k, r
  <2>1. CASE b[2] = "RPC"
    <3>1. k = WithRpc(blk[e], b)
      BY Zenon, <1>3, <2>1
    <3> QED BY Zenon, <1>1, <1>2, <2>1, <3>1, ConsolidatedFields
  <2>2. CASE b[2] # "RPC"
    <3>1. k = WithCtrl(blk[e], b)
      BY Zenon, <1>3, <2>2
    <3> QED BY Zenon, <1>1, <1>2, <2>2, <3>1, ConsolidatedFields
  <2> QED BY Zenon, <2>1, <2>2
<1>6. Shapes'
  <2>1. blk' \in [Socks -> Block]
    BY Zenon, <1>1, <1>2, <1>3, <1>5 DEF Consolidate, Shapes
  <2>2. info' \in [Socks -> {"none", "sent", "here", "read", "lost"}]
    BY Zenon DEF Shapes
  <2>3. select' \subseteq Socks
    BY Zenon, <1>2, <1>3 DEF Shapes, Block
  <2> QED BY Zenon, <1>1, <1>3, <2>1, <2>2, <2>3 DEF Shapes
<1>7. NotYetAccepted'
  <2>1. ASSUME NEW t \in Socks, sock'[t] \in {"none", "backlog"}
        PROVE  t \notin blocks' /\ blk'[t] = NewBlk(t) /\ info'[t] # "read"
    <3>1. t \notin blocks /\ blk[t] = NewBlk(t) /\ info[t] # "read"
      BY Zenon, <1>3, <2>1 DEF NotYetAccepted
    <3>2. t # e /\ t # b
      BY Zenon, <1>1, <1>2, <3>1
    <3> QED BY Zenon, <1>3, <1>4, <3>1, <3>2
  <2> QED BY Zenon, <1>3, <2>1 DEF NotYetAccepted
<1>8. Known(blk[e])'
  <2>1. /\ blk[e].iFileDesc # NoSock => blk[e].iFileDesc \in Socks
        /\ blk[e].iRpcFd # NoSock => blk[e].iRpcFd \in Socks
    BY Zenon, <1>2 DEF Block
  <2>2. \A s \in Socks : info[s] = "read" => info'[s] = "read"
    BY Zenon, <1>4
  <2>3. /\ blk[e].ctrlUp = (blk[e].iFileDesc # NoSock)
        /\ blk[e].rpcUp = (blk[e].iRpcFd # NoSock)
        /\ blk[e].new = ~blk[e].ctrlUp
        /\ blk[e].ready => blk[e].ctrlUp /\ blk[e].rpcUp
        /\ blk[e].ctrlUp => /\ blk[e].iFileDesc[2] = "CTRL"
                            /\ info'[blk[e].iFileDesc] = "read"
                            /\ RuntimeOf[blk[e].iFileDesc[1]] = r
        /\ blk[e].rpcUp => /\ blk[e].iRpcFd[2] = "RPC"
                           /\ info'[blk[e].iRpcFd] = "read"
                           /\ RuntimeOf[blk[e].iRpcFd[1]] = r
    BY Zenon, <1>2, <2>1, <2>2 DEF Known, Channel
  <2> HIDE DEF HandshakeInv, k, r
  <2>4. CASE b[2] = "RPC"
    <3>1. /\ k.runtime = r /\ k.iRpcFd = b /\ k.iFileDesc = blk[e].iFileDesc
          /\ k.rpcUp = TRUE /\ k.ctrlUp = blk[e].ctrlUp /\ k.new = blk[e].new
          /\ k.ready => blk[e].ready \/ blk[e].ctrlUp
      BY Zenon, <1>5, <2>4
    <3>2. Channel(blk[e].iFileDesc, "CTRL", blk[e].ctrlUp, blk[e])'
      BY Zenon, <2>3, <3>1 DEF Channel, k
    <3>3. Channel(blk[e].iRpcFd, "RPC", blk[e].rpcUp, blk[e])'
      BY Zenon, <1>1, <1>4, <2>4, <3>1 DEF Channel, k, r
    <3> QED BY Zenon, <1>1, <2>3, <3>1, <3>2, <3>3 DEF Known, k
  <2>5. CASE b[2] # "RPC"
    <3>1. /\ k.runtime = r /\ k.iFileDesc = b /\ k.iRpcFd = blk[e].iRpcFd
          /\ k.ctrlUp = TRUE /\ k.rpcUp = blk[e].rpcUp /\ k.new = FALSE
          /\ k.ready => blk[e].ready \/ blk[e].rpcUp
      BY Zenon, <1>5, <2>5
    <3>2. Channel(blk[e].iRpcFd, "RPC", blk[e].rpcUp, blk[e])'
      BY Zenon, <2>3, <3>1 DEF Channel, k
    <3>3. Channel(blk[e].iFileDesc, "CTRL", blk[e].ctrlUp, blk[e])'
      BY Zenon, <1>1, <1>4, <2>5, <3>1 DEF Channel, k, r
    <3> QED BY Zenon, <1>1, <2>3, <3>1, <3>2, <3>3 DEF Known, k
  <2> QED BY Zenon, <2>4, <2>5
<1>9. BlocksInv'
  <2>1. ASSUME NEW c \in blocks \ {b}, c # e
        PROVE  \/ blk'[c] = NewBlk(c) /\ info'[c] # "read"
               \/ Known(blk[c])'
    <3>1. blk'[c] = blk[c]
      BY Zenon, <1>3, <2>1 DEF Shapes
    <3> QED BY Zenon, <1>1, <3>1, OthersKnown
  <2> QED BY Zenon, <1>3, <1>8, <2>1 DEF BlocksInv
<1>10. OneKnown'
  <2>1. \A c \in blocks : blk'[c].runtime = blk[c].runtime
    BY Zenon, <1>2, <1>3, <1>5 DEF Shapes
  <2> QED BY SMTT(30), <1>3, <2>1 DEF OneKnown
<1>11. OpenChannels'
  <2>1. \A c \in blocks \ {e} : blk'[c] = blk[c]
    BY Zenon, <1>3 DEF Shapes
  <2>2. \A t \in Socks : t \in {k.iFileDesc, k.iRpcFd} =>
            t = b \/ t \in {blk[e].iFileDesc, blk[e].iRpcFd}
    BY Zenon, <1>5
  <2>3. \A t \in Socks : t \in {k.iFileDesc, k.iRpcFd} => sock[t] = "accepted"
    BY Zenon, <1>1, <1>2, <2>2 DEF OpenChannels
  <2>4. \A t \in select' : sock[t] = "accepted"
    BY Zenon, <1>2, <1>3 DEF OpenChannels, Block
  <2> QED BY Zenon, <1>3, <2>1, <2>3, <2>4 DEF OpenChannels
<1>12. AllHeld'
  <2> SUFFICES ASSUME NEW t \in Socks, sock'[t] = "accepted", ConnectsOnce(t[1])
               PROVE  Held(t)'
    BY Zenon DEF AllHeld, ConnectsOnce
  <2>1. CASE t = b
    <3>1. e \in Owners(t)'
      BY Zenon, <1>2, <1>3, <1>5, <2>1 DEF Owners
    <3>2. b \in select'
      BY Zenon, <1>3
    <3> QED BY Zenon, <2>1, <3>1, <3>2 DEF Held
  <2>2. CASE t # b
    <3>1. PICK c \in Owners(t) : t \in select \/ (blk[c].new /\ blk[c].iRpcFd = t)
      BY Zenon, <1>3 DEF AllHeld, Held
    <3>2. c \in blocks /\ c \in Socks /\ c # b /\ t \in {blk[c].iFileDesc, blk[c].iRpcFd}
      <4>1. blk[b].iFileDesc = b /\ blk[b].iRpcFd = NoSock /\ t # NoSock
        BY Zenon, <1>1, NewBlkFacts, SockFacts
      <4>2. b \notin Owners(t)
        BY Zenon, <2>2, <4>1 DEF Owners
      <4> QED BY Zenon, <3>1, <4>2 DEF Owners, Shapes
    <3>3. t \in select => t \in select'
      BY Zenon, <1>3
    <3>4. CASE c # e
      <4>1. blk'[c] = blk[c] /\ c \in Owners(t)'
        BY Zenon, <1>3, <3>2, <3>4 DEF Owners
      <4> QED BY Zenon, <3>1, <3>3, <4>1 DEF Held
    <3>5. CASE c = e
      <4>1. RuntimeOf[t[1]] = r /\ t[1] = b[1]
        <5>1. RuntimeOf[t[1]] = r
          BY Zenon, <1>2, <3>2, <3>5, KnownChannels
        <5> QED BY Zenon, <1>1, <5>1 DEF ConnectsOnce
      <4>2. t[2] # b[2]
        BY Zenon, <1>1, <2>2, <4>1, SockFacts
      <4>3. /\ t = blk[e].iFileDesc => t[2] = "CTRL"
            /\ t = blk[e].iRpcFd => t[2] = "RPC"
        BY Zenon, <1>2, SockFacts DEF Known, Channel
      <4>4. CASE b[2] = "RPC"
        <5>1. t = blk[e].iFileDesc /\ t # blk[e].iRpcFd
          BY Zenon, <3>2, <3>5, <4>2, <4>3, <4>4
        <5>2. e \in Owners(t)' /\ t \in select'
          BY Zenon, <1>2, <1>3, <1>5, <3>1, <3>3, <3>5, <4>4, <5>1 DEF Owners
        <5> QED BY Zenon, <5>2 DEF Held
      <4>5. CASE b[2] # "RPC"
        <5>1. t = blk[e].iRpcFd /\ t # NoSock
          BY Zenon, <1>1, <3>2, <3>5, <4>2, <4>3, <4>5, SockFacts
        <5>2. e \in Owners(t)'
          BY Zenon, <1>2, <1>3, <1>5, <4>5, <5>1 DEF Owners
        <5>3. t \in select'
          BY Zenon, <1>3, <4>5, <5>1
        <5> QED BY Zenon, <5>2, <5>3 DEF Held
      <4> QED BY Zenon, <4>4, <4>5
    <3> QED BY Zenon, <3>4, <3>5
  <2> QED BY Zenon, <2>1, <2>2
<1> QED BY Zenon, <1>6, <1>7, <1>9, <1>10, <1>11, <1>12

\* Every step keeps the invariant.
LEMMA HandshakeInvNext == HandshakeInv /\ [Next]_vars => HandshakeInv'
<1> SUFFICES ASSUME HandshakeInv, [Next]_vars PROVE HandshakeInv'
  BY Zenon
<1> USE DEF HandshakeInv
<1>1. ASSUME NEW s \in Socks, FarConnects(s) PROVE HandshakeInv'
  <2>1. /\ far[s] = "none" /\ far' = [far EXCEPT ![s] = "open"]
        /\ sock' = [sock EXCEPT ![s] = "backlog"] /\ UNCHANGED <<info, select, blocks, blk>>
    BY Zenon, <1>1 DEF FarConnects, EstablishTCPConnection
  <2>2. sock[s] = "none"
    BY Zenon, <2>1 DEF NotYetAccepted
  <2>3. Shapes'
    BY Zenon, <2>1 DEF Shapes
  <2> QED BY SMTT(30), <2>1, <2>2, <2>3, FarKeeps DEF Shapes
<1>2. ASSUME NEW s \in Socks, FarSends(s) \/ Arrives(s) \/ Reset(s) PROVE HandshakeInv'
  <2>1. /\ info[s] \in {"none", "sent"} /\ UNCHANGED <<sock, select, blocks, blk>>
        /\ \/ far' = far
           \/ far[s] = "open" /\ far' = [far EXCEPT ![s] = "closed"]
        /\ \E x \in {"sent", "here", "lost"} : info' = [info EXCEPT ![s] = x]
    BY Zenon, <1>2 DEF FarSends, Arrives, Reset
  <2>2. Shapes'
    BY Zenon, <2>1 DEF Shapes
  <2> QED BY SMTT(30), <2>1, <2>2, FarKeeps DEF Shapes
<1>3. ASSUME NEW p \in Pairs, FarCloses(p) PROVE HandshakeInv'
  <2>1. /\ far' = [s \in Socks |-> IF s[1] = p THEN "closed" ELSE far[s]]
        /\ UNCHANGED <<info, sock, select, blocks, blk>>
    BY Zenon, <1>3 DEF FarCloses
  <2>2. Shapes'
    BY Zenon, <2>1 DEF Shapes
  <2> QED BY Zenon, <2>1, <2>2, FarKeeps DEF Shapes
<1>4. ASSUME NEW s \in Socks, Accept(s) PROVE HandshakeInv'
  BY Zenon, <1>4, AcceptKeeps
<1>5. ASSUME NEW b \in Socks, ProcessNew(b) PROVE HandshakeInv'
  <2>1. b \in NewAgents /\ blk[b].iFileDesc \in select /\ far' = far
    BY Zenon, <1>5 DEF ProcessNew
  <2>2. blk[b].iFileDesc = b /\ b \in blocks
    BY Zenon, <2>1, ReadOfNew
  <2>3. \/ /\ info[b] = "here" /\ info' = [info EXCEPT ![b] = "read"]
           /\ \/ \E e \in Existing(RuntimeOf[b[1]]) : Consolidate(b, e, b[2] = "RPC")
              \/ /\ Existing(RuntimeOf[b[1]]) = {}
                 /\ Identify(b, RuntimeOf[b[1]], b[2] = "RPC")
        \/ ReleaseDead(b) /\ UNCHANGED info
    BY Zenon, <1>5, <2>2 DEF ProcessNew
  <2> QED BY Zenon, <2>1, <2>2, <2>3, ConsolidateKeeps, IdentifyKeeps, ReleaseKeeps DEF farVars
<1>6. ASSUME NEW b \in Socks, ProcessConnection(b) \/ HandshakeTimeout(b)
      PROVE  HandshakeInv'
  BY Zenon, <1>6, ReleaseKeeps DEF ProcessConnection, HandshakeTimeout
<1>7. CASE UNCHANGED vars
  BY Zenon, <1>7, FarKeeps DEF vars, farVars, Shapes
<1> QED BY Zenon, <1>1, <1>2, <1>3, <1>4, <1>5, <1>6, <1>7 DEF Next

-----------------------------------------------------------------------------

\* Every socket the listener accepts keeps one owner until it is closed, for any
\* number of peers that connect, drop, are reset and time out in any order
\* (process_msg_session_info and the helpers of the listener loop).
THEOREM ChannelsAreOwned == Spec => []ChannelsOwned
<1>1. HandshakeInv => ChannelsOwned
  <2> SUFFICES ASSUME HandshakeInv PROVE ChannelsOwned
    BY Zenon
  <2> USE DEF HandshakeInv
  <2>1. ASSUME NEW s \in Socks, sock[s] = "accepted"
        PROVE  /\ \A b, c \in Owners(s) : b = c
               /\ ConnectsOnce(s[1]) =>
                    \E b \in Owners(s) :
                        s \in select \/ (blk[b].new /\ blk[b].iRpcFd = s)
    <3>1. \A b, c \in Owners(s) : b = c
      BY Zenon, OneOwner
    <3> QED BY Zenon, <2>1, <3>1 DEF AllHeld, Held
  <2>2. \A s \in select : sock[s] = "accepted"
    BY Zenon DEF OpenChannels
  <2>3. ASSUME NEW b \in blocks, blk[b].ready
        PROVE  /\ ~blk[b].new
               /\ \E p, q \in Pairs : /\ blk[b].iFileDesc = Ctrl(p)
                                      /\ blk[b].iRpcFd = Rpc(q)
                                      /\ RuntimeOf[p] = blk[b].runtime
                                      /\ RuntimeOf[q] = blk[b].runtime
    <3>1. b \in Socks /\ blk[b] \in Block /\ Known(blk[b])
      BY Zenon, <2>3, KnownOrNew, NewBlkFacts
    <3>2. /\ ~blk[b].new /\ blk[b].iFileDesc \in Socks /\ blk[b].iRpcFd \in Socks
          /\ blk[b].iFileDesc[2] = "CTRL" /\ blk[b].iRpcFd[2] = "RPC"
          /\ RuntimeOf[blk[b].iFileDesc[1]] = blk[b].runtime
          /\ RuntimeOf[blk[b].iRpcFd[1]] = blk[b].runtime
      BY Zenon, <2>3, <3>1 DEF Known, Channel, Block
    <3> QED BY SMTT(30), <3>2, SockFacts DEF Ctrl, Rpc
  <2> QED BY Zenon, <2>1, <2>2, <2>3 DEF ChannelsOwned
<1> QED BY <1>1, HandshakeInvInit, HandshakeInvNext, PTL DEF Spec

-----------------------------------------------------------------------------
(* The descriptors that the listener waits for. *)

INSTANCE WellFoundedInduction

\* The lowest free descriptor exists.
LEMMA LowestExists ==
    ASSUME NEW T, T \subseteq Nat, T # {}
    PROVE  S!Min(T) \in T /\ \A y \in T : S!Min(T) <= y
<1>1. \E x \in T : \A y \in T : ~ (<<y, x>> \in OpToRel(<, Nat))
  BY Zenon, NatLessThanWellFounded, WFMin
<1>2. PICK x \in T : \A y \in T : ~ (<<y, x>> \in OpToRel(<, Nat))
  BY Zenon, <1>1
<1>3. ASSUME NEW y \in T PROVE x <= y
  <2>1. ~(y < x)
    BY Zenon, <1>2 DEF OpToRel
  <2> QED BY SMTT(30), <2>1
<1>4. \E z \in T : \A y \in T : z <= y
  BY Zenon, <1>3
<1> QED BY Zenon, <1>4 DEF S!Min

\* The highest descriptor of some connections exists.
LEMMA HighestExists ==
    ASSUME NEW T, T \subseteq Fds, NEW l \in Int, l >= -1
    PROVE  S!Max({l} \cup T) \in Int /\ \A y \in {l} \cup T : y <= S!Max({l} \cup T)
<1>1. PICK n \in Fds : \A f \in Fds : f <= n
  BY Zenon, DescriptorsAssumption
<1>2. n \in Nat /\ Fds \subseteq Nat
  BY Zenon, <1>1, DescriptorsAssumption
<1> DEFINE top == IF n >= l THEN n ELSE l
           U == {l} \cup T
           Mirror == {k \in Nat : \E x \in U : k = top - x}
<1>3. top \in Int /\ top >= l /\ \A x \in U : x \in Int /\ x <= top
  BY SMTT(30), <1>1, <1>2
<1>4. Mirror \subseteq Nat /\ Mirror # {}
  <2>1. l \in U /\ top - l \in Nat
    BY SMTT(30), <1>3
  <2> HIDE DEF top, U
  <2>2. top - l \in Mirror
    BY Zenon, <2>1
  <2> QED BY Zenon, <2>2
<1>5. PICK k \in Mirror : \A y \in Mirror : k <= y
  BY Zenon, <1>4, LowestExists
<1>6. PICK x \in U : k = top - x
  BY Zenon
<1>7. \A y \in U : y <= x
  <2> SUFFICES ASSUME NEW y \in U PROVE y <= x
    BY Zenon
  <2>1. top - y \in Mirror
    BY SMTT(30), <1>3
  <2> QED BY SMTT(30), <1>3, <1>5, <1>6, <2>1
<1>8. \E z \in U : \A y \in U : z >= y
  BY Zenon, <1>3, <1>7
<1>9. S!Max(U) \in U /\ \A y \in U : S!Max(U) >= y
  BY Zenon, <1>8 DEF S!Max
<1> QED BY Zenon, <1>3, <1>9

\* Both bounds of select() are above the connections.
LEMMA BoundsHold ==
    ASSUME NEW T, T \subseteq Fds
    PROVE  /\ S!AgentHighest(T) \in Int /\ \A y \in T : y <= S!AgentHighest(T)
           /\ S!Highest(T) \in Int /\ \A y \in T : y <= S!Highest(T)
<1>1. /\ S!Max({-1} \cup T) \in Int
      /\ \A y \in {-1} \cup T : y <= S!Max({-1} \cup T)
  <2>1. -1 \in Int /\ -1 >= -1
    OBVIOUS
  <2> QED BY Zenon, <2>1, HighestExists
<1>2. /\ S!Max({ListenFd} \cup T) \in Int
      /\ \A y \in {ListenFd} \cup T : y <= S!Max({ListenFd} \cup T)
  <2>1. ListenFd \in Int /\ ListenFd >= -1
    BY SMTT(30), DescriptorsAssumption
  <2> QED BY Zenon, <2>1, HighestExists
<1> QED BY Zenon, <1>1, <1>2 DEF S!AgentHighest, S!Highest

\* The connections whose descriptors belong into the set.
Settled == table \ adding

SelectShapes ==
    /\ table \subseteq Fds \ {ListenFd} /\ ended \subseteq table /\ maxFd \in Int

\* While nothing disturbed the set: it has the settled connections and the
\* listening socket, or the listener is about to write them (word), and nothing
\* else; and so has what the listener waits for or handles (snap).
SetInv ==
    ~signalled /\ ~raced =>
        /\ loop # "shutdown" /\ adding \subseteq table
        /\ ListenFd \in allSet /\ allSet \subseteq Settled \cup {ListenFd}
        /\ snap \subseteq Settled \cup {ListenFd}
        /\ loop # "set" => /\ Settled \subseteq allSet
                           /\ \A f \in Settled : f <= maxFd
        /\ loop = "set" => /\ ListenFd \in word
                           /\ word \subseteq Settled \cup {ListenFd}
                           /\ Settled \subseteq word

SelectInv == SelectShapes /\ SetInv

\* A free descriptor is no connection's.
LEMMA LowestFree ==
    ASSUME S!Free # {}
    PROVE  S!Min(S!Free) \in Fds \ (table \cup {ListenFd})
BY Zenon, LowestExists, DescriptorsAssumption DEF S!Free

\* The listener waits for the listening socket before anybody connects.
LEMMA SelectInvInit == S!Init => SelectInv
BY SMTT(30), DescriptorsAssumption DEF S!Init, SelectInv, SelectShapes, SetInv, Settled

\* Neither set nor connections change.
LEMMA SelectFrame ==
    ASSUME SelectInv, UNCHANGED <<table, adding, allSet, maxFd, word, raced, signalled>>,
           ended' \subseteq table,
           loop' = loop \/ ({loop, loop'} \subseteq {"top", "select", "read"}),
           snap' \subseteq snap \cup allSet
    PROVE  SelectInv'
BY Zenon DEF SelectInv, SelectShapes, SetInv, Settled

\* A channel that the listener does not wait for is closed.
LEMMA CloseKeeps ==
    ASSUME SelectInv, NEW f \in table, S!CloseChannel(f), adding' = adding, loop' = loop,
           signalled' = signalled, raced => raced',
           ~signalled /\ ~raced' => f \notin adding /\ f \notin snap' /\ loop # "set"
                                    /\ snap' \subseteq snap
    PROVE  SelectInv'
<1> USE DEF SelectInv
<1>1. table \ {f} \subseteq Fds /\ f # ListenFd
  BY Zenon DEF SelectShapes
<1>2. maxFd' \in Int /\ \A g \in table \ {f} : g <= maxFd'
  BY Zenon, <1>1, BoundsHold DEF S!CloseChannel
<1>3. SelectShapes'
  BY Zenon, <1>2 DEF SelectShapes, S!CloseChannel
<1>4. SetInv'
  <2> SUFFICES ASSUME ~signalled, ~raced' PROVE SetInv'
    BY Zenon DEF SetInv
  <2>1. Settled' = Settled \ {f} /\ allSet' = allSet \ {f}
    BY Zenon DEF Settled, S!CloseChannel
  <2>2. Settled' \subseteq table \ {f}
    BY Zenon, <2>1 DEF Settled
  <2> QED BY Zenon, <1>1, <1>2, <2>1, <2>2 DEF SetInv, S!CloseChannel
<1> QED BY Zenon, <1>3, <1>4

\* Every step keeps the invariant.
LEMMA SelectInvNext == SelectInv /\ [S!Next]_(S!vars) => SelectInv'
<1> SUFFICES ASSUME SelectInv, [S!Next]_(S!vars) PROVE SelectInv'
  BY Zenon
<1>1. CASE S!ClientConnects \/ UNCHANGED S!vars
  BY Zenon, <1>1, SelectFrame DEF S!ClientConnects, S!vars, S!sets, SelectInv, SelectShapes
<1>2. CASE S!CopySet \/ S!NoAccept \/ S!LoopEnds
  BY Zenon, <1>2, SelectFrame DEF S!CopySet, S!NoAccept, S!LoopEnds, S!sets, S!Watched,
       SelectInv, SelectShapes
<1>3. CASE S!SelectFails
  BY Zenon, <1>3 DEF S!SelectFails, S!GoodDescriptors, S!Watched, SelectInv, SelectShapes,
       SetInv, Settled
<1>4. CASE S!Accept
  <2> DEFINE n == S!Min(S!Free)
  <2>1. n \in Fds \ (table \cup {ListenFd})
    BY Zenon, <1>4, LowestFree DEF S!Accept
  <2> HIDE DEF n
  <2>2. /\ table' = table \cup {n} /\ word' = allSet \cup {n} /\ snap' \subseteq snap
        /\ loop = "select" /\ loop' = "set"
        /\ UNCHANGED <<adding, allSet, maxFd, ended, raced, signalled>>
    BY Zenon, <1>4 DEF S!Accept, S!sets, S!Watched, n
  <2> QED BY Zenon, <2>1, <2>2 DEF SelectInv, SelectShapes, SetInv, Settled
<1>5. CASE S!AcceptSet
  <2>1. maxFd' \in Int /\ \A g \in table : g <= maxFd'
    BY Zenon, <1>5, BoundsHold DEF S!AcceptSet, SelectInv, SelectShapes
  <2> QED BY Zenon, <1>5, <2>1 DEF S!AcceptSet, SelectInv, SelectShapes, SetInv, Settled
<1>6. CASE S!ThreadInserts
  <2> DEFINE n == S!Min(S!Free)
  <2>1. n \in Fds \ (table \cup {ListenFd})
    BY Zenon, <1>6, LowestFree DEF S!ThreadInserts
  <2> HIDE DEF n
  <2>2. /\ table' = table \cup {n} /\ adding = {} /\ adding' = {n}
        /\ UNCHANGED <<allSet, maxFd, snap, loop, word, ended, raced, signalled>>
    BY Zenon, <1>6 DEF S!ThreadInserts, S!sets, n
  <2>3. Settled' = Settled
    BY Zenon, <2>1, <2>2 DEF Settled
  <2> QED BY Zenon, <2>1, <2>2, <2>3 DEF SelectInv, SelectShapes, SetInv
<1>7. CASE S!ThreadSets
  <2>1. maxFd' \in Int /\ \A g \in table : g <= maxFd'
    BY Zenon, <1>7, BoundsHold DEF S!ThreadSets, SelectInv, SelectShapes
  <2> QED BY Zenon, <1>7, <2>1 DEF S!ThreadSets, SelectInv, SelectShapes, SetInv, Settled
<1>8. ASSUME NEW f \in Fds, S!PeerEnds(f) PROVE SelectInv'
  BY Zenon, <1>8, SelectFrame DEF S!PeerEnds, S!sets, SelectInv, SelectShapes
<1>9. ASSUME NEW f \in Fds, S!ReadEnd(f) PROVE SelectInv'
  <2>1. CASE f \in ended
    BY Zenon, <1>9, <2>1, CloseKeeps DEF S!ReadEnd, SelectInv, SelectShapes, SetInv, Settled
  <2>2. CASE f \notin ended
    BY Zenon, <1>9, <2>2, SelectFrame DEF S!ReadEnd, S!sets, SelectInv, SelectShapes
  <2> QED BY Zenon, <2>1, <2>2
<1>10. ASSUME NEW f \in Fds, S!SenderCloses(f) PROVE SelectInv'
  BY Zenon, <1>10, CloseKeeps DEF S!SenderCloses
<1> QED BY SMTT(30), <1>1, <1>2, <1>3, <1>4, <1>5, <1>6, <1>7, <1>8, <1>9, <1>10 DEF S!Next

\* For any number of descriptors and clients, whatever is opened and closed and
\* by whom: the listener waits for every connection and for new ones, and its
\* select() does not fail, until a signal or one of the two races
\* (defw_listener_main, close_agent_channel_unlocked,
\* defw_connect_to_agent_thread).
THEOREM EverythingIsHeard == S!Spec => []HearsEverything
<1>1. SelectInv => HearsEverything
  <2> SUFFICES ASSUME SelectInv PROVE S!HearsEverything
    BY Zenon DEF HearsEverything
  <2>1. ListenFd \in Int /\ \A f \in table : f \in Int
    BY SMTT(30), DescriptorsAssumption DEF SelectInv, SelectShapes
  <2> QED BY SMTT(30), <2>1 DEF S!HearsEverything, SelectInv, SelectShapes, SetInv, Settled
<1> QED BY <1>1, SelectInvInit, SelectInvNext, PTL DEF S!Spec

-----------------------------------------------------------------------------
(* The timers. *)

\* Nobody is connected in the first iteration, where time_1 is not assigned; and
\* the age that is compared is the time since the peer was heard.  The last
\* iteration has sent its heartbeats.
TimerInv ==
    /\ first \in BOOLEAN /\ peerConn \in [Peers -> {"none", "new", "ready", "dropped"}]
    /\ age \in [Peers -> Nat] /\ silent = age
    /\ first => \A p \in Peers : peerConn[p] = "none"
    /\ ~first /\ dur >= HbTo => \A p \in Peers : peerConn[p] = "ready" => p \in tx

\* Ages stay numbers.
LEMMA CappedIsNat == \A n \in Nat : H!Capped(n) \in Nat
<1> SUFFICES ASSUME NEW n \in Nat PROVE H!Min({n, Cap}) \in Nat
  BY Zenon DEF H!Capped
<1>1. \E x \in {n, Cap} : \A y \in {n, Cap} : x <= y
  BY SMTT(30), TimersAssumption
<1>2. H!Min({n, Cap}) \in {n, Cap}
  BY Zenon, <1>1 DEF H!Min
<1> QED BY Zenon, <1>2, TimersAssumption

\* No peer is connected when the listener starts.
LEMMA TimerInvInit == H!Init => TimerInv
BY SMTT(30) DEF H!Init, TimerInv

\* An iteration drops who was silent before it began, and no others.
LEMMA IterationIsRight ==
    ASSUME TimerInv, NEW d \in 0 .. MaxIter,
           NEW heard \in SUBSET {p \in Peers : alive[p] /\ peerConn[p] = "ready"},
           NEW greets \in SUBSET {p \in Peers : alive[p] /\ peerConn[p] = "new"},
           NEW accepted \in SUBSET {p \in Peers : alive[p] /\ peerConn[p] = "none"},
           H!Iterate(d, heard, greets, accepted)
    PROVE  /\ TimerInv'
           /\ \A p \in Peers : peerConn'[p] = "dropped" /\ peerConn[p] # "dropped" =>
                silent'[p] - dur' >= (IF peerConn[p] = "new" THEN Deadline ELSE Stale)
           /\ ~first /\ dur' >= HbTo =>
                \A p \in Peers : peerConn'[p] = "ready" => p \in tx'
<1> DEFINE came == heard \cup greets \cup accepted
           now == [p \in Peers |-> IF p \in accepted THEN "new"
                                   ELSE IF p \in greets THEN "ready"
                                   ELSE peerConn[p]]
<1>1. PICK t1 \in H!Time1(d) :
        /\ age' = [p \in Peers |-> IF p \in came THEN 0 ELSE H!Capped(age[p] + d)]
        /\ silent' = [p \in Peers |-> IF p \in came THEN 0 ELSE H!Capped(silent[p] + d)]
        /\ peerConn' = [p \in Peers |->
               IF H!CheckRuns(t1) /\ H!Expired(now[p], t1, age'[p])
               THEN "dropped" ELSE now[p]]
        /\ tx' = IF H!HeartbeatsDue(t1, accepted)
                 THEN {p \in Peers : peerConn'[p] = "ready"} ELSE {}
        /\ first' = FALSE /\ dur' = d
  BY Zenon DEF H!Iterate
<1>2. /\ t1 \in Int /\ d \in Nat /\ (~first => t1 = d)
      /\ {HbTo, Stale, Deadline, MaxIter, Cap} \subseteq Nat \ {0}
  BY SMTT(30), TimersAssumption DEF H!Time1, TimerInv
<1>3. age' \in [Peers -> Nat] /\ silent' = age'
  BY SMTT(30), <1>1, <1>2, CappedIsNat DEF TimerInv
<1>4. now \in [Peers -> {"none", "new", "ready", "dropped"}]
  BY Zenon DEF TimerInv
<1> HIDE DEF now
<1>5. ASSUME dur' >= HbTo, NEW p \in Peers, peerConn'[p] = "ready" PROVE p \in tx'
  <2>1. ~first
    <3>1. now[p] = "ready"
      BY Zenon, <1>1, <1>5
    <3> QED BY Zenon, <3>1 DEF now, TimerInv
  <2> QED BY SMTT(30), <1>1, <1>2, <1>5, <2>1 DEF H!HeartbeatsDue
<1>6. ASSUME NEW p \in Peers, peerConn'[p] = "dropped", peerConn[p] # "dropped"
      PROVE  silent'[p] - dur' >= (IF peerConn[p] = "new" THEN Deadline ELSE Stale)
  <2>1. now[p] = IF p \in accepted THEN "new"
                 ELSE IF p \in greets THEN "ready" ELSE peerConn[p]
    BY Zenon DEF now
  <2>2. t1 >= Stale /\ H!Expired(now[p], t1, age'[p])
    BY Zenon, <1>1, <1>6, <2>1 DEF H!CheckRuns
  <2>3. \/ now[p] = "new" /\ age'[p] - t1 >= Deadline
        \/ now[p] = "ready" /\ age'[p] - t1 >= Stale
    BY Zenon, <2>2 DEF H!Expired
  <2>4. age'[p] > 0 /\ age'[p] \in Nat
    BY SMTT(30), <1>2, <1>3, <2>2, <2>3
  <2>5. p \notin came
    BY SMTT(30), <1>1, <2>4
  <2>6. now[p] = peerConn[p]
    BY Zenon, <2>1, <2>5
  <2>7. ~first
    BY Zenon, <2>3, <2>6 DEF TimerInv
  <2> QED BY SMTT(30), <1>1, <1>2, <1>3, <2>3, <2>6, <2>7
<1>7. TimerInv'
  <2>1. peerConn' \in [Peers -> {"none", "new", "ready", "dropped"}]
    BY <1>1, <1>4
  <2>2. first' = FALSE
    BY Zenon, <1>1
  <2>3. dur' >= HbTo => \A p \in Peers : peerConn'[p] = "ready" => p \in tx'
    BY Zenon, <1>5
  <2> QED BY Zenon, <1>3, <2>1, <2>2, <2>3 DEF TimerInv
<1> QED BY Zenon, <1>5, <1>6, <1>7

\* For any peers and any values of the three times: the timers hold neither a
\* stall of this process nor the unassigned time_1 of the first iteration
\* against a peer, and an idle iteration sends heartbeats to every ready peer
\* (agent_hb_check, agent_liveness_check_helper and send_hb_to_agents in
\* defw_listener_main).
THEOREM TimersHold == H!Spec => TimersAreRight
<1> DEFINE A == /\ \A p \in Peers : peerConn'[p] = "dropped" /\ peerConn[p] # "dropped" =>
                     silent'[p] - dur' >= (IF peerConn[p] = "new" THEN Deadline ELSE Stale)
                /\ ~first /\ dur' >= HbTo =>
                     \A p \in Peers : peerConn'[p] = "ready" => p \in tx'
<1>1. TimerInv /\ [H!Next]_(H!vars) => TimerInv' /\ [A]_(H!vars)
  <2> SUFFICES ASSUME TimerInv, [H!Next]_(H!vars) PROVE TimerInv' /\ [A]_(H!vars)
    BY Zenon
  <2>1. CASE UNCHANGED H!vars
    BY Zenon, <2>1 DEF H!vars, TimerInv
  <2>2. ASSUME NEW p \in Peers, H!PeerFails(p) PROVE TimerInv' /\ A
    BY Zenon, <2>2 DEF H!PeerFails, TimerInv
  <2>3. ASSUME NEW d \in 0 .. MaxIter,
               NEW heard \in SUBSET {p \in Peers : alive[p] /\ peerConn[p] = "ready"},
               NEW greets \in SUBSET {p \in Peers : alive[p] /\ peerConn[p] = "new"},
               NEW accepted \in {{}} \cup {{p} : p \in {q \in Peers :
                                               alive[q] /\ peerConn[q] = "none"}},
               H!Iterate(d, heard, greets, accepted)
        PROVE  TimerInv' /\ A
    <3>1. accepted \in SUBSET {p \in Peers : alive[p] /\ peerConn[p] = "none"}
      BY Zenon, <2>3
    <3> QED BY Zenon, <2>3, <3>1, IterationIsRight
  <2> QED BY Zenon, <2>1, <2>2, <2>3 DEF H!Next
<1> QED BY <1>1, TimerInvInit, PTL DEF H!Spec, TimersAreRight, H!TimersAreRight
=============================================================================
