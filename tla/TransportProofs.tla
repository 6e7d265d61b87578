-------------------------- MODULE TransportProofs ---------------------------
(***************************************************************************)
(* The two ways messages travel.  On the fabric, ReadyIsKnown and          *)
(* NoUnknownSender hold for any number of RPC messages and any mix of OFI  *)
(* and TCP nodes.  On a TCP channel, FramesIntact holds for any senders,   *)
(* any length of header and body, and any socket buffer.                   *)
(*                                                                         *)
(* A process that goes down, in every run mode: FabricFindsPython needs to *)
(* know where main can be while the progress thread runs (ProgressInv).    *)
(***************************************************************************)
EXTENDS MCWire, MCRuntime, Sequences, TLAPS

\* What ReadyIsKnown rests on: a heartbeat on its way to a node was sent by a
\* node that knows it by runtime id, only such nodes report a peer ready, and
\* a fabric message on its way was sent by a node that is known.
Inv ==
    /\ TypeOK
    /\ ReadyIsKnown
    /\ NoUnknownSender
    /\ \A n \in Nodes : hb[n] > 0 => known[Other(n)]
    /\ \A n \in Nodes : ready[n] => known[n]
    /\ \A n \in Nodes : fabric[n] > 0 => known[n]

\* The two nodes are each other's peer.
LEMMA OtherNode == \A n \in Nodes : Other(n) \in Nodes /\ Other(Other(n)) = n
                                    /\ Other(n) # n
BY Zenon DEF Nodes, Other

\* maybe_insert_ofi_addr never takes an address away.
LEMMA InsertedIsFlag ==
    ASSUME TypeOK, NEW n \in Nodes
    PROVE  Inserted(n) \subseteq BOOLEAN /\ (addr[n] => Inserted(n) = {TRUE})
BY ZenonT(30) DEF TypeOK, Inserted

\* The invariant holds before anybody connects.
LEMMA InvInit == Init => Inv
BY SMTT(30), FabricAssumption DEF Init, Inv, TypeOK, ReadyIsKnown, NoUnknownSender,
   PerNode, Nodes

\* Every message and every drop preserves the invariant.
LEMMA InvNext == Inv /\ [Next]_vars => Inv'
<1> SUFFICES ASSUME Inv, [Next]_vars PROVE Inv'
  BY Zenon
<1> USE OtherNode, FabricAssumption
<1>1. ASSUME NEW ch \in {"CTRL", "RPC"}, Connect(ch) PROVE Inv'
  BY Zenon, <1>1 DEF Inv, TypeOK, ReadyIsKnown, NoUnknownSender, Connect, blkVars
<1>2. ASSUME NEW ch \in {"CTRL", "RPC"}, SessionInfo(ch) PROVE Inv'
  <2> "acceptor" \in Nodes /\ Other("acceptor") = "connector"
    BY Zenon DEF Nodes, Other
  <2> PICK ok \in Inserted("acceptor") : addr' = [addr EXCEPT !["acceptor"] = ok]
    BY ZenonT(30), <1>2 DEF SessionInfo
  <2>a. ok \in BOOLEAN /\ (addr["acceptor"] => ok)
    BY ZenonT(30), InsertedIsFlag DEF Inv
  <2>b. hb' \in [Nodes -> Nat]
    BY SMTT(30), <1>2 DEF Inv, TypeOK, SessionInfo, SendHb
  <2>c. addr' \in [Nodes -> BOOLEAN]
    BY Zenon, <2>a DEF Inv, TypeOK
  <2>d. ready' \in [Nodes -> BOOLEAN] /\ known' \in [Nodes -> BOOLEAN]
    BY ZenonT(30), <1>2 DEF Inv, TypeOK, SessionInfo
  <2>1. TypeOK'
    BY Zenon, <1>2, <2>b, <2>c, <2>d DEF Inv, TypeOK, SessionInfo
  <2>2. ReadyIsKnown'
    BY SMTT(30), <1>2, <2>a DEF Inv, TypeOK, ReadyIsKnown, SessionInfo
  <2>3. (\A n \in Nodes : hb[n] > 0 => known[Other(n)])'
    BY SMTT(30), <1>2 DEF Inv, TypeOK, SessionInfo, SendHb
  <2>4. QED
    BY SMTT(30), <1>2, <2>1, <2>2, <2>3
    DEF Inv, TypeOK, NoUnknownSender, SessionInfo
<1>3. ASSUME NEW n \in Nodes, PeriodicHb(n) PROVE Inv'
  BY SMTT(30), <1>3 DEF Inv, TypeOK, ReadyIsKnown, NoUnknownSender, PeriodicHb, SendHb,
     blkVars
<1>4. ASSUME NEW n \in Nodes, HbReceived(n) PROVE Inv'
  <2> PICK ok \in Inserted(n) : /\ addr' = [addr EXCEPT ![n] = ok]
                               /\ ofiReady' = [ofiReady EXCEPT ![n] = ok]
    BY ZenonT(30), <1>4 DEF HbReceived
  <2>a. ok \in BOOLEAN /\ (addr[n] => ok)
    BY ZenonT(30), InsertedIsFlag DEF Inv
  <2>1. TypeOK'
    BY SMTT(30), <1>4, <2>a DEF Inv, TypeOK, HbReceived
  <2>2. known[Other(n)]
    BY Zenon, <1>4 DEF Inv, HbReceived
  <2>3. ReadyIsKnown'
    BY SMTT(30), <1>4, <2>2, <2>a DEF Inv, TypeOK, ReadyIsKnown, HbReceived
  <2>4. (\A m \in Nodes : hb[m] > 0 => known[Other(m)])'
    BY Zenon, <1>4, <2>2 DEF Inv, TypeOK, HbReceived
  <2>5. QED
    BY SMTT(30), <1>4, <2>1, <2>3, <2>4
    DEF Inv, TypeOK, NoUnknownSender, HbReceived
<1>5. ASSUME NEW n \in Nodes, SendRpc(n) PROVE Inv'
  <2>1. known[Other(n)]
    BY Zenon, <1>5 DEF Inv, ReadyIsKnown, SendRpc
  <2>2. QED
    BY SMTT(30), <1>5, <2>1
    DEF Inv, TypeOK, ReadyIsKnown, NoUnknownSender, SendRpc, blkVars
<1>6. ASSUME NEW n \in Nodes, Dispatch(n) PROVE Inv'
  BY SMTT(30), <1>6 DEF Inv, TypeOK, ReadyIsKnown, NoUnknownSender, Dispatch, blkVars
<1>7. ASSUME NEW n \in Nodes, Drop(n) PROVE Inv'
  BY Zenon, <1>7 DEF Inv, TypeOK, ReadyIsKnown, NoUnknownSender, Drop, blkVars, msgVars
<1>8. CASE UNCHANGED vars
  BY Zenon, <1>8 DEF Inv, TypeOK, ReadyIsKnown, NoUnknownSender, vars, blkVars, msgVars
<1>9. QED
  BY Zenon, <1>1, <1>2, <1>3, <1>4, <1>5, <1>6, <1>7, <1>8 DEF Next

\* In every behaviour a node that uses the fabric is known by runtime id to
\* the node it sends to (DEFW_AGENT_OFI_READY in process_msg_hb).
THEOREM UsersAreKnown == Spec => []ReadyIsKnown
BY InvInit, InvNext, PTL DEF Spec, Inv

\* In every behaviour defw_ofi_dispatch drops a message for its sender only
\* after this node dropped the connection.
THEOREM SendersAreNamed == Spec => []NoUnknownSender
BY InvInit, InvNext, PTL DEF Spec, Inv

-----------------------------------------------------------------------------
(* Sequences. *)

\* What Append does to the length and the elements, as when a sender enters the order.
LEMMA Appended ==
    ASSUME NEW T, NEW s \in Seq(T), NEW e \in T
    PROVE  /\ Append(s, e) \in Seq(T) /\ Len(Append(s, e)) = Len(s) + 1
           /\ \A i \in 1 .. Len(s) : Append(s, e)[i] = s[i]
           /\ Append(s, e)[Len(s) + 1] = e
OBVIOUS

\* What Tail and Head are, as when the reader takes a unit from the stream.
LEMMA Tailed ==
    ASSUME NEW T, NEW s \in Seq(T), s # <<>>
    PROVE  /\ Tail(s) \in Seq(T) /\ Len(Tail(s)) = Len(s) - 1 /\ Len(s) \in Nat \ {0}
           /\ \A i \in 1 .. (Len(s) - 1) : Tail(s)[i] = s[i + 1]
           /\ Head(s) = s[1] /\ s[1] \in T
OBVIOUS

\* What concatenation does, as when a write adds units to the stream.
LEMMA Joined ==
    ASSUME NEW T, NEW s \in Seq(T), NEW u \in Seq(T)
    PROVE  /\ s \o u \in Seq(T) /\ Len(s \o u) = Len(s) + Len(u)
           /\ \A i \in 1 .. Len(s) : (s \o u)[i] = s[i]
           /\ \A i \in (Len(s) + 1) .. (Len(s) + Len(u)) : (s \o u)[i] = u[i - Len(s)]
OBVIOUS

\* What SubSeq is, as when a write takes the first part of what is left.
LEMMA Cut ==
    ASSUME NEW T, NEW s \in Seq(T), NEW m \in Nat, NEW n \in Nat, m >= 1, n <= Len(s),
           m <= n + 1
    PROVE  /\ SubSeq(s, m, n) \in Seq(T) /\ Len(SubSeq(s, m, n)) = n - m + 1
           /\ \A i \in 1 .. (n - m + 1) : SubSeq(s, m, n)[i] = s[m + i - 1]
OBVIOUS

\* Sequences with the same elements are equal, as a frame and what was read of it.
LEMMA Same ==
    ASSUME NEW T, NEW s \in Seq(T), NEW u \in Seq(T), Len(s) = Len(u),
           \A i \in 1 .. Len(s) : s[i] = u[i]
    PROVE  s = u
OBVIOUS

-----------------------------------------------------------------------------
(* Frames on a channel.  A cell is a unit of a frame: whose it is and where  *)
(* it belongs.                                                               *)

FrameLen == 2 * Units
Cell(t, i) == [from |-> t, pos |-> i]
Cells == [from : Senders, pos : 1 .. FrameLen]

ChannelShapes ==
    /\ mutex \in Senders \cup {F!None}
    /\ pc \in [Senders -> {"start", "writing", "ok", "failed"}]
    /\ left \in [Senders -> Seq(Cells)]
    /\ stream \in Seq(Cells) /\ got \in Seq(Cells) /\ Len(got) <= FrameLen
    /\ delivered \in Seq(Seq(Cells)) /\ order \in Seq(Senders)
    /\ cut \in BOOLEAN /\ reader \in {"reading", "bad", "dropped"}

Started(t) == \E j \in 1 .. Len(order) : order[j] = t

\* Who writes has the mutex, and the rest of its frame to write; senders start
\* once, and the one whose frame is partly written was the last.
WriterInv ==
    /\ \A t \in Senders : pc[t] = "writing" <=> mutex = t
    /\ \A t \in Senders : pc[t] = "writing" =>
          /\ Len(left[t]) <= FrameLen
          /\ \A i \in 1 .. Len(left[t]) :
                left[t][i] = Cell(t, FrameLen - Len(left[t]) + i)
          /\ Len(left[t]) < FrameLen => Len(order) > 0 /\ order[Len(order)] = t
          /\ Len(left[t]) = FrameLen => ~Started(t)
    /\ \A t \in Senders : pc[t] = "start" => ~Started(t)
    /\ \A i, j \in 1 .. Len(order) : order[i] = order[j] => i = j

\* How far the last frame was written.
Tip == IF Len(order) > 0 /\ mutex = order[Len(order)]
       THEN FrameLen - Len(left[mutex]) ELSE FrameLen

\* In the frames of the senders o, u comes after the cell at place p of frame j.
After(o, j, p, u) ==
    IF p < FrameLen THEN j \in 1 .. Len(o) /\ u = Cell(o[j], p + 1)
    ELSE j + 1 \in 1 .. Len(o) /\ u = Cell(o[j + 1], 1)

\* The reader has the beginning of a frame, the rest of it is in the stream or
\* not written yet, and so on to the last cell written.
FlowInv ==
    /\ \A i \in 1 .. Len(got) : got[i] = Cell(order[Len(delivered) + 1], i)
    /\ Len(got) > 0 => Len(delivered) < Len(order)
    /\ Len(stream) > 0 => /\ After(order, Len(delivered) + 1, Len(got), stream[1])
                          /\ stream[Len(stream)] = Cell(order[Len(order)], Tip)
    /\ Len(stream) = 0 =>
          \/ Len(got) = 0 /\ Len(delivered) = Len(order) /\ Tip = FrameLen
          \/ Len(got) > 0 /\ Len(delivered) + 1 = Len(order) /\ Tip = Len(got)
    /\ \A i \in 1 .. Len(stream) : Started(stream[i].from)
    /\ \A i \in 1 .. (Len(stream) - 1) : \A j \in 1 .. Len(order) :
          stream[i].from = order[j] => After(order, j, stream[i].pos, stream[i + 1])

FrameInv ==
    /\ ChannelShapes /\ WriterInv /\ F!FramesIntact
    /\ ~cut /\ reader = "reading" => FlowInv

\* A header and a body are not empty.
LEMMA Sizes == /\ Units \in Nat /\ Units > 0 /\ FrameLen \in Nat
               /\ FrameLen = Units + Units /\ FrameLen > Units
BY SMTT(30), SizeAssumption DEF FrameLen

\* The cells of a frame.
LEMMA FrameFacts ==
    ASSUME NEW t \in Senders
    PROVE  /\ F!Frame(t) \in Seq(Cells) /\ Len(F!Frame(t)) = FrameLen
           /\ \A i \in 1 .. FrameLen : F!Frame(t)[i] = Cell(t, i)
<1>1. F!Frame(t) = [i \in 1 .. FrameLen |-> Cell(t, i)]
  BY Zenon DEF F!Frame, FrameLen, Cell
<1>2. \A i \in 1 .. FrameLen : Cell(t, i) \in Cells
  BY Zenon DEF Cell, Cells
<1>3. FrameLen \in Nat
  BY Zenon, Sizes
<1> QED BY SMTT(30), <1>1, <1>2, <1>3

\* Cells that are those of a frame make up the frame.
LEMMA WholeFrame ==
    ASSUME NEW t \in Senders, NEW s \in Seq(Cells), Len(s) = FrameLen,
           \A i \in 1 .. FrameLen : s[i] = Cell(t, i)
    PROVE  s = F!Frame(t) /\ SubSeq(s, Units + 1, 2 * Units) = F!Body(t)
<1>1. s = F!Frame(t)
  BY Zenon, FrameFacts, Same
<1> QED BY Zenon, <1>1 DEF F!Body

\* The first half of a frame passes for a header.
LEMMA HeaderOf ==
    ASSUME NEW t \in Senders, NEW s \in Seq(Cells), Len(s) = Units,
           \A i \in 1 .. Units : s[i] = Cell(t, i)
    PROVE  F!IsHeader(s)
<1> DEFINE h == SubSeq(F!Frame(t), 1, Units)
<1>1. /\ F!Frame(t) \in Seq(Cells) /\ Len(F!Frame(t)) = FrameLen
      /\ \A i \in 1 .. FrameLen : F!Frame(t)[i] = Cell(t, i)
  BY Zenon, FrameFacts
<1>2. h \in Seq(Cells) /\ Len(h) = Units /\ \A i \in 1 .. Units : h[i] = F!Frame(t)[i]
  BY SMTT(30), <1>1, Sizes, Cut
<1>3. s = h
  <2>1. \A i \in 1 .. Units : h[i] = Cell(t, i)
    BY SMTT(30), <1>1, <1>2, Sizes
  <2> HIDE DEF h
  <2> QED BY Zenon, <1>2, <2>1, Same
<1> QED BY Zenon, <1>3 DEF F!IsHeader

\* What a write does to the stream, to the rest of the frame and to the order.
LEMMA WriteEffect ==
    ASSUME ChannelShapes, WriterInv, NEW t \in Senders, F!Write(t)
    PROVE  \E n \in 1 .. Len(left[t]) :
             /\ mutex = t /\ left[t] \in Seq(Cells) /\ Len(left[t]) \in 1 .. FrameLen
             /\ stream' \in Seq(Cells) /\ Len(stream') = Len(stream) + n
             /\ \A i \in 1 .. Len(stream) : stream'[i] = stream[i]
             /\ \A i \in 1 .. n : stream'[Len(stream) + i]
                                    = Cell(t, FrameLen - Len(left[t]) + i)
             /\ left' \in [Senders -> Seq(Cells)] /\ Len(left'[t]) = Len(left[t]) - n
             /\ \A i \in 1 .. Len(left'[t]) :
                   left'[t][i] = Cell(t, FrameLen - Len(left'[t]) + i)
             /\ \A u \in Senders \ {t} : left'[u] = left[u]
             /\ order' = IF Len(left[t]) = FrameLen THEN Append(order, t) ELSE order
<1>1. /\ pc[t] = "writing" /\ mutex = t /\ left[t] \in Seq(Cells) /\ left[t] # <<>>
      /\ Len(left[t]) <= FrameLen
      /\ \A i \in 1 .. Len(left[t]) : left[t][i] = Cell(t, FrameLen - Len(left[t]) + i)
  BY Zenon DEF F!Write, ChannelShapes, WriterInv
<1>2. PICK n \in 1 .. Len(left[t]) :
        /\ stream' = stream \o SubSeq(left[t], 1, n)
        /\ left' = [left EXCEPT ![t] = SubSeq(left[t], n + 1, Len(left[t]))]
  BY Zenon DEF F!Write
<1>3. Len(left[t]) \in 1 .. FrameLen /\ n \in Nat /\ n >= 1 /\ n <= Len(left[t])
  BY SMTT(30), <1>1, <1>2, Sizes
<1> DEFINE a == SubSeq(left[t], 1, n)
           z == SubSeq(left[t], n + 1, Len(left[t]))
<1>4. a \in Seq(Cells) /\ Len(a) = n /\ \A i \in 1 .. n : a[i] = left[t][i]
  BY SMTT(30), <1>1, <1>3, Cut
<1>5. /\ z \in Seq(Cells) /\ Len(z) = Len(left[t]) - n
      /\ \A i \in 1 .. Len(z) : z[i] = left[t][n + i]
  BY SMTT(30), <1>1, <1>3, Cut
<1> HIDE DEF a, z
<1>6. /\ stream' \in Seq(Cells) /\ Len(stream') = Len(stream) + n
      /\ \A i \in 1 .. Len(stream) : stream'[i] = stream[i]
      /\ \A i \in 1 .. n : stream'[Len(stream) + i] = a[i]
  <2>1. stream' = stream \o a /\ stream \in Seq(Cells)
    BY Zenon, <1>2 DEF a, ChannelShapes
  <2>2. /\ stream \o a \in Seq(Cells) /\ Len(stream \o a) = Len(stream) + Len(a)
        /\ \A i \in 1 .. Len(stream) : (stream \o a)[i] = stream[i]
        /\ \A i \in (Len(stream) + 1) .. (Len(stream) + Len(a)) :
              (stream \o a)[i] = a[i - Len(stream)]
    <3>1. stream \in Seq(Cells) /\ a \in Seq(Cells)
      BY Zenon, <1>4, <2>1
    <3> HIDE DEF a
    <3> QED BY Zenon, <3>1, Joined
  <2>3. ASSUME NEW i \in 1 .. n PROVE (stream \o a)[Len(stream) + i] = a[i]
    <3>1. Len(stream) \in Nat
      BY SMTT(30), <2>1
    <3>2. Len(stream) + i \in (Len(stream) + 1) .. (Len(stream) + Len(a))
          /\ (Len(stream) + i) - Len(stream) = i
      BY SMTT(30), <1>3, <1>4, <3>1
    <3> QED BY Zenon, <2>2, <3>2
  <2> QED BY Zenon, <1>4, <2>1, <2>2, <2>3
<1>7. \A i \in 1 .. n : stream'[Len(stream) + i] = Cell(t, FrameLen - Len(left[t]) + i)
  <2>1. \A i \in 1 .. n : i \in 1 .. Len(left[t])
    BY <1>3
  <2> QED BY Zenon, <1>1, <1>4, <1>6, <2>1
<1>8. /\ left' \in [Senders -> Seq(Cells)] /\ left'[t] = z
      /\ \A u \in Senders \ {t} : left'[u] = left[u]
  BY Zenon, <1>2, <1>5 DEF ChannelShapes, z
<1>9. ASSUME NEW i \in 1 .. Len(left'[t])
      PROVE  left'[t][i] = Cell(t, FrameLen - Len(left'[t]) + i)
  <2>1. i \in 1 .. Len(z) /\ n + i \in 1 .. Len(left[t])
    BY SMTT(30), <1>3, <1>5, <1>8, <1>9
  <2>2. FrameLen - Len(left[t]) + (n + i) = FrameLen - Len(z) + i
    BY SMTT(30), <1>3, <1>5, <2>1, Sizes
  <2> QED BY Zenon, <1>1, <1>5, <1>8, <2>1, <2>2
<1>10. order' = IF Len(left[t]) = FrameLen THEN Append(order, t) ELSE order
  <2>1. left[t] = F!Frame(t) <=> Len(left[t]) = FrameLen
    <3>1. ASSUME Len(left[t]) = FrameLen PROVE left[t] = F!Frame(t)
      <4>1. \A i \in 1 .. FrameLen : left[t][i] = Cell(t, i)
        BY SMTT(30), <1>1, <3>1, Sizes
      <4> QED BY Zenon, <1>1, <3>1, <4>1, WholeFrame
    <3> QED BY Zenon, <3>1, FrameFacts
  <2> QED BY Zenon, <2>1 DEF F!Write
<1> QED BY Zenon, <1>1, <1>3, <1>5, <1>6, <1>7, <1>8, <1>9, <1>10

\* A sender is entered in the order with its first write.
LEMMA OrderGrows ==
    ASSUME ChannelShapes, WriterInv, NEW t \in Senders, pc[t] = "writing",
           order' = IF Len(left[t]) = FrameLen THEN Append(order, t) ELSE order
    PROVE  /\ order' \in Seq(Senders) /\ Len(order) \in Nat /\ Len(order') \in Nat
           /\ Len(order') > 0 /\ order'[Len(order')] = t
           /\ Len(left[t]) = FrameLen => Len(order') = Len(order) + 1
           /\ Len(left[t]) # FrameLen => Len(order') = Len(order)
           /\ Len(order) <= Len(order')
           /\ \A j \in 1 .. Len(order) : order'[j] = order[j]
           /\ \A u : Started(u)' <=> Started(u) \/ u = t
           /\ \A i, j \in 1 .. Len(order') : order'[i] = order'[j] => i = j
<1>1. order \in Seq(Senders) /\ Len(order) \in Nat /\ Len(left[t]) <= FrameLen
      /\ Len(left[t]) \in Nat /\ FrameLen \in Nat
  BY SMTT(30), Sizes DEF ChannelShapes, WriterInv
<1>2. CASE Len(left[t]) = FrameLen
  <2>1. /\ order' = Append(order, t) /\ order' \in Seq(Senders)
        /\ Len(order') = Len(order) + 1 /\ order'[Len(order) + 1] = t
        /\ \A j \in 1 .. Len(order) : order'[j] = order[j]
    BY SMTT(30), <1>1, <1>2, Appended
  <2>2. ~Started(t)
    BY Zenon, <1>2 DEF WriterInv
  <2>3. \A u : Started(u)' <=> Started(u) \/ u = t
    BY SMTT(30), <1>1, <2>1 DEF Started
  <2>4. \A i, j \in 1 .. Len(order') : order'[i] = order'[j] => i = j
    BY SMTT(30), <1>1, <2>1, <2>2 DEF Started, WriterInv
  <2> QED BY SMTT(30), <1>1, <1>2, <2>1, <2>3, <2>4
<1>3. CASE Len(left[t]) # FrameLen
  <2>1. order' = order /\ Len(left[t]) < FrameLen
    BY SMTT(30), <1>1, <1>3
  <2>2. Len(order) > 0 /\ order[Len(order)] = t
    BY Zenon, <2>1 DEF WriterInv
  <2>3. \A u : Started(u)' <=> Started(u) \/ u = t
    BY SMTT(30), <1>1, <2>1, <2>2 DEF Started
  <2> QED BY SMTT(30), <1>1, <1>3, <2>1, <2>2, <2>3 DEF WriterInv
<1> QED BY Zenon, <1>2, <1>3

\* What comes after a cell still does when another sender is entered.
LEMMA AfterGrows ==
    ASSUME NEW o, NEW q, Len(o) \in Nat, Len(q) \in Nat, Len(o) <= Len(q),
           \A j \in 1 .. Len(o) : q[j] = o[j]
    PROVE  \A j, p \in Nat : \A u : After(o, j, p, u) => After(q, j, p, u)
BY SMTT(30) DEF After

\* A write of a part of a frame.
LEMMA WriteKeeps ==
    ASSUME FrameInv, NEW t \in Senders, F!Write(t)
    PROVE  FrameInv'
<1>0. /\ ChannelShapes /\ WriterInv /\ F!FramesIntact
      /\ ~cut => FlowInv
  BY Zenon DEF FrameInv, F!Write
<1>1. PICK n \in 1 .. Len(left[t]) :
             /\ mutex = t /\ left[t] \in Seq(Cells) /\ Len(left[t]) \in 1 .. FrameLen
             /\ stream' \in Seq(Cells) /\ Len(stream') = Len(stream) + n
             /\ \A i \in 1 .. Len(stream) : stream'[i] = stream[i]
             /\ \A i \in 1 .. n : stream'[Len(stream) + i]
                                    = Cell(t, FrameLen - Len(left[t]) + i)
             /\ left' \in [Senders -> Seq(Cells)] /\ Len(left'[t]) = Len(left[t]) - n
             /\ \A i \in 1 .. Len(left'[t]) :
                   left'[t][i] = Cell(t, FrameLen - Len(left'[t]) + i)
             /\ \A u \in Senders \ {t} : left'[u] = left[u]
             /\ order' = IF Len(left[t]) = FrameLen THEN Append(order, t) ELSE order
  BY Zenon, <1>0, WriteEffect
<1>2. /\ pc[t] = "writing" /\ reader = "reading"
      /\ UNCHANGED <<mutex, pc, reader, got, delivered, cut>>
  BY Zenon DEF F!Write
<1>3. /\ order' \in Seq(Senders) /\ Len(order) \in Nat /\ Len(order') \in Nat
      /\ Len(order') > 0 /\ order'[Len(order')] = t
      /\ Len(left[t]) = FrameLen => Len(order') = Len(order) + 1
      /\ Len(left[t]) # FrameLen => Len(order') = Len(order)
      /\ Len(order) <= Len(order')
      /\ \A j \in 1 .. Len(order) : order'[j] = order[j]
      /\ \A u : Started(u)' <=> Started(u) \/ u = t
      /\ \A i, j \in 1 .. Len(order') : order'[i] = order'[j] => i = j
  <2>1. order' = IF Len(left[t]) = FrameLen THEN Append(order, t) ELSE order
    BY Zenon, <1>1
  <2> QED BY Zenon, <1>0, <1>2, <2>1, OrderGrows
<1>4. FrameLen \in Nat /\ n \in Nat /\ n >= 1 /\ Len(left[t]) \in Nat /\ Len(stream) \in Nat
      /\ Len(left'[t]) \in Nat /\ Len(left[t]) <= FrameLen /\ n <= Len(left[t])
      /\ Len(left'[t]) < FrameLen /\ Len(got) \in Nat /\ Len(delivered) \in Nat
      /\ Len(got) <= FrameLen /\ FrameLen > 0
  BY SMTT(30), <1>0, <1>1, Sizes DEF ChannelShapes
<1>5. ChannelShapes'
  BY Zenon, <1>0, <1>1, <1>2, <1>3 DEF ChannelShapes
<1>6. WriterInv'
  <2>1. \A u \in Senders : pc'[u] = "writing" <=> mutex' = u
    BY Zenon, <1>0, <1>2 DEF WriterInv
  <2>2. ASSUME NEW u \in Senders, pc'[u] = "writing" PROVE u = t
    BY Zenon, <1>0, <1>1, <1>2, <2>2 DEF WriterInv
  <2>3. /\ Len(left'[t]) <= FrameLen /\ Len(left'[t]) # FrameLen
        /\ \A i \in 1 .. Len(left'[t]) :
             left'[t][i] = Cell(t, FrameLen - Len(left'[t]) + i)
        /\ Len(order') > 0 /\ order'[Len(order')] = t
    <3>1. Len(left'[t]) <= FrameLen /\ Len(left'[t]) # FrameLen
      BY SMTT(30), <1>4
    <3> QED BY Zenon, <1>1, <1>3, <3>1
  <2>4. ASSUME NEW u \in Senders, pc'[u] = "start" PROVE ~Started(u)'
    <3>1. u # t /\ ~Started(u)
      BY Zenon, <1>0, <1>2, <2>4 DEF WriterInv
    <3> QED BY Zenon, <1>3, <3>1
  <2> QED BY Zenon, <1>3, <2>1, <2>2, <2>3, <2>4 DEF WriterInv
<1>7. F!FramesIntact'
  <2>1. /\ ~cut => /\ reader # "bad" /\ Len(delivered) <= Len(order)
                   /\ \A i \in 1 .. Len(delivered) : delivered[i] = F!Body(order[i])
    BY Zenon, <1>0 DEF F!FramesIntact
  <2>2. ~cut => /\ Len(delivered) <= Len(order')
                /\ \A i \in 1 .. Len(delivered) : delivered[i] = F!Body(order'[i])
    <3> SUFFICES ASSUME ~cut
                 PROVE  /\ Len(delivered) <= Len(order')
                        /\ \A i \in 1 .. Len(delivered) : delivered[i] = F!Body(order'[i])
      BY Zenon
    <3>1. Len(delivered) <= Len(order')
      BY SMTT(30), <1>3, <1>4, <2>1
    <3>2. ASSUME NEW i \in 1 .. Len(delivered) PROVE delivered[i] = F!Body(order'[i])
      <4>1. i \in 1 .. Len(order)
        BY SMTT(30), <1>3, <1>4, <2>1
      <4> QED BY Zenon, <1>3, <2>1, <4>1
    <3> QED BY Zenon, <3>1, <3>2
  <2> QED BY Zenon, <1>2, <2>1, <2>2 DEF F!FramesIntact
<1> DEFINE w == FrameLen - Len(left[t])
<1>8. w \in Nat /\ w + n <= FrameLen /\ Tip' = w + n /\ w < FrameLen
  <2>1. Tip' = FrameLen - Len(left'[t])
    BY Zenon, <1>1, <1>2, <1>3 DEF Tip
  <2> QED BY SMTT(30), <1>1, <1>4, <2>1
<1>9. /\ w = 0 => Tip = FrameLen /\ Len(order') = Len(order) + 1
      /\ w > 0 => Tip = w /\ Len(order') = Len(order) /\ order[Len(order)] = t
                  /\ Len(order) > 0
  <2>1. CASE Len(left[t]) = FrameLen
    <3>1. ~Started(t)
      BY Zenon, <1>0, <1>2, <2>1 DEF WriterInv
    <3>2. ~(Len(order) > 0 /\ mutex = order[Len(order)])
      BY SMTT(30), <1>1, <1>3, <3>1 DEF Started
    <3> QED BY SMTT(30), <1>3, <1>4, <2>1, <3>2 DEF Tip
  <2>2. CASE Len(left[t]) # FrameLen
    <3>1. Len(left[t]) < FrameLen
      BY SMTT(30), <1>4, <2>2
    <3>2. Len(order) > 0 /\ order[Len(order)] = t
      BY Zenon, <1>0, <1>2, <3>1 DEF WriterInv
    <3>3. Tip = w
      BY Zenon, <1>1, <3>2 DEF Tip
    <3> QED BY SMTT(30), <1>3, <1>4, <2>2, <3>1, <3>2, <3>3
  <2> QED BY Zenon, <2>1, <2>2
<1>10. ASSUME ~cut PROVE FlowInv'
  <2>0. FlowInv
    BY Zenon, <1>0, <1>10
  <2>1. stream'[Len(stream) + 1] = Cell(t, w + 1) /\ stream'[Len(stream) + n] = Cell(t, w + n)
        /\ \A i \in 1 .. n : stream'[Len(stream) + i] = Cell(t, w + i)
    <3>1. 1 \in 1 .. n /\ n \in 1 .. n
      BY SMTT(30), <1>4
    <3> QED BY Zenon, <1>1, <3>1
  <2> HIDE DEF w
  <2>2. \A j, p \in Nat : \A u : After(order, j, p, u) => After(order', j, p, u)
    BY Zenon, <1>3, AfterGrows
  <2>3. /\ \A i \in 1 .. Len(got) : got[i] = Cell(order'[Len(delivered) + 1], i)
        /\ Len(got) > 0 => Len(delivered) < Len(order')
    <3>1. Len(got) > 0 => Len(delivered) + 1 \in 1 .. Len(order) /\ Len(delivered) < Len(order')
      BY SMTT(30), <1>3, <1>4, <2>0 DEF FlowInv
    <3>2. ASSUME NEW i \in 1 .. Len(got) PROVE got[i] = Cell(order'[Len(delivered) + 1], i)
      <4>1. Len(got) > 0
        BY SMTT(30), <1>4
      <4> QED BY Zenon, <1>3, <2>0, <3>1, <4>1 DEF FlowInv
    <3> QED BY Zenon, <3>1, <3>2
  <2>4. After(order', Len(delivered) + 1, Len(got), stream'[1])
    <3>1. CASE Len(stream) > 0
      <4>1. 1 \in 1 .. Len(stream) /\ Len(delivered) + 1 \in Nat
        BY SMTT(30), <1>4, <3>1
      <4> QED BY Zenon, <1>1, <1>4, <2>0, <2>2, <3>1, <4>1 DEF FlowInv
    <3>2. CASE Len(stream) = 0
      <4>1. stream'[1] = Cell(t, w + 1)
        BY SMTT(30), <2>1, <3>2
      <4>2. \/ Len(got) = 0 /\ Len(delivered) = Len(order) /\ Tip = FrameLen
            \/ Len(got) > 0 /\ Len(delivered) + 1 = Len(order) /\ Tip = Len(got)
        BY Zenon, <2>0, <3>2 DEF FlowInv
      <4>3. CASE w = 0
        BY SMTT(30), <1>3, <1>4, <1>9, <4>1, <4>2, <4>3 DEF After
      <4>4. CASE w > 0
        <5>1. Tip = w /\ Len(order') = Len(order) /\ Len(order) > 0 /\ w < FrameLen
          BY Zenon, <1>8, <1>9, <4>4
        <5>2. Len(got) = w /\ Len(delivered) + 1 = Len(order')
          BY SMTT(30), <1>8, <4>2, <5>1
        <5>3. Len(delivered) + 1 \in 1 .. Len(order') /\ Len(got) < FrameLen
          BY SMTT(30), <1>3, <1>4, <5>1, <5>2
        <5> QED BY Zenon, <1>3, <4>1, <5>2, <5>3 DEF After
      <4> QED BY SMTT(30), <1>8, <4>3, <4>4
    <3> QED BY SMTT(30), <1>4, <3>1, <3>2
  <2>5. Len(stream') > 0 /\ Len(stream') # 0
        /\ stream'[Len(stream')] = Cell(order'[Len(order')], Tip')
    <3>0. Len(stream') = Len(stream) + n
      BY Zenon, <1>1
    <3>1. Len(stream') > 0 /\ Len(stream') # 0
      BY <3>0, <1>4
    <3> QED BY Zenon, <1>1, <1>3, <1>8, <2>1, <3>1
  <2>6. ASSUME NEW i \in 1 .. Len(stream')
        PROVE  \E k \in 1 .. Len(order') : order'[k] = stream'[i].from
    <3>1. CASE i \in 1 .. Len(stream)
      <4>1. stream'[i] = stream[i] /\ Started(stream[i].from)
        BY Zenon, <1>1, <2>0, <3>1 DEF FlowInv
      <4>2. PICK k \in 1 .. Len(order) : order[k] = stream[i].from
        BY Zenon, <4>1 DEF Started
      <4>3. k \in 1 .. Len(order') /\ order'[k] = order[k]
        BY SMTT(30), <1>3
      <4> QED BY Zenon, <4>1, <4>2, <4>3
    <3>2. CASE i \notin 1 .. Len(stream)
      <4>1. i - Len(stream) \in 1 .. n /\ Len(stream) + (i - Len(stream)) = i
        BY SMTT(30), <1>1, <1>4, <3>2
      <4>2. stream'[i] = Cell(t, w + (i - Len(stream)))
        BY Zenon, <2>1, <4>1
      <4>3. stream'[i].from = t
        BY SMTT(30), <4>2 DEF Cell
      <4>4. Len(order') \in 1 .. Len(order')
        BY SMTT(30), <1>3
      <4> QED BY Zenon, <1>3, <4>3, <4>4
    <3> QED BY Zenon, <3>1, <3>2
  <2>7. ASSUME NEW i \in 1 .. (Len(stream') - 1), NEW j \in 1 .. Len(order'),
               stream'[i].from = order'[j]
        PROVE  After(order', j, stream'[i].pos, stream'[i + 1])
    <3>1. CASE i < Len(stream)
      <4>1. i \in 1 .. Len(stream) /\ i + 1 \in 1 .. Len(stream) /\ i \in 1 .. (Len(stream) - 1)
        BY SMTT(30), <1>4, <3>1
      <4>2. stream'[i] = stream[i] /\ stream'[i + 1] = stream[i + 1] /\ Started(stream[i].from)
        BY Zenon, <1>1, <2>0, <4>1 DEF FlowInv
      <4>3. PICK k \in 1 .. Len(order) : order[k] = stream[i].from
        BY Zenon, <4>2 DEF Started
      <4>4. k \in 1 .. Len(order') /\ order'[k] = order[k]
        BY SMTT(30), <1>3
      <4>5. j = k
        BY Zenon, <1>3, <2>7, <4>2, <4>3, <4>4
      <4>6. After(order, k, stream[i].pos, stream[i + 1])
        BY Zenon, <2>0, <4>1, <4>3 DEF FlowInv
      <4>7. k \in Nat /\ stream[i].pos \in Nat
        <5>1. stream[i] \in Cells
          BY SMTT(30), <1>0, <4>1 DEF ChannelShapes
        <5> QED BY SMTT(30), <5>1, <1>4 DEF Cells
      <4> QED BY Zenon, <2>2, <4>2, <4>5, <4>6, <4>7
    <3>2. CASE i = Len(stream)
      <4>1. Len(stream) > 0 /\ i \in 1 .. Len(stream)
        BY SMTT(30), <1>4, <3>2
      <4>2. stream'[i] = Cell(order[Len(order)], Tip) /\ Started(stream[i].from)
            /\ stream'[i + 1] = Cell(t, w + 1)
        BY Zenon, <1>1, <2>0, <2>1, <3>2, <4>1 DEF FlowInv
      <4>3. Len(order) \in 1 .. Len(order) /\ Len(order) \in 1 .. Len(order')
        BY SMTT(30), <1>3, <4>2 DEF Started
      <4>4. stream'[i].from = order[Len(order)] /\ stream'[i].pos = Tip
        BY SMTT(30), <4>2 DEF Cell
      <4>5. j = Len(order)
        BY Zenon, <1>3, <2>7, <4>3, <4>4
      <4>6. CASE w = 0
        BY SMTT(30), <1>3, <1>4, <1>9, <4>2, <4>4, <4>5, <4>6 DEF After
      <4>7. CASE w > 0
        <5>1. Tip = w /\ Len(order') = Len(order) /\ w < FrameLen
          BY Zenon, <1>8, <1>9, <4>7
        <5> QED BY Zenon, <1>3, <4>2, <4>4, <4>5, <5>1 DEF After
      <4> QED BY SMTT(30), <1>8, <4>6, <4>7
    <3>3. CASE i > Len(stream)
      <4> DEFINE k == i - Len(stream)
      <4>1. k \in 1 .. n /\ k + 1 \in 1 .. n /\ Len(stream) + k = i
            /\ Len(stream) + (k + 1) = i + 1 /\ w + k < FrameLen /\ w + (k + 1) = w + k + 1
        BY SMTT(30), <1>1, <1>4, <1>8, <3>3
      <4> HIDE DEF k
      <4>2. stream'[i] = Cell(t, w + k) /\ stream'[i + 1] = Cell(t, w + k + 1)
        <5>1. stream'[Len(stream) + k] = Cell(t, w + k)
              /\ stream'[Len(stream) + (k + 1)] = Cell(t, w + (k + 1))
          BY Zenon, <2>1, <4>1
        <5> QED BY Zenon, <4>1, <5>1
      <4>3. stream'[i].from = t /\ stream'[i].pos = w + k
        BY SMTT(30), <4>2 DEF Cell
      <4>4. Len(order') \in 1 .. Len(order')
        BY SMTT(30), <1>3
      <4>5. j = Len(order')
        BY Zenon, <1>3, <2>7, <4>3, <4>4
      <4> QED BY Zenon, <1>3, <4>1, <4>2, <4>3, <4>4, <4>5 DEF After
    <3> QED BY SMTT(30), <1>4, <3>1, <3>2, <3>3
  <2> QED BY ZenonT(30), <1>2, <2>3, <2>4, <2>5, <2>6, <2>7 DEF FlowInv, Started
<1> QED BY Zenon, <1>2, <1>5, <1>6, <1>7, <1>10 DEF FrameInv

\* Before anything is sent.
LEMMA FrameInvInit == F!Init => FrameInv
<1> SUFFICES ASSUME F!Init PROVE FrameInv
  BY Zenon
<1>1. /\ mutex = F!None /\ pc = [t \in Senders |-> "start"]
      /\ left = [t \in Senders |-> <<>>] /\ stream = <<>> /\ reader = "reading"
      /\ got = <<>> /\ delivered = <<>> /\ order = <<>> /\ cut = FALSE
  BY Zenon DEF F!Init
<1>2. <<>> \in Seq(Cells) /\ <<>> \in Seq(Senders) /\ <<>> \in Seq(Seq(Cells))
      /\ Len(got) = 0 /\ Len(stream) = 0 /\ Len(delivered) = 0 /\ Len(order) = 0
  BY SMTT(30), <1>1
<1>3. ChannelShapes
  <2>1. "start" \in {"start", "writing", "ok", "failed"} /\ cut \in BOOLEAN
        /\ "reading" \in {"reading", "bad", "dropped"} /\ Len(got) <= FrameLen
    <3>1. Len(got) <= FrameLen
      BY SMTT(30), <1>2, Sizes
    <3> QED BY Zenon, <1>1, <3>1
  <2>2. pc \in [Senders -> {"start", "writing", "ok", "failed"}]
        /\ left \in [Senders -> Seq(Cells)]
    BY Zenon, <1>1, <1>2, <2>1
  <2> QED BY Zenon, <1>1, <1>2, <2>1, <2>2 DEF ChannelShapes
<1>4. WriterInv
  <2>1. \A t \in Senders : ~Started(t)
    BY SMTT(30), <1>2 DEF Started
  <2>2. \A t \in Senders : pc[t] = "start" /\ mutex # t
    BY Zenon, <1>1, NoneAssumption
  <2> QED BY SMTT(30), <1>2, <2>1, <2>2 DEF WriterInv
<1>5. F!FramesIntact
  BY SMTT(30), <1>1, <1>2 DEF F!FramesIntact
<1>6. Tip = FrameLen
  BY SMTT(30), <1>2 DEF Tip
<1>7. FlowInv
  BY SMTT(30), <1>2, <1>6 DEF FlowInv
<1> QED BY Zenon, <1>3, <1>4, <1>5, <1>7 DEF FrameInv

\* The stream is as it was when the senders' side only changed hands.
LEMMA FlowSame ==
    ASSUME FlowInv, UNCHANGED <<stream, got, delivered, order>>, Tip' = Tip
    PROVE  FlowInv'
<1>1. stream' = stream /\ got' = got /\ delivered' = delivered /\ order' = order
  BY Zenon
<1> QED BY ZenonT(30), <1>1 DEF FlowInv, Started

\* When nobody writes, the last frame is as long as it will be; and it is whole
\* when the writer has not begun.
LEMMA TipIsEnd ==
    ASSUME ChannelShapes, mutex = F!None \/ (mutex \in Senders /\ ~Started(mutex))
    PROVE  Tip = FrameLen
<1>1. order \in Seq(Senders) /\ Len(order) \in Nat
  BY SMTT(30) DEF ChannelShapes
<1>2. SUFFICES ASSUME Len(order) > 0, mutex = order[Len(order)] PROVE FALSE
  BY Zenon DEF Tip
<1>3. Len(order) \in 1 .. Len(order) /\ order[Len(order)] \in Senders
  BY SMTT(30), <1>1, <1>2
<1> QED BY Zenon, <1>2, <1>3, NoneAssumption DEF Started

\* A sender takes the mutex, or finds the descriptor closed.
LEMMA LockKeeps ==
    ASSUME FrameInv, NEW t \in Senders, F!Lock(t)
    PROVE  FrameInv'
<1>0. /\ ChannelShapes /\ WriterInv /\ F!FramesIntact
      /\ ~cut /\ reader = "reading" => FlowInv
  BY Zenon DEF FrameInv
<1>1. /\ pc[t] = "start" /\ mutex = F!None /\ ~Started(t)
      /\ UNCHANGED <<stream, reader, got, delivered, order, cut>>
  BY Zenon, <1>0 DEF F!Lock, WriterInv
<1>2. \A u : Started(u)' <=> Started(u)
  BY Zenon, <1>1 DEF Started
<1>3. \A u \in Senders : pc[u] # "writing"
  BY Zenon, <1>0, <1>1, NoneAssumption DEF WriterInv
<1>4. F!FramesIntact'
  BY Zenon, <1>0, <1>1 DEF F!FramesIntact
<1>5. Tip = FrameLen
  BY Zenon, <1>0, <1>1, TipIsEnd
<1>6. CASE fd = "open"
  <2>1. mutex' = t /\ left' = [left EXCEPT ![t] = F!Frame(t)]
        /\ pc' = [pc EXCEPT ![t] = "writing"]
    BY Zenon, <1>6 DEF F!Lock
  <2>2. /\ F!Frame(t) \in Seq(Cells) /\ Len(F!Frame(t)) = FrameLen
        /\ \A i \in 1 .. FrameLen : F!Frame(t)[i] = Cell(t, i)
    BY Zenon, FrameFacts
  <2>3. /\ left' \in [Senders -> Seq(Cells)] /\ left'[t] = F!Frame(t)
        /\ pc' \in [Senders -> {"start", "writing", "ok", "failed"}] /\ pc'[t] = "writing"
        /\ \A u \in Senders \ {t} : pc'[u] = pc[u]
    BY Zenon, <1>0, <2>1, <2>2 DEF ChannelShapes
  <2>4. ChannelShapes'
    BY Zenon, <1>0, <1>1, <2>1, <2>3 DEF ChannelShapes
  <2>5. WriterInv'
    <3>1. \A u \in Senders : pc'[u] = "writing" <=> u = t
      BY Zenon, <1>3, <2>3
    <3>2. Len(left'[t]) = FrameLen /\ Len(left'[t]) <= FrameLen /\ ~(Len(left'[t]) < FrameLen)
      BY SMTT(30), <2>2, <2>3, Sizes
    <3>3. \A i \in 1 .. Len(left'[t]) : left'[t][i] = Cell(t, FrameLen - Len(left'[t]) + i)
      <4>1. \A i \in 1 .. FrameLen : FrameLen - FrameLen + i = i
        BY SMTT(30), Sizes
      <4>2. \A i \in 1 .. FrameLen : left'[t][i] = Cell(t, FrameLen - FrameLen + i)
        BY Zenon, <2>2, <2>3, <4>1
      <4> QED BY Zenon, <3>2, <4>2
    <3>4. \A u \in Senders : pc'[u] = "start" => ~Started(u)'
      BY Zenon, <1>0, <1>1, <1>2, <2>3 DEF WriterInv
    <3>5. \A i, j \in 1 .. Len(order') : order'[i] = order'[j] => i = j
      BY Zenon, <1>0, <1>1 DEF WriterInv
    <3> QED BY Zenon, <1>1, <1>2, <2>1, <3>1, <3>2, <3>3, <3>4, <3>5 DEF WriterInv
  <2>6. Tip' = FrameLen
    <3>1. (Len(order) > 0 /\ t = order[Len(order)]) => Started(t)
      BY SMTT(30), <1>0 DEF Started, ChannelShapes
    <3> QED BY Zenon, <1>1, <2>1, <3>1 DEF Tip
  <2> QED BY Zenon, <1>0, <1>1, <1>4, <1>5, <2>4, <2>5, <2>6, FlowSame DEF FrameInv
<1>7. CASE fd # "open"
  <2>1. mutex' = mutex /\ left' = left /\ pc' = [pc EXCEPT ![t] = "failed"]
    BY Zenon, <1>7 DEF F!Lock
  <2>2. /\ pc' \in [Senders -> {"start", "writing", "ok", "failed"}] /\ pc'[t] = "failed"
        /\ \A u \in Senders \ {t} : pc'[u] = pc[u]
    BY Zenon, <1>0, <2>1 DEF ChannelShapes
  <2>3. ChannelShapes'
    BY Zenon, <1>0, <1>1, <2>1, <2>2 DEF ChannelShapes
  <2>4. \A u \in Senders : pc'[u] # "writing" /\ mutex' # u
    <3>1. pc'[t] # "writing"
      BY Zenon, <2>2
    <3> QED BY Zenon, <1>1, <1>3, <2>1, <2>2, <3>1, NoneAssumption
  <2>5. \A u \in Senders : pc'[u] = "start" => ~Started(u)'
    <3>1. pc'[t] # "start"
      BY Zenon, <2>2
    <3> QED BY Zenon, <1>0, <1>2, <2>2, <3>1 DEF WriterInv
  <2>6. WriterInv'
    BY Zenon, <1>0, <1>1, <2>4, <2>5 DEF WriterInv
  <2>7. Tip' = Tip
    BY Zenon, <1>1, <2>1 DEF Tip
  <2> QED BY Zenon, <1>0, <1>1, <1>4, <2>3, <2>6, <2>7, FlowSame DEF FrameInv
<1> QED BY Zenon, <1>6, <1>7

\* A writer that gives the mutex back.
LEMMA UnlockKeeps ==
    ASSUME ChannelShapes, WriterInv, NEW t \in Senders, pc[t] = "writing",
           NEW rc \in {"ok", "failed"}, F!Unlock(t, rc), cut' \in BOOLEAN,
           UNCHANGED <<left, stream, reader, got, delivered, order>>
    PROVE  ChannelShapes' /\ WriterInv' /\ mutex = t /\ mutex' = F!None
<1>1. mutex = t /\ mutex' = F!None /\ pc' = [pc EXCEPT ![t] = rc]
  BY Zenon DEF F!Unlock, WriterInv
<1>2. /\ pc' \in [Senders -> {"start", "writing", "ok", "failed"}] /\ pc'[t] = rc
      /\ rc # "writing" /\ rc # "start" /\ \A u \in Senders \ {t} : pc'[u] = pc[u]
  BY Zenon, <1>1 DEF ChannelShapes
<1>3. ChannelShapes'
  BY Zenon, <1>1, <1>2 DEF ChannelShapes
<1>4. \A u \in Senders : pc'[u] # "writing" /\ mutex' # u
  BY Zenon, <1>1, <1>2, NoneAssumption DEF WriterInv
<1>5. \A u \in Senders : pc'[u] = "start" => ~Started(u)'
  BY Zenon, <1>2 DEF WriterInv, Started
<1>6. WriterInv'
  BY Zenon, <1>4, <1>5 DEF WriterInv
<1> QED BY Zenon, <1>1, <1>3, <1>6

\* The end of a send.
LEMMA WrittenKeeps ==
    ASSUME FrameInv, NEW t \in Senders, F!Written(t)
    PROVE  FrameInv'
<1>0. /\ ChannelShapes /\ WriterInv /\ F!FramesIntact
      /\ ~cut /\ reader = "reading" => FlowInv
  BY Zenon DEF FrameInv
<1>1. /\ pc[t] = "writing" /\ left[t] = <<>> /\ F!Unlock(t, "ok")
      /\ UNCHANGED <<left, stream, reader, got, delivered, order, cut>>
  BY Zenon DEF F!Written
<1>2. ChannelShapes' /\ WriterInv' /\ mutex = t /\ mutex' = F!None
  <2>1. "ok" \in {"ok", "failed"} /\ cut' \in BOOLEAN
    BY Zenon, <1>0, <1>1 DEF ChannelShapes
  <2> QED BY Zenon, <1>0, <1>1, <2>1, UnlockKeeps
<1>3. Tip = FrameLen
  <2>1. Len(left[t]) = 0
    BY SMTT(30), <1>1
  <2> QED BY SMTT(30), <1>2, <2>1, Sizes DEF Tip
<1>4. Tip' = FrameLen
  <2>1. order \in Seq(Senders) /\ (Len(order) > 0 => order[Len(order)] \in Senders)
    BY SMTT(30), <1>0 DEF ChannelShapes
  <2> QED BY Zenon, <1>1, <1>2, <2>1, NoneAssumption DEF Tip
<1>5. F!FramesIntact'
  BY Zenon, <1>0, <1>1 DEF F!FramesIntact
<1> QED BY Zenon, <1>0, <1>1, <1>2, <1>3, <1>4, <1>5, FlowSame DEF FrameInv

\* A write that fails: nothing of the frame was written, or the channel is cut,
\* or there is nobody to read it.
LEMMA WriteFailsKeeps ==
    ASSUME FrameInv, NEW t \in Senders, F!WriteFails(t)
    PROVE  FrameInv'
<1>0. /\ ChannelShapes /\ WriterInv /\ F!FramesIntact
      /\ ~cut /\ reader = "reading" => FlowInv
  BY Zenon DEF FrameInv
<1>1. /\ pc[t] = "writing" /\ F!Unlock(t, "failed")
      /\ cut' = (cut \/ (left[t] # F!Frame(t) /\ reader = "reading"))
      /\ UNCHANGED <<left, stream, reader, got, delivered, order>>
  BY Zenon DEF F!WriteFails
<1>2. ChannelShapes' /\ WriterInv' /\ mutex = t /\ mutex' = F!None
  <2>1. "failed" \in {"ok", "failed"}
    BY Zenon
  <2>2. cut' \in BOOLEAN
    BY Zenon, <1>0, <1>1 DEF ChannelShapes
  <2> QED BY Zenon, <1>0, <1>1, <2>1, <2>2, UnlockKeeps
<1>3. F!FramesIntact'
  BY Zenon, <1>0, <1>1 DEF F!FramesIntact
<1>4. ASSUME ~cut', reader' = "reading" PROVE FlowInv'
  <2>1. left[t] = F!Frame(t) /\ ~cut /\ reader = "reading"
    BY Zenon, <1>1, <1>4
  <2>2. ~Started(t)
    <3>1. Len(left[t]) = FrameLen
      BY Zenon, <2>1, FrameFacts
    <3> QED BY Zenon, <1>0, <1>1, <3>1 DEF WriterInv
  <2>3. Tip = FrameLen
    BY Zenon, <1>0, <1>2, <2>2, TipIsEnd
  <2>4. Tip' = FrameLen
    <3>1. order \in Seq(Senders) /\ (Len(order) > 0 => order[Len(order)] \in Senders)
      BY SMTT(30), <1>0 DEF ChannelShapes
    <3> QED BY Zenon, <1>1, <1>2, <3>1, NoneAssumption DEF Tip
  <2> QED BY Zenon, <1>0, <1>1, <2>1, <2>3, <2>4, FlowSame
<1> QED BY Zenon, <1>2, <1>3, <1>4 DEF FrameInv

\* A unit is read: it is the next one of its frame.
LEMMA ReadKeeps ==
    ASSUME FrameInv, F!Read
    PROVE  FrameInv'
<1>0. /\ ChannelShapes /\ WriterInv /\ F!FramesIntact /\ (~cut => FlowInv)
  BY Zenon DEF FrameInv, F!Read
<1>1. /\ reader = "reading" /\ stream # <<>> /\ Len(got) < FrameLen
      /\ stream' = Tail(stream) /\ got' = Append(got, Head(stream))
      /\ reader' = IF Len(got') = Units /\ ~F!IsHeader(got') THEN "bad" ELSE "reading"
      /\ UNCHANGED <<mutex, pc, left, delivered, order, cut>>
  BY Zenon DEF F!Read, FrameLen
<1> DEFINE d == Len(delivered)
           g == Len(got)
<1>2. d \in Nat /\ g \in Nat /\ g < FrameLen /\ Len(order) \in Nat
      /\ Len(stream) \in Nat /\ FrameLen \in Nat
      /\ stream \in Seq(Cells) /\ got \in Seq(Cells)
  BY SMTT(30), <1>0, <1>1, Sizes DEF ChannelShapes
<1>3. /\ stream' \in Seq(Cells) /\ Len(stream') = Len(stream) - 1 /\ Len(stream) > 0
      /\ \A i \in 1 .. (Len(stream) - 1) : stream'[i] = stream[i + 1]
      /\ Head(stream) = stream[1] /\ stream[1] \in Cells
  BY SMTT(30), <1>1, <1>2, Tailed
<1>4. /\ got' \in Seq(Cells) /\ Len(got') = g + 1
      /\ \A i \in 1 .. g : got'[i] = got[i]
      /\ got'[g + 1] = stream[1]
  BY SMTT(30), <1>1, <1>2, <1>3, Appended
<1>5. ChannelShapes'
  <2>1. Len(got') <= FrameLen /\ reader' \in {"reading", "bad", "dropped"}
    BY SMTT(30), <1>1, <1>2, <1>4
  <2> QED BY Zenon, <1>0, <1>1, <1>3, <1>4, <2>1 DEF ChannelShapes
<1>6. WriterInv'
  BY ZenonT(30), <1>0, <1>1 DEF WriterInv, Started
<1>7. ASSUME ~cut
      PROVE  /\ d + 1 \in 1 .. Len(order) /\ order[d + 1] \in Senders
             /\ stream[1] = Cell(order[d + 1], g + 1)
             /\ \A i \in 1 .. (g + 1) : got'[i] = Cell(order[d + 1], i)
  <2>1. After(order, d + 1, g, stream[1])
        /\ \A i \in 1 .. g : got[i] = Cell(order[d + 1], i)
    BY Zenon, <1>0, <1>3, <1>7 DEF FlowInv
  <2>2. d + 1 \in 1 .. Len(order) /\ stream[1] = Cell(order[d + 1], g + 1)
    BY Zenon, <1>2, <2>1 DEF After
  <2>3. order[d + 1] \in Senders
    BY SMTT(30), <1>0, <2>2 DEF ChannelShapes
  <2>4. \A i \in 1 .. (g + 1) : i \in 1 .. g \/ i = g + 1
    BY SMTT(30), <1>2
  <2> QED BY Zenon, <1>4, <2>1, <2>2, <2>3, <2>4
<1>8. ASSUME ~cut PROVE reader' = "reading"
  <2>1. ASSUME Len(got') = Units PROVE F!IsHeader(got')
    <3>1. \A i \in 1 .. Units : got'[i] = Cell(order[d + 1], i)
      BY Zenon, <1>4, <1>7, <1>8, <2>1
    <3> QED BY Zenon, <1>4, <1>7, <1>8, <2>1, <3>1, HeaderOf
  <2> QED BY Zenon, <1>1, <2>1
<1>9. F!FramesIntact'
  <2>1. "reading" # "bad"
    BY Zenon
  <2> QED BY Zenon, <1>0, <1>1, <1>8, <2>1 DEF F!FramesIntact
<1>10. ASSUME ~cut PROVE FlowInv'
  <2>0. FlowInv /\ Tip' = Tip
    BY Zenon, <1>0, <1>1, <1>10 DEF Tip
  <2>1. /\ d + 1 \in 1 .. Len(order) /\ order[d + 1] \in Senders
        /\ stream[1] = Cell(order[d + 1], g + 1)
        /\ \A i \in 1 .. (g + 1) : got'[i] = Cell(order[d + 1], i)
    BY Zenon, <1>7, <1>10
  <2>2. stream[1].from = order[d + 1] /\ stream[1].pos = g + 1
    BY SMTT(30), <2>1 DEF Cell
  <2>3. /\ \A i \in 1 .. Len(got') : got'[i] = Cell(order[d + 1], i)
        /\ d < Len(order) /\ Len(got') > 0
    BY SMTT(30), <1>2, <1>4, <2>1
  <2>4. ASSUME Len(stream') > 0
        PROVE  /\ After(order, d + 1, Len(got'), stream'[1])
               /\ stream'[Len(stream')] = Cell(order[Len(order)], Tip)
    <3>1. 1 \in 1 .. (Len(stream) - 1) /\ 1 + 1 = 2 /\ Len(stream') \in 1 .. (Len(stream) - 1)
          /\ Len(stream') + 1 = Len(stream)
      BY SMTT(30), <1>2, <1>3, <2>4
    <3>2. stream'[1] = stream[1 + 1] /\ stream'[Len(stream')] = stream[Len(stream)]
      <4>1. stream'[Len(stream')] = stream[Len(stream') + 1]
        BY Zenon, <1>3, <3>1
      <4> QED BY Zenon, <1>3, <3>1, <4>1
    <3>3. After(order, d + 1, g + 1, stream[1 + 1])
      <4>1. After(order, d + 1, stream[1].pos, stream[1 + 1])
        BY Zenon, <2>0, <2>1, <2>2, <3>1 DEF FlowInv
      <4> QED BY Zenon, <2>2, <4>1
    <3> QED BY Zenon, <1>3, <1>4, <2>0, <3>2, <3>3 DEF FlowInv
  <2>5. ASSUME Len(stream') = 0
        PROVE  d + 1 = Len(order) /\ Tip = Len(got')
    <3>1. Len(stream) = 1
      BY SMTT(30), <1>2, <1>3, <2>5
    <3>2. stream[1] = Cell(order[Len(order)], Tip)
      BY Zenon, <1>3, <2>0, <3>1 DEF FlowInv
    <3>3. stream[1].from = order[Len(order)] /\ stream[1].pos = Tip
      BY SMTT(30), <3>2 DEF Cell
    <3>4. Len(order) \in 1 .. Len(order)
      BY SMTT(30), <1>2, <2>1
    <3>5. d + 1 = Len(order)
      BY Zenon, <1>0, <2>1, <2>2, <3>3, <3>4 DEF WriterInv
    <3> QED BY Zenon, <1>4, <2>2, <3>3, <3>5
  <2>6. ASSUME NEW i \in 1 .. Len(stream')
        PROVE  Started(stream[i + 1].from) /\ stream'[i] = stream[i + 1]
    <3>1. i \in 1 .. (Len(stream) - 1) /\ i + 1 \in 1 .. Len(stream)
      BY SMTT(30), <1>2, <1>3
    <3> QED BY Zenon, <1>3, <2>0, <3>1 DEF FlowInv
  <2>7. ASSUME NEW i \in 1 .. (Len(stream') - 1), NEW j \in 1 .. Len(order),
               stream'[i].from = order[j]
        PROVE  After(order, j, stream'[i].pos, stream'[i + 1])
    <3>1. i \in 1 .. (Len(stream) - 1) /\ i + 1 \in 1 .. (Len(stream) - 1)
      BY SMTT(30), <1>2, <1>3
    <3>2. stream'[i] = stream[i + 1] /\ stream'[i + 1] = stream[(i + 1) + 1]
      BY Zenon, <1>3, <3>1
    <3> QED BY Zenon, <2>0, <2>7, <3>1, <3>2 DEF FlowInv
  <2> QED BY ZenonT(30), <1>1, <2>0, <2>3, <2>4, <2>5, <2>6, <2>7 DEF FlowInv, Started
<1> QED BY Zenon, <1>1, <1>5, <1>6, <1>9, <1>10 DEF FrameInv

\* A body is handed over: it is the body of the next frame.
LEMMA DeliverKeeps ==
    ASSUME FrameInv, F!Deliver
    PROVE  FrameInv'
<1>0. /\ ChannelShapes /\ WriterInv /\ F!FramesIntact /\ (~cut => FlowInv)
  BY Zenon DEF FrameInv, F!Deliver
<1> DEFINE d == Len(delivered)
           b == SubSeq(got, Units + 1, 2 * Units)
<1>1. /\ reader = "reading" /\ Len(got) = FrameLen /\ got' = <<>>
      /\ delivered' = Append(delivered, b)
      /\ UNCHANGED <<mutex, pc, left, stream, reader, order, cut>>
  BY Zenon DEF F!Deliver, FrameLen
<1>2. d \in Nat /\ Len(order) \in Nat /\ Len(stream) \in Nat /\ FrameLen \in Nat
      /\ got \in Seq(Cells) /\ FrameLen > 0 /\ Len(got') = 0 /\ got' \in Seq(Cells)
      /\ delivered \in Seq(Seq(Cells))
  BY SMTT(30), <1>0, <1>1, Sizes DEF ChannelShapes
<1>3. b \in Seq(Cells)
  <2>1. Units + 1 \in Nat /\ 2 * Units \in Nat /\ Units + 1 >= 1 /\ 2 * Units <= Len(got)
        /\ Units + 1 <= 2 * Units + 1
    BY SMTT(30), <1>1, Sizes DEF FrameLen
  <2> QED BY Zenon, <1>2, <2>1, Cut
<1> HIDE DEF b
<1>4. /\ delivered' \in Seq(Seq(Cells)) /\ Len(delivered') = d + 1
      /\ \A i \in 1 .. d : delivered'[i] = delivered[i]
      /\ delivered'[d + 1] = b
  BY SMTT(30), <1>1, <1>2, <1>3, Appended
<1>5. ChannelShapes'
  <2>1. Len(got') <= FrameLen
    BY SMTT(30), <1>2
  <2> QED BY Zenon, <1>0, <1>1, <1>2, <1>4, <2>1 DEF ChannelShapes
<1>6. WriterInv'
  BY ZenonT(30), <1>0, <1>1 DEF WriterInv, Started
<1>7. ASSUME ~cut PROVE d < Len(order) /\ b = F!Body(order[d + 1])
  <2>1. Len(got) > 0
    BY Zenon, <1>1, <1>2
  <2>2. d < Len(order) /\ \A i \in 1 .. FrameLen : got[i] = Cell(order[d + 1], i)
    BY Zenon, <1>0, <1>1, <1>7, <2>1 DEF FlowInv
  <2>3. order[d + 1] \in Senders
    BY SMTT(30), <1>0, <1>2, <2>2 DEF ChannelShapes
  <2> QED BY Zenon, <1>1, <1>2, <2>2, <2>3, WholeFrame DEF b
<1>8. F!FramesIntact'
  <2>1. ASSUME ~cut
        PROVE  /\ reader # "bad" /\ Len(delivered') <= Len(order)
               /\ \A i \in 1 .. Len(delivered') : delivered'[i] = F!Body(order[i])
    <3>1. reader # "bad" /\ Len(delivered') <= Len(order)
      BY SMTT(30), <1>1, <1>2, <1>4, <1>7, <2>1
    <3>2. \A i \in 1 .. Len(delivered') : i \in 1 .. d \/ i = d + 1
      BY SMTT(30), <1>2, <1>4
    <3>3. \A i \in 1 .. d : delivered[i] = F!Body(order[i])
      BY Zenon, <1>0, <2>1 DEF F!FramesIntact
    <3> QED BY Zenon, <1>4, <1>7, <2>1, <3>1, <3>2, <3>3
  <2> QED BY Zenon, <1>1, <2>1 DEF F!FramesIntact
<1>9. ASSUME ~cut PROVE FlowInv'
  <2>0. FlowInv /\ Tip' = Tip /\ d < Len(order)
    BY Zenon, <1>0, <1>1, <1>7, <1>9 DEF Tip
  <2>1. /\ \A i \in 1 .. Len(got') : got'[i] = Cell(order[Len(delivered') + 1], i)
        /\ ~(Len(got') > 0)
    BY SMTT(30), <1>2
  <2>2. ASSUME Len(stream) > 0
        PROVE  /\ After(order, Len(delivered') + 1, Len(got'), stream[1])
               /\ stream[Len(stream)] = Cell(order[Len(order)], Tip)
    <3>1. After(order, d + 1, FrameLen, stream[1])
          /\ stream[Len(stream)] = Cell(order[Len(order)], Tip)
      BY Zenon, <1>1, <2>0, <2>2 DEF FlowInv
    <3> QED BY SMTT(30), <1>2, <1>4, <3>1 DEF After
  <2>3. ASSUME Len(stream) = 0 PROVE Len(delivered') = Len(order) /\ Tip = FrameLen
    <3>1. \/ Len(got) = 0 /\ Len(delivered) = Len(order) /\ Tip = FrameLen
          \/ Len(got) > 0 /\ Len(delivered) + 1 = Len(order) /\ Tip = Len(got)
      BY Zenon, <2>0, <2>3 DEF FlowInv
    <3> QED BY SMTT(30), <1>1, <1>2, <1>4, <3>1
  <2> QED BY ZenonT(30), <1>1, <1>2, <2>0, <2>1, <2>2, <2>3 DEF FlowInv, Started
<1> QED BY Zenon, <1>1, <1>5, <1>6, <1>8, <1>9 DEF FrameInv

\* The descriptor is closed, the reader drops the connection, or nothing happens.
LEMMA OthersKeep ==
    ASSUME FrameInv, F!Close \/ F!ReadFails \/ UNCHANGED framingVars
    PROVE  FrameInv'
<1>0. /\ ChannelShapes /\ WriterInv /\ F!FramesIntact
      /\ ~cut /\ reader = "reading" => FlowInv
  BY Zenon DEF FrameInv
<1>1. UNCHANGED <<mutex, pc, left, stream, got, delivered, order, cut>>
      /\ (reader' = reader \/ reader' = "dropped")
  BY Zenon DEF F!Close, F!ReadFails, framingVars
<1>2. "dropped" \in {"reading", "bad", "dropped"} /\ "dropped" # "bad" /\ "dropped" # "reading"
  BY Zenon
<1>3. ChannelShapes'
  BY Zenon, <1>0, <1>1, <1>2 DEF ChannelShapes
<1>4. WriterInv'
  BY ZenonT(30), <1>0, <1>1 DEF WriterInv, Started
<1>5. F!FramesIntact'
  BY Zenon, <1>0, <1>1, <1>2 DEF F!FramesIntact
<1>6. Tip' = Tip
  BY Zenon, <1>1 DEF Tip
<1> QED BY Zenon, <1>0, <1>1, <1>2, <1>3, <1>4, <1>5, <1>6, FlowSame DEF FrameInv

\* Every step of the channel keeps the invariant.
LEMMA FrameInvNext == FrameInv /\ [F!Next]_(F!vars) => FrameInv'
<1> SUFFICES ASSUME FrameInv, [F!Next]_(F!vars) PROVE FrameInv'
  BY Zenon
<1>1. ASSUME NEW t \in Senders, F!Lock(t) \/ F!Write(t) \/ F!Written(t) \/ F!WriteFails(t)
      PROVE  FrameInv'
  BY Zenon, <1>1, LockKeeps, WriteKeeps, WrittenKeeps, WriteFailsKeeps
<1>2. UNCHANGED F!vars => UNCHANGED framingVars
  BY Zenon DEF F!vars, framingVars
<1> QED BY Zenon, <1>1, <1>2, ReadKeeps, DeliverKeeps, OthersKeep DEF F!Next

\* In every behaviour of a channel, for any senders, header and body length and
\* socket buffer, readTcpMessage hands over the messages that tcp_send wrote,
\* whole and in the order of their first writes, and refuses no header, as long
\* as no write failed part way on a connection that stayed up.
THEOREM FramesAreIntact == F!Spec => []FramesIntact
<1>1. FrameInv => FramesIntact
  BY Zenon DEF FrameInv, FramesIntact
<1> QED BY <1>1, FrameInvInit, FrameInvNext, PTL DEF F!Spec
-----------------------------------------------------------------------------
(* The fabric and the interpreter at the end of a process *)

\* The progress thread has not ended: it is in its loop, waits on the
\* completion queue, or is on its way into Python.
Progressing == thread["progress"] \in {"loop", "wait", "dispatch", "python"}

\* While it has not, the fabric objects are all open, and main is at a place
\* from which it gets to the join, or in a run that ends inside Python.
ProgressInv ==
    Progressing =>
        /\ transport = "ofi" /\ fabricOpen = R!Objects
        /\ \/ main \in {"listener", "run", "shutdown", "fini"} /\ progress_run
           \/ main = "joinprogress"
           \/ /\ mode \in {"exit", "pure"}
              /\ main \in {"exit", "joinworker", "finalize", "finalized", "done",
                           "crashed"}

\* The interpreter is finalised at the end of main only.
DownInv == interp = "down" => main \in {"finalized", "done", "crashed"}

\* An object that is open has those it is built on.
NeedsInv == \A o \in fabricOpen : R!Needs[o] \subseteq fabricOpen

RuntimeInv == R!TypeOK /\ ProgressInv /\ DownInv /\ NeedsInv

-----------------------------------------------------------------------------

\* The six objects.
LEMMA SixObjects ==
    /\ R!Objects = {"fabric", "domain", "av", "tx_cq", "rx_cq", "ep"}
    /\ R!Needs["fabric"] = {} /\ R!Needs["domain"] = {"fabric"}
    /\ R!Needs["av"] = {"fabric", "domain"}
    /\ R!Needs["tx_cq"] = {"fabric", "domain"}
    /\ R!Needs["rx_cq"] = {"fabric", "domain"}
    /\ R!Needs["ep"] = {"fabric", "domain", "av", "tx_cq", "rx_cq"}
  <1>1. R!Objects = {"fabric", "domain", "av", "tx_cq", "rx_cq", "ep"}
    BY DEF R!Objects, R!OpenOrder
  <1> QED BY <1>1 DEF R!Needs

\* An object is opened after those it is built on.
LEMMA OpensInOrder ==
    ASSUME R!OpenObject
    PROVE  /\ fabricOpen' \subseteq R!Objects
           /\ \A o \in fabricOpen' : R!Needs[o] \subseteq fabricOpen'
  <1>1. PICK i \in 1..6 : /\ fabricOpen = {R!OpenOrder[j] : j \in 1..(i - 1)}
                          /\ fabricOpen' = fabricOpen \cup {R!OpenOrder[i]}
    BY DEF R!OpenObject, R!OpenOrder
  <1>2. CASE i = 1
    BY <1>1, <1>2, SixObjects DEF R!OpenOrder
  <1>3. CASE i = 2
    BY <1>1, <1>3, SixObjects DEF R!OpenOrder
  <1>4. CASE i = 3
    BY <1>1, <1>4, SixObjects DEF R!OpenOrder
  <1>5. CASE i = 4
    BY <1>1, <1>5, SixObjects DEF R!OpenOrder
  <1>6. CASE i = 5
    BY <1>1, <1>6, SixObjects DEF R!OpenOrder
  <1>7. CASE i = 6
    BY <1>1, <1>7, SixObjects DEF R!OpenOrder
  <1> QED BY <1>2, <1>3, <1>4, <1>5, <1>6, <1>7

\* ... and closed before them.
LEMMA ClosesInOrder ==
    ASSUME R!CloseObject, fabricOpen \subseteq R!Objects, NeedsInv
    PROVE  /\ fabricOpen' \subseteq R!Objects
           /\ \A o \in fabricOpen' : R!Needs[o] \subseteq fabricOpen'
  <1>1. PICK i \in 1..6 : /\ R!CloseOrder[i] \in fabricOpen
                          /\ \A j \in 1..(i - 1) : R!CloseOrder[j] \notin fabricOpen
                          /\ fabricOpen' = fabricOpen \ {R!CloseOrder[i]}
    BY DEF R!CloseObject, R!CloseOrder
  <1>2. CASE i = 1
    BY <1>1, <1>2, SixObjects DEF R!CloseOrder, NeedsInv
  <1>3. CASE i = 2
    BY <1>1, <1>3, SixObjects DEF R!CloseOrder, NeedsInv
  <1>4. CASE i = 3
    BY <1>1, <1>4, SixObjects DEF R!CloseOrder, NeedsInv
  <1>5. CASE i = 4
    BY <1>1, <1>5, SixObjects DEF R!CloseOrder, NeedsInv
  <1>6. CASE i = 5
    BY <1>1, <1>6, SixObjects DEF R!CloseOrder, NeedsInv
  <1>7. CASE i = 6
    BY <1>1, <1>7, SixObjects DEF R!CloseOrder, NeedsInv
  <1> QED BY <1>2, <1>3, <1>4, <1>5, <1>6, <1>7

\* The steps of main: start-up, the run, defw_shutdown and the way out.
LEMMA MainKeeps ==
    ASSUME RuntimeInv, R!MainStep \/ R!WorkerEnds
    PROVE  RuntimeInv'
  <1> USE DEF RuntimeInv
  <1>1. CASE R!OpenObject
    <2>1. NeedsInv' /\ R!TypeOK'
      BY <1>1, OpensInOrder DEF NeedsInv, R!OpenObject, R!TypeOK
    <2>2. ProgressInv' /\ DownInv'
      BY <1>1 DEF R!OpenObject, ProgressInv, DownInv, Progressing
    <2> QED BY <2>1, <2>2
  <1>2. CASE R!CloseObject
    <2>1. NeedsInv' /\ R!TypeOK'
      BY <1>2, ClosesInOrder DEF NeedsInv, R!CloseObject, R!TypeOK
    <2>2. ProgressInv' /\ DownInv'
      BY <1>2 DEF R!CloseObject, ProgressInv, DownInv, Progressing
    <2> QED BY <2>1, <2>2
  <1>3. CASE R!StayTcp \/ R!OpenFails \/ R!OfiUp \/ R!SpawnListener
    <2>0. thread' \in [R!Receiver -> {"none", "loop", "wait", "dispatch", "python", "ended"}]
      BY <1>3 DEF R!TypeOK, R!StayTcp, R!OpenFails, R!OfiUp, R!SpawnListener, R!Receiver
    <2>1. R!TypeOK'
      BY Zenon, <1>3, <2>0 DEF R!TypeOK, R!StayTcp, R!OpenFails, R!OfiUp, R!SpawnListener
    <2>2. ProgressInv' /\ DownInv' /\ NeedsInv'
      BY <1>3 DEF R!TypeOK, R!StayTcp, R!OpenFails, R!OfiUp, R!SpawnListener,
         ProgressInv, DownInv,
                  NeedsInv, Progressing, R!Receiver
    <2> QED BY <2>1, <2>2
  <1>4. CASE R!Yield \/ R!Ended \/ R!Shutdown \/ R!WorkerEnds
    <2>1. R!TypeOK'
      BY Zenon, <1>4 DEF R!TypeOK, R!Yield, R!Ended, R!Shutdown, R!WorkerEnds
    <2>2. ProgressInv' /\ DownInv' /\ NeedsInv'
      BY <1>4 DEF R!TypeOK, R!Yield, R!Ended, R!Shutdown, R!WorkerEnds, ProgressInv,
         DownInv,
                  NeedsInv, Progressing
    <2> QED BY <2>1, <2>2
  <1>5. CASE R!StopProgress \/ R!JoinProgress \/ R!Cleared
    <2>1. R!TypeOK'
      BY Zenon, <1>5 DEF R!TypeOK, R!StopProgress, R!JoinProgress, R!Cleared
    <2>2. ProgressInv' /\ DownInv' /\ NeedsInv'
      BY <1>5 DEF R!TypeOK, R!StopProgress, R!JoinProgress, R!Cleared, ProgressInv,
         DownInv,
                  NeedsInv, Progressing
    <2> QED BY <2>1, <2>2
  <1>6. CASE R!FinalizePython \/ R!ExitDefw \/ R!WorkerJoined \/ R!Finalize \/ R!Finish
    <2>1. R!TypeOK'
      BY Zenon, <1>6 DEF R!TypeOK, R!FinalizePython, R!ExitDefw, R!WorkerJoined,
         R!Finalize, R!Finish
    <2>2. ProgressInv' /\ DownInv' /\ NeedsInv'
      BY <1>6 DEF R!TypeOK, R!FinalizePython, R!ExitDefw, R!WorkerJoined, R!Finalize,
         R!Finish,
                  ProgressInv, DownInv, NeedsInv, Progressing
    <2> QED BY <2>1, <2>2
  <1> QED BY <1>1, <1>2, <1>3, <1>4, <1>5, <1>6 DEF R!MainStep

\* The steps of the threads that receive.
LEMMA ThreadKeeps ==
    ASSUME RuntimeInv, NEW t \in R!Receiver, R!ThreadStep(t)
    PROVE  RuntimeInv'
  <1> USE DEF RuntimeInv
  <1>1. /\ UNCHANGED <<mode, interp, progress_run, fabricOpen, transport>>
        /\ main' = main \/ (interp = "down" /\ main' = "crashed")
    BY DEF R!ThreadStep, R!Loop, R!Receive, R!EnterPython, R!LeavePython, R!EnterFinalized
  <1>2. R!TypeOK'
    BY RuntimeAssumption DEF R!ThreadStep, R!Loop, R!Receive, R!EnterPython,
       R!LeavePython,
       R!EnterFinalized, R!TypeOK, R!Receiver
  <1>3. Progressing' => Progressing
    BY DEF R!ThreadStep, R!Loop, R!Receive, R!EnterPython, R!LeavePython,
       R!EnterFinalized,
           R!TypeOK, R!Receiver, Progressing
  <1>4. ProgressInv'
    BY <1>1, <1>3 DEF ProgressInv, DownInv
  <1> QED BY <1>1, <1>2, <1>4 DEF DownInv, NeedsInv

\* A process starts without threads and without a fabric.
LEMMA RuntimeStarts == R!Init => RuntimeInv
  <1> SUFFICES ASSUME R!Init PROVE RuntimeInv
    OBVIOUS
  <1>1. msgs \in 0..MaxMsgs
    BY RuntimeAssumption DEF R!Init
  <1>2. thread \in [R!Receiver -> {"none", "loop", "wait", "dispatch", "python", "ended"}]
        /\ thread["progress"] = "none"
    BY DEF R!Init, R!Receiver
  <1>3. R!TypeOK
    BY Zenon, <1>1, <1>2 DEF R!Init, R!TypeOK
  <1>4. ProgressInv
    BY <1>2 DEF ProgressInv, Progressing
  <1>5. DownInv /\ NeedsInv
    BY DEF R!Init, DownInv, NeedsInv
  <1> QED BY <1>3, <1>4, <1>5 DEF RuntimeInv

\* Every step of main and of the threads keeps the invariant.
LEMMA RuntimeSteps == RuntimeInv /\ [R!Next]_(R!vars) => RuntimeInv'
  <1> SUFFICES ASSUME RuntimeInv, [R!Next]_(R!vars) PROVE RuntimeInv'
    OBVIOUS
  <1>1. CASE UNCHANGED R!vars
    BY <1>1 DEF R!vars, RuntimeInv, R!TypeOK, ProgressInv, Progressing, DownInv, NeedsInv
  <1> QED BY <1>1, MainKeeps, ThreadKeeps DEF R!Next

\* In the runs that go through defw_shutdown the fabric's progress thread calls
\* into Python only while the interpreter is there; in every run it waits on
\* an open completion queue, and no fabric object is closed before those that
\* are built on it (ofi_fini).
THEOREM FabricIsSafe == R!Spec => []FabricFindsPython
  <1>1. RuntimeInv => FabricFindsPython
    BY SixObjects DEF RuntimeInv, ProgressInv, Progressing, DownInv, NeedsInv,
                     FabricFindsPython, R!FabricFindsPython
  <1> QED BY <1>1, RuntimeStarts, RuntimeSteps, PTL DEF R!Spec
=============================================================================
