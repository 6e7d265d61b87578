------------------------------- MODULE Framing ------------------------------
(***************************************************************************)
(* Messages on one TCP channel.  A sender holds the channel's mutex while  *)
(* it writes a header and a body, in as many writes as the socket takes;   *)
(* the listener of the peer reads a header, checks it, and reads as many   *)
(* bytes as the header says.  A header and a body are Units units each; a  *)
(* unit remembers what it is, which is how the reader's version and sender *)
(* checks tell a header from other bytes.                                  *)
(***************************************************************************)
EXTENDS Naturals, Sequences

CONSTANTS Senders,      \* threads, each sends one message
          Units,        \* length of a header, and of a body
          Buffer        \* what the socket holds

None == "none"

Frame(t) == [i \in 1 .. 2 * Units |-> [from |-> t, pos |-> i]]
Body(t) == SubSeq(Frame(t), Units + 1, 2 * Units)

VARIABLES
    mutex,       \* the channel's send mutex
    fd,          \* the sender's descriptor: "open" or "closed"
    pc,          \* a sender
    left,        \* what it still has to write
    stream,      \* units in the connection
    reader,      \* the peer's listener for this channel
    got,         \* what it has of the current frame
    delivered,   \* bodies handed to a message handler
    order,       \* senders in the order of their first writes
    cut          \* part of a frame was left in a connection that is up

vars == <<mutex, fd, pc, left, stream, reader, got, delivered, order, cut>>

Init ==
    /\ mutex = None /\ fd = "open"
    /\ pc = [t \in Senders |-> "start"] /\ left = [t \in Senders |-> <<>>]
    /\ stream = <<>> /\ reader = "reading" /\ got = <<>> /\ delivered = <<>>
    /\ order = <<>> /\ cut = FALSE

-----------------------------------------------------------------------------
(* tcp_send and defw_send_msg. *)

\* Mutant: no mutex.
MutLock(t) ==
    /\ pc[t] = "start"
    /\ mutex' = mutex
    /\ left' = [left EXCEPT ![t] = Frame(t)]
    /\ pc' = [pc EXCEPT ![t] = IF fd = "open" THEN "writing" ELSE "failed"]
    /\ UNCHANGED <<fd, stream, reader, got, delivered, order, cut>>

\* The descriptor is read with the mutex held; a closed one is refused.
Lock(t) ==
    /\ pc[t] = "start" /\ mutex = None
    /\ IF fd = "open"
       THEN /\ mutex' = t
            /\ left' = [left EXCEPT ![t] = Frame(t)]
            /\ pc' = [pc EXCEPT ![t] = "writing"]
       ELSE /\ pc' = [pc EXCEPT ![t] = "failed"]
            /\ UNCHANGED <<mutex, left>>
    /\ UNCHANGED <<fd, stream, reader, got, delivered, order, cut>>

\* write() takes part of the header or of the body.
Write(t) ==
    /\ pc[t] = "writing" /\ left[t] # <<>> /\ reader = "reading"
    /\ \E n \in 1 .. Len(left[t]) :
          /\ Len(stream) + n <= Buffer
          /\ stream' = stream \o SubSeq(left[t], 1, n)
          /\ left' = [left EXCEPT ![t] = SubSeq(@, n + 1, Len(@))]
    /\ order' = IF left[t] = Frame(t) THEN Append(order, t) ELSE order
    /\ UNCHANGED <<mutex, fd, pc, reader, got, delivered, cut>>

Unlock(t, rc) ==
    /\ pc' = [pc EXCEPT ![t] = rc]
    /\ mutex' = IF mutex = t THEN None ELSE mutex

Written(t) ==
    /\ pc[t] = "writing" /\ left[t] = <<>>
    /\ Unlock(t, "ok")
    /\ UNCHANGED <<fd, left, stream, reader, got, delivered, order, cut>>

\* write() fails, because the peer is gone or (SO_SNDTIMEO, or a descriptor
\* that does not block yet) because the socket stays full.  What was written
\* stays written.
WriteFails(t) ==
    /\ pc[t] = "writing" /\ left[t] # <<>>
    /\ Unlock(t, "failed")
    /\ cut' = (cut \/ (left[t] # Frame(t) /\ reader = "reading"))
    /\ UNCHANGED <<fd, left, stream, reader, got, delivered, order>>

\* close_agent_channel_unlocked takes the mutex to close the descriptor.
Close ==
    /\ fd = "open" /\ mutex = None
    /\ fd' = "closed"
    /\ UNCHANGED <<mutex, pc, left, stream, reader, got, delivered, order, cut>>

-----------------------------------------------------------------------------
(* readTcpMessage and process_agent_message. *)

IsHeader(units) == \E t \in Senders : units = SubSeq(Frame(t), 1, Units)

\* One more unit; a header is checked when it is complete.
Read ==
    /\ reader = "reading" /\ stream # <<>> /\ Len(got) < 2 * Units
    /\ stream' = Tail(stream)
    /\ got' = Append(got, Head(stream))
    /\ reader' = IF Len(got') = Units /\ ~IsHeader(got') THEN "bad" ELSE "reading"
    /\ UNCHANGED <<mutex, fd, pc, left, delivered, order, cut>>

\* Mutant: the listener serves one message of a connection.
MutDeliverOne ==
    /\ reader = "reading" /\ Len(got) = 2 * Units /\ delivered = <<>>
    /\ delivered' = Append(delivered, SubSeq(got, Units + 1, 2 * Units))
    /\ got' = <<>>
    /\ UNCHANGED <<mutex, fd, pc, left, stream, reader, order, cut>>

\* The body goes to the handler of its type.
Deliver ==
    /\ reader = "reading" /\ Len(got) = 2 * Units
    /\ delivered' = Append(delivered, SubSeq(got, Units + 1, 2 * Units))
    /\ got' = <<>>
    /\ UNCHANGED <<mutex, fd, pc, left, stream, reader, order, cut>>

\* The sender closed and everything was read, or the rest of a frame does not
\* come within TCP_READ_TIMEOUT_SEC: the connection is dropped.
ReadFails ==
    /\ reader = "reading" /\ stream = <<>> /\ Len(got) < 2 * Units
    /\ fd = "closed" \/ got # <<>>
    /\ reader' = "dropped"
    /\ UNCHANGED <<mutex, fd, pc, left, stream, got, delivered, order, cut>>

Next ==
    \/ \E t \in Senders : Lock(t) \/ Write(t) \/ Written(t) \/ WriteFails(t)
    \/ Close \/ Read \/ Deliver \/ ReadFails

Spec == Init /\ [][Next]_vars

\* Threads run, sockets drain, and the listener keeps reading.
Fairness ==
    /\ WF_vars(Read) /\ WF_vars(Deliver) /\ WF_vars(ReadFails)
    /\ \A t \in Senders : SF_vars(Lock(t)) /\ WF_vars(Write(t) \/ Written(t))
                          /\ WF_vars(WriteFails(t) /\ reader # "reading")

\* The channel was closed before anything was sent.
Closed ==
    /\ mutex = None /\ fd = "closed"
    /\ pc = [t \in Senders |-> "failed"] /\ left = [t \in Senders |-> <<>>]
    /\ stream = <<>> /\ reader = "dropped" /\ got = <<>> /\ delivered = <<>>
    /\ order = <<>> /\ cut = FALSE

-----------------------------------------------------------------------------
(* Properties. *)

\* Shapes of the channel.
TypeOK ==
    /\ mutex \in Senders \cup {None} /\ fd \in {"open", "closed"}
    /\ pc \in [Senders -> {"start", "writing", "ok", "failed"}]
    /\ reader \in {"reading", "bad", "dropped"}
    /\ cut \in BOOLEAN /\ Len(stream) <= Buffer /\ Len(got) <= 2 * Units
    /\ \A t \in Senders : Len(left[t]) <= 2 * Units

\* The messages delivered are the messages sent, whole, once each, and in the
\* order of their first writes, however the writes are cut up; no header is
\* refused, until a write fails part way and the connection is used again
\* ("concurrent send corrupted a frame version", "... interleaved frame
\* bodies": tests/transport/test_phase1_transport_contracts.c).
FramesIntact ==
    ~cut => /\ reader # "bad"
            /\ Len(delivered) <= Len(order)
            /\ \A i \in 1 .. Len(delivered) : delivered[i] = Body(order[i])

\* A send that returned success is delivered, or the connection goes down,
\* unless part of a frame was left in it.
SentIsDelivered ==
    \A t \in Senders : (pc[t] = "ok") ~> \/ \E i \in 1 .. Len(delivered) :
                                                delivered[i] = Body(t)
                                         \/ reader # "reading" \/ cut

=============================================================================
