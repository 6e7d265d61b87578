-------------------------------- MODULE Rma ---------------------------------
(***************************************************************************)
(* Messages with large buffers.  The sender takes the buffers out of the   *)
(* message, leaves a marker in the place of each, registers a copy of each *)
(* with the fabric (or puts it in the message after all) and names the     *)
(* registrations in the message.  The receiver reads each region,          *)
(* acknowledges it, which releases the registration, and puts the buffers  *)
(* back.  A message whose send failed has its registrations discarded.     *)
(*                                                                         *)
(* The reads and the acknowledgements are operations on the transmit queue *)
(* of the receiver, which OfiTx models: this module composes the two.  A   *)
(* handle and the key the peer reads with name the same region and are one *)
(* number here.  The leaves of a message are in the order _extract walks   *)
(* them; the containers around them are kept as they are by both walks.    *)
(***************************************************************************)
EXTENDS OfiTx, Functions

CONSTANTS Msgs,          \* messages, each sent once by a thread of its own
          Bodies,        \* what may be sent: functions in [Msgs -> Seq(Kinds)]
          ReadOp, AckOp, \* [Msgs -> Seq(Ops)], the operations of a payload
          Handles        \* registration handles

Kinds == {"plain", "small bytes", "ndarray", "bytes", "bytearray"}
ASSUME RmaAssumption ==
    /\ \A b \in Bodies, m \in Msgs : b[m] \in Seq(Kinds)
    /\ \A m \in Msgs : /\ ReadOp[m] \in Seq(Reads) /\ AckOp[m] \in Seq(Sends)
                       /\ Len(ReadOp[m]) = Len(AckOp[m])
                       /\ 1 .. Len(ReadOp[m]) \subseteq Handles
    /\ \A m, n \in Msgs : \A i \in DOMAIN ReadOp[m], j \in DOMAIN ReadOp[n] :
          \/ m = n /\ i = j
          \/ ReadOp[m][i] # ReadOp[n][j] /\ AckOp[m][i] # AckOp[n][j]
    /\ Handles \subseteq Nat \ {0} /\ Handles = 1 .. Cardinality(Handles)

Inline == 0          \* handle 0 is reserved as "no registration"
Junk == [msg |-> "none", index |-> 0]  \* a buffer nothing was read into

VARIABLES
    body,        \* the leaves of the messages, fixed at the start
    up,          \* the sender's endpoint
    regions,     \* the registered regions: handle -> the payload copied
    nextHandle,
    closed,      \* how often a region was closed
    tx,          \* a message at its sender
    payloads,    \* its payload list: handles and Inline
    published,   \* the handles attach_discard would release
    rx,          \* a message at its receiver
    buffer,      \* what a read found: [Reads -> payload]
    decoded,     \* the payloads restored so far
    acks,        \* acknowledgements under way: [handle, via]
    stranded,    \* handles the receiver could not acknowledge
    connected    \* the connection the messages and acknowledgements use

mrVars == <<up, regions, nextHandle, closed>>
txVars == <<body, tx, payloads, published>>
rxVars == <<rx, buffer, decoded, stranded>>
rmaVars == <<mrVars, txVars, rxVars, acks, connected>>
allVars == <<vars, rmaVars>>

-----------------------------------------------------------------------------
(* The walks over a message. *)

Large(kind) == kind \in {"ndarray", "bytes", "bytearray"}

\* How many attachments the first n leaves give.
Before(leaves, n) == Cardinality({i \in 1 .. n : Large(leaves[i])})
Payloads(m) == Before(body[m], Len(body[m]))

\* Every payload has a read and an acknowledgement of its own.
ASSUME OpsSuffice ==
    \A b \in Bodies, m \in Msgs : Before(b[m], Len(b[m])) \in 0 .. Len(ReadOp[m])

Leaf(kind, from) == [kind |-> kind, from |-> from]
Marker(kind, index) == [marker |-> index,
                        kind |-> IF kind = "ndarray" THEN "ndarray" ELSE "bytes"]

\* Mutant: the index is taken after the append.
MutExtract(leaves) ==
    [i \in 1 .. Len(leaves) |->
        IF Large(leaves[i]) THEN Marker(leaves[i], Before(leaves, i) + 1)
        ELSE Leaf(leaves[i], i)]

\* _extract: an attachment is replaced by a marker with its index, and a
\* bytearray becomes bytes.
Extract(leaves) ==
    [i \in 1 .. Len(leaves) |->
        IF Large(leaves[i]) THEN Marker(leaves[i], Before(leaves, i))
        ELSE Leaf(leaves[i], i)]

\* _reinject: a marker is replaced by the attachment it names.
Reinject(msg, attachments) ==
    [i \in 1 .. Len(msg) |->
        IF "marker" \notin DOMAIN msg[i] THEN msg[i]
        ELSE IF msg[i].marker \in DOMAIN attachments
        THEN Leaf(msg[i].kind, attachments[msg[i].marker])
        ELSE Leaf(msg[i].kind, Junk)]

RmaInit ==
    /\ Init /\ body \in Bodies
    /\ up = TRUE /\ regions = [h \in {} |-> 0] /\ nextHandle = 1
    /\ closed = [h \in Handles |-> 0]
    /\ tx = [m \in Msgs |-> "encode"]
    /\ payloads = [m \in Msgs |-> <<>>] /\ published = [m \in Msgs |-> <<>>]
    /\ rx = [m \in Msgs |-> "none"] /\ decoded = [m \in Msgs |-> <<>>]
    /\ buffer = [o \in Reads |-> Junk]
    /\ acks = {} /\ stranded = {} /\ connected = TRUE

-----------------------------------------------------------------------------
(* Registrations. *)

\* ofi_mr_reg_common under mr_lock.
Register(payload) ==
    /\ regions' = [h \in DOMAIN regions \cup {nextHandle} |->
                     IF h = nextHandle THEN payload ELSE regions[h]]
    /\ nextHandle' = nextHandle + 1
    /\ UNCHANGED <<up, closed>>

\* defw_transport_ofi_mr_release: an unknown handle is left alone.
Release(hs) ==
    LET known == hs \cap DOMAIN regions IN
    /\ regions' = Restrict(regions, DOMAIN regions \ known)
    /\ closed' = [h \in Handles |-> IF h \in known THEN closed[h] + 1
                                    ELSE closed[h]]
    /\ UNCHANGED <<up, nextHandle>>

\* ofi_fini: what is registered is released, and the endpoint goes.
Teardown ==
    /\ up
    /\ regions' = [h \in {} |-> 0]
    /\ closed' = [h \in Handles |-> IF h \in DOMAIN regions THEN closed[h] + 1
                                    ELSE closed[h]]
    /\ up' = FALSE
    /\ UNCHANGED <<vars, nextHandle, txVars, rxVars, acks, connected>>

-----------------------------------------------------------------------------
(* The sender. *)

Payload(m) == [msg |-> m, index |-> Len(payloads[m]) + 1]

Append1(f, m, x) == [f EXCEPT ![m] = Append(@, x)]

\* Mutant: the handles published are not remembered.
MutPublish(m) ==
    /\ tx[m] = "encode" /\ Len(payloads[m]) < Payloads(m) /\ up
    /\ Register(Payload(m))
    /\ payloads' = Append1(payloads, m, nextHandle)
    /\ UNCHANGED <<vars, body, tx, published, rxVars, acks, connected>>

\* _encode_payloads registers one payload.
Publish(m) ==
    /\ tx[m] = "encode" /\ Len(payloads[m]) < Payloads(m) /\ up
    /\ Register(Payload(m))
    /\ payloads' = Append1(payloads, m, nextHandle)
    /\ published' = Append1(published, m, nextHandle)
    /\ UNCHANGED <<vars, body, tx, rxVars, acks, connected>>

\* ... or sends it inline: it is small, RMA is not available to this peer, or
\* the registration failed.
SendInline(m) ==
    /\ tx[m] = "encode" /\ Len(payloads[m]) < Payloads(m)
    /\ payloads' = Append1(payloads, m, Inline)
    /\ UNCHANGED <<vars, body, tx, published, mrVars, rxVars, acks, connected>>

\* attach_encode has its payload list.
Encoded(m) == tx[m] = "encode" /\ Len(payloads[m]) = Payloads(m)

\* yaml.dump raises, after the payloads were published.
DumpRaises(m) ==
    /\ Encoded(m)
    /\ tx' = [tx EXCEPT ![m] = "raised"]
    /\ UNCHANGED <<vars, body, payloads, published, mrVars, rxVars, acks, connected>>

SendOk(m) ==
    /\ Encoded(m) /\ connected
    /\ tx' = [tx EXCEPT ![m] = "sent"]
    /\ rx' = [rx EXCEPT ![m] = "arrived"]
    /\ UNCHANGED <<vars, body, payloads, published, mrVars, buffer, decoded, stranded,
                   acks, connected>>

\* defw_send returns an error, although the message may arrive (a timeout);
\* what was published is discarded next.
SendFails(m) ==
    /\ Encoded(m)
    /\ \/ rx' = rx
       \/ connected /\ rx' = [rx EXCEPT ![m] = "arrived"]
    /\ tx' = [tx EXCEPT ![m] = "discard"]
    /\ UNCHANGED <<vars, body, payloads, published, mrVars, buffer, decoded, stranded,
                   acks, connected>>

\* attach_discard, one handle after the other.
Discard(m) ==
    /\ tx[m] = "discard"
    /\ IF published[m] = <<>>
       THEN /\ tx' = [tx EXCEPT ![m] = "failed"]
            /\ UNCHANGED <<payloads, published, mrVars>>
       ELSE /\ Release({Head(published[m])})
            /\ published' = [published EXCEPT ![m] = Tail(@)]
            /\ UNCHANGED <<tx, payloads>>
    /\ UNCHANGED <<vars, body, rxVars, acks, connected>>

-----------------------------------------------------------------------------
(* The receiver. *)

Current(m) == Len(decoded[m]) + 1
Decoding(m) == rx[m] = "arrived" /\ Current(m) <= Len(payloads[m])
ByRma(m) == Decoding(m) /\ payloads[m][Current(m)] # Inline

\* A payload in the message itself.
DecodeInline(m) ==
    /\ Decoding(m) /\ ~ByRma(m)
    /\ decoded' = Append1(decoded, m, [msg |-> m, index |-> Current(m)])
    /\ UNCHANGED <<vars, mrVars, txVars, rx, buffer, stranded, acks, connected>>

\* defw_rma_fetch finds the sender and waits for send_lock, ...
FetchStarts(m) ==
    /\ ByRma(m) /\ connected
    /\ Acquire(ReadOp[m][Current(m)])
    /\ UNCHANGED rmaVars

\* ... or does not find it: the message is lost.
FetchFails(m) ==
    /\ ByRma(m) /\ ~connected /\ op[ReadOp[m][Current(m)]] = "start"
    /\ rx' = [rx EXCEPT ![m] = "lost"]
    /\ UNCHANGED <<vars, mrVars, txVars, buffer, decoded, stranded, acks, connected>>

\* The ways an operation ends.
Returns(o) == PostFails(o) \/ ReadCq(o) \/ TimeOut(o) \/ CqFails(o)

\* A read that fails makes _rma_fetch raise: the message is lost, and its other
\* payloads are not read.
ReadReturns(m) ==
    /\ ByRma(m)
    /\ LET o == ReadOp[m][Current(m)]
       IN  /\ Returns(o)
           /\ rx' = [rx EXCEPT ![m] = IF op'[o] = "EN_DEFW_RC_OK" THEN "ack"
                                      ELSE "lost"]
    /\ UNCHANGED <<mrVars, txVars, buffer, decoded, stranded, acks, connected>>

\* defw_rma_fetch returns its buffer; a failed acknowledgement is only logged.
Fetched(m, acked) ==
    LET i == Current(m) IN
    /\ decoded' = Append1(decoded, m, buffer[ReadOp[m][i]])
    /\ stranded' = IF acked THEN stranded ELSE stranded \cup {payloads[m][i]}
    /\ rx' = [rx EXCEPT ![m] = "arrived"]
    /\ UNCHANGED <<mrVars, txVars, buffer, connected>>

Acknowledge(m, via) == [handle |-> payloads[m][Current(m)], via |-> via]

\* defw_send_rma_ack to a peer that is not ready for the fabric.
AckTcp(m) ==
    /\ rx[m] = "ack" /\ op[AckOp[m][Current(m)]] = "start"
    /\ \/ connected /\ Fetched(m, TRUE) /\ acks' = acks \cup {Acknowledge(m, "tcp")}
       \/ Fetched(m, FALSE) /\ UNCHANGED acks
    /\ UNCHANGED vars

AckStarts(m) ==
    /\ rx[m] = "ack"
    /\ Acquire(AckOp[m][Current(m)])
    /\ UNCHANGED rmaVars

AckReturns(m) ==
    /\ rx[m] = "ack"
    /\ LET o == AckOp[m][Current(m)]
       IN  Returns(o) /\ Fetched(m, op'[o] = "EN_DEFW_RC_OK")
    /\ UNCHANGED acks

\* The payload an operation is for: <<message, index>>.
PayloadOf(o) ==
    CHOOSE p \in {<<m, i>> : m \in Msgs, i \in Handles} :
        p[2] \in DOMAIN ReadOp[p[1]] /\ o \in {ReadOp[p[1]][p[2]], AckOp[p[1]][p[2]]}
RegionOf(o) == payloads[PayloadOf(o)[1]][PayloadOf(o)[2]]

\* Mutant: the first acknowledgement is for the whole message.
MutAcksOf(o) ==
    [handle : Range(payloads[PayloadOf(o)[1]]) \ {Inline}, via : {"ofi"}]

\* What arrives when a send succeeds: the handle to release.
AcksOf(o) == [handle : {RegionOf(o)}, via : {"ofi"}]

\* What the provider does for an operation: a read succeeds only if the region
\* is registered, an acknowledgement that succeeds is delivered.
Deliver(o) ==
    /\ Provider(o)
    /\ IF landed' = landed THEN UNCHANGED <<acks, buffer>>
       ELSE IF o \in Reads
       THEN /\ RegionOf(o) \in DOMAIN regions
            /\ buffer' = [buffer EXCEPT ![o] = regions[RegionOf(o)]]
            /\ UNCHANGED acks
       ELSE acks' = acks \cup AcksOf(o) /\ UNCHANGED buffer
    /\ UNCHANGED <<mrVars, txVars, rx, decoded, stranded, connected>>

Posting(o) == (Post(o) \/ PostAgain(o)) /\ UNCHANGED rmaVars

\* attach_load puts the payloads back and hands the message on.
Decoded(m) ==
    /\ rx[m] = "arrived" /\ Len(decoded[m]) = Len(payloads[m])
    /\ rx' = [rx EXCEPT ![m] = "loaded"]
    /\ UNCHANGED <<vars, mrVars, txVars, buffer, decoded, stranded, acks, connected>>

\* process_msg_rma_ack returns what the release returned; read from TCP, an
\* error makes the listener drop the connection.
RmaAck(a) ==
    /\ a \in acks /\ connected
    /\ acks' = acks \ {a}
    /\ Release({a.handle})
    /\ connected' = (a.handle \in DOMAIN regions \/ a.via = "ofi")
    /\ UNCHANGED <<vars, txVars, rxVars>>

Sender(m) == Publish(m) \/ SendInline(m) \/ DumpRaises(m) \/ SendOk(m)
             \/ SendFails(m) \/ Discard(m)
Receiver(m) == DecodeInline(m) \/ FetchFails(m) \/ ReadReturns(m)
               \/ AckTcp(m) \/ AckReturns(m) \/ Decoded(m)

Work ==
    \/ \E m \in Msgs : Sender(m) \/ Receiver(m) \/ FetchStarts(m) \/ AckStarts(m)
    \/ \E o \in Ops : Posting(o) \/ Deliver(o)
    \/ \E a \in acks : RmaAck(a)

RmaNext == Work \/ Teardown

\* While a thread, the provider or an acknowledgement can go on, one of them
\* does.  Each operation is run once, so no thread is starved by the others.
RmaSpec == RmaInit /\ [][RmaNext]_allVars /\ WF_allVars(Work)

-----------------------------------------------------------------------------
(* Properties. *)

\* Shapes of the registrations and of the messages.
RmaTypeOK ==
    /\ TypeOK
    /\ up \in BOOLEAN /\ connected \in BOOLEAN
    /\ DOMAIN regions \subseteq Handles
    /\ nextHandle \in 1 .. Cardinality(Handles) + 1
    /\ closed \in [Handles -> Nat]
    /\ tx \in [Msgs -> {"encode", "sent", "discard", "failed", "raised"}]
    /\ rx \in [Msgs -> {"none", "arrived", "ack", "loaded", "lost"}]
    /\ \A m \in Msgs : /\ Len(payloads[m]) <= Payloads(m)
                       /\ Range(published[m]) \subseteq Range(payloads[m])
    /\ acks \subseteq [handle : Handles, via : {"tcp", "ofi"}]
    /\ stranded \subseteq Handles

\* "the region stays registered until it acknowledges" (attach_encode): every
\* region a message that was sent still has to read is registered, while the
\* sender's endpoint is up.  "A stale or duplicated release is rejected"
\* (ofi_mr_entry): whatever the order of acknowledgements, discards and
\* teardown, a region is closed once, and not while it is registered.
RegionServed ==
    /\ up => \A m \in Msgs : tx[m] = "sent" /\ rx[m] = "arrived" =>
               \A i \in Current(m) .. Len(payloads[m]) :
                   \/ payloads[m][i] = Inline
                   \/ payloads[m][i] \in DOMAIN regions
    /\ \A h \in Handles : IF h \in DOMAIN regions \/ h >= nextHandle
                          THEN closed[h] = 0 ELSE closed[h] = 1

\* A message is handed on with its own leaves, each in its place, whichever mix
\* of RMA and inline its buffers travelled by (attach_load undoes attach_dump),
\* until a wait for the fabric is given up.
PayloadsInPlace ==
    gaveUp = {} => \A m \in Msgs : rx[m] = "loaded" =>
        LET msg == Reinject(Extract(body[m]), decoded[m])
        IN  \A i \in DOMAIN body[m] :
               IF Large(body[m][i])
               THEN /\ msg[i].from = [msg |-> m, index |-> Before(body[m], i)]
                    /\ (msg[i].kind = "ndarray") = (body[m][i] = "ndarray")
               ELSE msg[i] = Leaf(body[m][i], i)

\* No registration is pinned until shutdown: a published region is released, by
\* its acknowledgement or because its message did not go out (send_rsp,
\* send_req).  Four things pin one: encoding raised after it was published, its
\* message was lost at the receiver, its acknowledgement could not be sent, or
\* the connection broke.
RegionsReleased ==
    <>[](\A h \in DOMAIN regions :
            \/ h \in stranded \/ ~connected \/ gaveUp # {}
            \/ \E m \in Msgs : /\ h \in Range(payloads[m])
                               /\ tx[m] = "raised" \/ rx[m] = "lost")
=============================================================================
