----------------------------- MODULE RmaProofs ------------------------------
(***************************************************************************)
(* The transmit queue, and the registrations of the messages that use it.  *)
(*                                                                         *)
(* The queue, for any number of sends and reads, until a wait is given up  *)
(* (gaveUp): it and the provider hold at most the operation of the thread  *)
(* that has send_lock.  Inv says it in the form a step preserves: an       *)
(* operation is locked or posted exactly if it has the lock, and until it  *)
(* is posted there is nothing with the provider or on the queue;           *)
(* afterwards it is in exactly one of the two.                             *)
(***************************************************************************)
EXTENDS Rma, TLAPS

Entry(o, ok) == [op |-> o, ok |-> ok]

\* The posted operation is with the provider, or its completion is queued.
Outstanding(o) ==
    \/ fabric = {o} /\ txCq = <<>>
    \/ \E ok \in BOOLEAN : /\ fabric = {} /\ txCq = <<Entry(o, ok)>>
                           /\ (ok <=> o \in landed)

Inv ==
    /\ op \in [Ops -> {"start", "locked", "posted"} \cup Codes]
    /\ \A o \in Ops : op[o] \in {"locked", "posted"} <=> lock = o
    /\ \A o \in Ops : op[o] = "posted" => Outstanding(o)
    /\ (\A o \in Ops : op[o] # "posted") => fabric = {} /\ txCq = <<>>
    /\ \A o \in Ops : op[o] \in {"start", "locked"} => o \notin landed \cup freed
    /\ \A o \in Ops : op[o] = "posted" => o \notin freed
    /\ \A o \in fabric : o \notin landed
    /\ \A o \in Ops : op[o] = "EN_DEFW_RC_OK" => o \in landed

\* The invariant holds before any operation starts.
LEMMA InvInit == Init => Inv
BY Zenon, NoneAssumption DEF Init, Inv, Codes, Outstanding

\* Every step of a thread or of the provider preserves the invariant.
LEMMA InvNext == ASSUME Inv, [Next]_vars, gaveUp' = {} PROVE Inv'
<1> USE NoneAssumption DEF Codes
<1>1. CASE UNCHANGED vars
  BY Zenon, <1>1 DEF vars, Inv, Outstanding
<1>2. ASSUME NEW o \in Ops, Acquire(o) PROVE Inv'
  <2>1. \A p \in Ops : op[p] # "posted" /\ op'[p] # "posted"
    BY Zenon, <1>2 DEF Inv, Acquire
  <2> QED BY Zenon, <1>2, <2>1 DEF Inv, Acquire, Outstanding
<1>3. ASSUME NEW o \in Ops, Post(o) PROVE Inv'
  <2>1. /\ fabric = {} /\ txCq = <<>> /\ lock = o
        /\ \A p \in Ops : op[p] # "posted"
    BY Zenon, <1>3 DEF Inv, Post
  <2>2. fabric' = {o} /\ txCq' = <<>>
    BY Zenon, <1>3, <2>1 DEF Post
  <2>3. \A p \in Ops : op'[p] = "posted" => p = o
    BY Zenon, <1>3, <2>1 DEF Post, Inv
  <2> QED BY Zenon, <1>3, <2>1, <2>2, <2>3 DEF Inv, Post, Outstanding
<1>4. ASSUME NEW o \in Ops, PostAgain(o) PROVE Inv'
  <2>1. txCq = <<>>
    BY Zenon, <1>4 DEF Inv, PostAgain
  <2> QED BY Zenon, <1>4, <2>1 DEF PostAgain
<1>5. ASSUME NEW o \in Ops, PostFails(o) PROVE Inv'
  <2>1. /\ fabric = {} /\ txCq = <<>> /\ lock = o
        /\ \A p \in Ops : op[p] # "posted"
    BY Zenon, <1>5 DEF Inv, PostFails
  <2>2. \A p \in Ops : op'[p] # "posted"
    BY Zenon, <1>5, <2>1 DEF PostFails, Leave, Inv
  <2> QED BY Zenon, <1>5, <2>1, <2>2 DEF Inv, PostFails, Leave
<1>6. ASSUME NEW o \in Ops, ReadCq(o) PROVE Inv'
  <2>1. lock = o /\ \A p \in Ops : op[p] = "posted" => p = o
    BY Zenon, <1>6 DEF Inv, ReadCq
  <2>2. PICK ok \in BOOLEAN : /\ fabric = {} /\ txCq = <<Entry(o, ok)>>
                              /\ (ok <=> o \in landed)
    BY Zenon, <1>6 DEF Inv, ReadCq, Outstanding
  <2>3. Head(txCq).ok = ok /\ Tail(txCq) = <<>>
    BY SMTT(30), <2>2 DEF Entry
  <2>4. /\ op' = [op EXCEPT ![o] = IF ok THEN "EN_DEFW_RC_OK"
                                   ELSE "EN_DEFW_RC_SOCKET_FAIL"]
        /\ lock' = None /\ freed' = freed \cup ({o} \cap Sends)
        /\ fabric' = {} /\ txCq' = <<>> /\ landed' = landed
    BY ZenonT(30), <1>6, <2>2, <2>3 DEF ReadCq, Leave
  <2>5. \A p \in Ops : op'[p] # "posted"
    BY Zenon, <2>1, <2>4 DEF Inv
  <2> QED BY Zenon, <2>1, <2>2, <2>4, <2>5 DEF Inv
<1>7. ASSUME NEW o \in Ops, Provider(o) PROVE Inv'
  <2>1. PICK ok \in BOOLEAN :
          /\ txCq' = Append(txCq, [op |-> o, ok |-> ok])
          /\ landed' = IF ok THEN landed \cup {o} ELSE landed
    BY Zenon, <1>7 DEF Provider
  <2>2. /\ fabric = {o} /\ txCq = <<>> /\ op[o] = "posted" /\ o \notin landed
        /\ lock = o
    <3>1. PICK p \in Ops : op[p] = "posted"
      BY Zenon, <1>7 DEF Inv, Provider
    <3> QED BY Zenon, <3>1, <1>7 DEF Inv, Provider, Outstanding
  <2>3. txCq' = <<Entry(o, ok)>> /\ fabric' = {}
    BY SMTT(30), <1>7, <2>1, <2>2 DEF Entry, Provider
  <2>4. (ok <=> o \in landed') /\ op' = op /\ lock' = lock /\ freed' = freed
    BY Zenon, <1>7, <2>1, <2>2 DEF Provider
  <2>5. \A p \in Ops : (op[p] = "posted" => p = o)
                       /\ (p # o => (p \in landed' <=> p \in landed))
    BY Zenon, <2>1, <2>2 DEF Inv
  <2>6. Outstanding(o)'
    BY Zenon, <2>3, <2>4 DEF Outstanding
  <2> QED BY Zenon, <2>2, <2>3, <2>4, <2>5, <2>6 DEF Inv
<1>8. ~ \E o \in Ops : TimeOut(o) \/ CqFails(o)
  BY Zenon DEF TimeOut, CqFails
<1> QED BY Zenon, <1>1, <1>2, <1>3, <1>4, <1>5, <1>6, <1>7, <1>8 DEF Next

\* What the invariant gives: a waiting operation finds its own completion, a
\* successful read has its data, a freed buffer is not with the provider.
LEMMA InvImplies == Inv /\ fabric \subseteq Ops =>
                        CompletionIsOurs /\ ReadHasData /\ BufferIsSafe
<1> SUFFICES ASSUME Inv, fabric \subseteq Ops
             PROVE CompletionIsOurs /\ ReadHasData /\ BufferIsSafe
  BY Zenon
<1>1. ASSUME NEW o \in Ops, op[o] = "posted"
      PROVE /\ \A i \in 1 .. Len(txCq) : txCq[i].op = o
            /\ fabric \subseteq {o}
  <2>1. Outstanding(o)
    BY Zenon, <1>1 DEF Inv
  <2>2. CASE fabric = {o} /\ txCq = <<>>
    BY SMTT(30), <2>2
  <2>3. CASE \E ok \in BOOLEAN : fabric = {} /\ txCq = <<Entry(o, ok)>>
    <3>1. PICK ok \in BOOLEAN : fabric = {} /\ txCq = <<Entry(o, ok)>>
      BY Zenon, <2>3
    <3>2. Len(txCq) = 1 /\ txCq[1].op = o
      BY Zenon, <3>1 DEF Entry
    <3> QED BY SMTT(30), <3>1, <3>2
  <2> QED BY Zenon, <2>1, <2>2, <2>3 DEF Outstanding
<1>2. ReadHasData
  BY Zenon DEF Inv, ReadHasData, Ops
<1>3. BufferIsSafe
  <2>1. \A o \in fabric : \E p \in Ops : op[p] = "posted"
    BY Zenon DEF Inv
  <2> QED BY Zenon, <2>1 DEF Inv, BufferIsSafe, Outstanding
<1> QED BY Zenon, <1>1, <1>2, <1>3 DEF CompletionIsOurs

\* A wait that was given up is not forgotten.
LEMMA GaveUpGrows == [Next]_vars /\ gaveUp' = {} => gaveUp = {}
BY Zenon DEF Next, vars, Acquire, Post, PostAgain, PostFails, ReadCq, TimeOut, CqFails,
       Provider

\* For any number of sending and reading threads, until a wait ends without a
\* completion: the completion a thread takes from the transmit queue is its
\* own, a read that succeeds has its data, and no buffer is freed under the
\* provider (send_lock in ofi_send_msg and defw_transport_ofi_rma_read).
THEOREM OwnCompletions ==
    Spec => [](CompletionIsOurs /\ ReadHasData /\ BufferIsSafe)
<1> DEFINE I == gaveUp = {} => Inv
<1>1. Init => I
  BY Zenon, InvInit
<1>2. I /\ [Next]_vars => I'
  BY Zenon, InvNext, GaveUpGrows
<1>3. I => CompletionIsOurs /\ ReadHasData /\ BufferIsSafe
  <2>1. Inv => fabric \subseteq Ops
    BY Zenon DEF Inv, Outstanding
  <2>2. CASE gaveUp = {}
    BY Zenon, <2>1, <2>2, InvImplies
  <2>3. CASE gaveUp # {}
    BY Zenon, <2>3 DEF CompletionIsOurs, ReadHasData, BufferIsSafe
  <2> QED BY Zenon, <2>2, <2>3
<1> HIDE DEF I
<1> QED BY <1>1, <1>2, <1>3, PTL DEF Spec

-----------------------------------------------------------------------------
(***************************************************************************)
(* The registrations.  The inductive invariant says that handles name one  *)
(* payload each, that an acknowledgement under way is for a payload that   *)
(* was read (Done), and that a payload that was not read is registered.    *)
(***************************************************************************)

Item == [msg : Msgs, index : Nat] \cup {Junk}
Piece(m, i) == [msg |-> m, index |-> i]

Shapes ==
    /\ body \in Bodies /\ up \in BOOLEAN
    /\ nextHandle \in Nat \ {0} /\ closed \in [Handles -> Nat]
    /\ regions \in [DOMAIN regions -> Item] /\ DOMAIN regions \subseteq Nat
    /\ tx \in [Msgs -> {"encode", "sent", "discard", "failed", "raised"}]
    /\ payloads \in [Msgs -> Seq(Nat)] /\ published \in [Msgs -> Seq(Nat)]
    /\ rx \in [Msgs -> {"none", "arrived", "ack", "loaded", "lost"}]
    /\ buffer \in [Reads -> Item] /\ decoded \in [Msgs -> Seq(Item)]

\* Payload i of message m is registered under a handle.
Registered(m, i) == i \in 1 .. Len(payloads[m]) /\ payloads[m][i] # Inline

\* The receiver has read it.
Done(m, i) == i < Current(m) \/ (i = Current(m) /\ rx[m] = "ack")

\* Handles are given out once, are released no earlier than that, and name one
\* payload each.
RegionInv == \A h \in DOMAIN regions : h # Inline /\ h < nextHandle
ClosedInv ==
    \A h \in Handles : IF h \in DOMAIN regions \/ h >= nextHandle
                       THEN closed[h] = 0 ELSE closed[h] = 1
PieceInv ==
    \A m \in Msgs : \A i \in 1 .. Len(payloads[m]) :
        /\ payloads[m][i] < nextHandle
        /\ payloads[m][i] \in DOMAIN regions => regions[payloads[m][i]] = Piece(m, i)
DistinctInv ==
    \A m, n \in Msgs : \A i \in 1 .. Len(payloads[m]), j \in 1 .. Len(payloads[n]) :
        payloads[m][i] = payloads[n][j] /\ payloads[m][i] # Inline => m = n /\ i = j
PublishedInv ==
    \A m \in Msgs : \A k \in 1 .. Len(published[m]) :
        \E i \in 1 .. Len(payloads[m]) : payloads[m][i] = published[m][k]
                                         /\ published[m][k] # Inline
HandleInv == RegionInv /\ ClosedInv /\ PieceInv /\ DistinctInv /\ PublishedInv

\* Where a message is at its two ends.
MessageAt(m) ==
    /\ Len(payloads[m]) <= Payloads(m)
    /\ Len(decoded[m]) <= Len(payloads[m])
    /\ tx[m] = "encode" => rx[m] = "none" /\ decoded[m] = <<>>
    /\ rx[m] # "none" => Len(payloads[m]) = Payloads(m)
    /\ rx[m] = "loaded" => Len(decoded[m]) = Len(payloads[m])
    /\ rx[m] = "ack" => /\ Registered(m, Current(m))
                        /\ op[ReadOp[m][Current(m)]] = "EN_DEFW_RC_OK"
MessageInv == \A m \in Msgs : MessageAt(m)

\* An acknowledgement is sent, and arrives, for a payload that was read.
AckInv ==
    /\ \A o \in fabric : op[o] # "start"
    /\ \A o \in Sends : op[o] # "start" =>
          \E m \in Msgs : \E i \in DOMAIN AckOp[m] :
              o = AckOp[m][i] /\ Registered(m, i) /\ Done(m, i)
    /\ \A a \in acks :
          \E m \in Msgs : \E i \in 1 .. Len(payloads[m]) :
              Registered(m, i) /\ a.handle = payloads[m][i] /\ Done(m, i)

\* A payload that was not read yet is still registered.
HeldInv ==
    up => \A m \in Msgs : tx[m] \in {"encode", "sent"} =>
              \A i \in 1 .. Len(payloads[m]) :
                  Registered(m, i) => payloads[m][i] \in DOMAIN regions \/ Done(m, i)

\* A read that landed has the payload it was for in its buffer.
DataInv ==
    /\ \A m \in Msgs : \A i \in DOMAIN ReadOp[m] :
          /\ op[ReadOp[m][i]] # "start" => Registered(m, i)
          /\ ReadOp[m][i] \in landed => buffer[ReadOp[m][i]] = Piece(m, i)
    /\ gaveUp = {} => \A m \in Msgs : \A i \in 1 .. Len(decoded[m]) :
                          decoded[m][i] = Piece(m, i)

RmaInv == Shapes /\ HandleInv /\ MessageInv /\ AckInv /\ HeldInv /\ DataInv

-----------------------------------------------------------------------------
(* Facts about the constants and the operators. *)

\* Each payload has a read and an acknowledgement of its own kind.
LEMMA OpNames ==
    ASSUME NEW m \in Msgs, NEW i \in 1 .. Len(ReadOp[m])
    PROVE  /\ i \in DOMAIN ReadOp[m] /\ i \in DOMAIN AckOp[m] /\ i \in Handles
           /\ ReadOp[m][i] \in Reads /\ AckOp[m][i] \in Sends
  BY SMTT(30), RmaAssumption

\* The two sequences of operations have the same indices.
LEMMA OpDomains ==
    ASSUME NEW m \in Msgs
    PROVE  /\ DOMAIN ReadOp[m] = 1 .. Len(ReadOp[m]) /\ DOMAIN AckOp[m] = 1 .. Len(ReadOp[m])
           /\ Len(ReadOp[m]) \in Nat
  BY SMTT(30), RmaAssumption

\* An operation belongs to one payload.
LEMMA OneOpEach ==
    ASSUME NEW m \in Msgs, NEW n \in Msgs, NEW i \in 1 .. Len(ReadOp[m]),
           NEW j \in 1 .. Len(ReadOp[n]),
           ReadOp[m][i] = ReadOp[n][j] \/ AckOp[m][i] = AckOp[n][j]
    PROVE  m = n /\ i = j
  BY Zenon, OpDomains, RmaAssumption

\* Handles are numbers, and none is the one reserved for inline payloads.
LEMMA HandlesAreNat == Handles \subseteq Nat \ {0}
  BY RmaAssumption

\* The number of payloads is a number that the operations suffice for.
LEMMA PayloadCount ==
    ASSUME Shapes, NEW m \in Msgs
    PROVE  Payloads(m) \in Nat /\ Payloads(m) <= Len(ReadOp[m])
<1>1. Payloads(m) \in 0 .. Len(ReadOp[m])
  BY OpsSuffice DEF Payloads, Shapes
<1> QED BY <1>1, OpDomains

\* The operation of a payload names it.
LEMMA PayloadOfOp ==
    ASSUME NEW m \in Msgs, NEW i \in 1 .. Len(ReadOp[m]), NEW o \in {ReadOp[m][i], AckOp[m][i]}
    PROVE  PayloadOf(o) = <<m, i>> /\ RegionOf(o) = payloads[m][i]
<1> DEFINE P(p) == p[2] \in DOMAIN ReadOp[p[1]]
                   /\ o \in {ReadOp[p[1]][p[2]], AckOp[p[1]][p[2]]}
           All == {<<n, j>> : n \in Msgs, j \in Handles}
<1>1. <<m, i>> \in All /\ P(<<m, i>>)
  BY SMTT(30), OpNames
<1>2. ASSUME NEW p \in All, P(p) PROVE p = <<m, i>>
  <2>1. PICK n \in Msgs, j \in Handles : p = <<n, j>>
    BY SMTT(30), <1>2
  <2>2. j \in 1 .. Len(ReadOp[n]) /\ o \in {ReadOp[n][j], AckOp[n][j]}
    BY SMTT(30), <1>2, <2>1, OpDomains
  <2>3. ReadOp[m][i] = ReadOp[n][j] \/ AckOp[m][i] = AckOp[n][j]
    BY SMTT(30), <2>2, OpNames, OpsAssumption
  <2> QED BY SMTT(30), <2>1, <2>2, <2>3, OneOpEach
<1>3. PayloadOf(o) = <<m, i>>
  BY SMTT(30), <1>1, <1>2 DEF PayloadOf
<1> QED BY SMTT(30), <1>3 DEF RegionOf

-----------------------------------------------------------------------------
(* What a step of the transmit queue does to the operations. *)

OpShape == op \in [Ops -> {"start", "locked", "posted"} \cup Codes] /\ fabric \subseteq Ops

\* Only operation o moves, and not back to its start.
Moves(o) ==
    /\ op'[o] # "start" /\ \A p \in Ops \ {o} : op'[p] = op[p]
    /\ op[o] \notin Codes
    /\ fabric' \subseteq fabric \cup {o} /\ landed' = landed /\ gaveUp \subseteq gaveUp'

\* Taking send_lock moves an operation from its start.
LEMMA AcquireMoves ==
    ASSUME OpShape, NEW o \in Ops, Acquire(o)
    PROVE  OpShape' /\ Moves(o) /\ op[o] = "start"
  BY Zenon DEF OpShape, Acquire, Moves, Codes

\* Posting moves an operation that has send_lock.
LEMMA PostingMoves ==
    ASSUME OpShape, NEW o \in Ops, Post(o) \/ PostAgain(o)
    PROVE  OpShape' /\ Moves(o) /\ op[o] = "locked"
  BY Zenon DEF OpShape, Post, PostAgain, Moves, Codes

\* An operation that ends was locked or posted.
LEMMA ReturnsMoves ==
    ASSUME OpShape, NEW o \in Ops, Returns(o)
    PROVE  OpShape' /\ Moves(o) /\ op[o] \in {"locked", "posted"} /\ fabric' = fabric
<1> USE DEF Returns, PostFails, ReadCq, TimeOut, CqFails, Leave
<1>1. PICK rc \in Codes : op' = [op EXCEPT ![o] = rc]
  BY Zenon DEF Codes
<1>2. op[o] \in {"locked", "posted"} /\ fabric' = fabric /\ landed' = landed
      /\ gaveUp \subseteq gaveUp'
  BY Zenon
<1> QED BY Zenon, <1>1, <1>2 DEF OpShape, Moves, Codes

\* The provider moves no operation; it may land the one it finishes.
LEMMA ProviderMoves ==
    ASSUME OpShape, NEW o \in Ops, Provider(o)
    PROVE  OpShape' /\ op' = op /\ fabric' \subseteq fabric /\ gaveUp' = gaveUp
           /\ o \in fabric /\ landed \subseteq landed' /\ landed' \subseteq landed \cup {o}
  BY Zenon DEF OpShape, Provider

-----------------------------------------------------------------------------
(* Steps that leave a conjunct of the invariant alone. *)

\* What is registered stays so, under its handle, and what was read stays read.
Kept ==
    \A m \in Msgs : \A i : Registered(m, i) =>
        Registered(m, i)' /\ payloads'[m][i] = payloads[m][i]
DoneKept == \A m \in Msgs : \A i : Registered(m, i) /\ Done(m, i) => Done(m, i)'

\* A step that sends no acknowledgement and undoes no read keeps AckInv.
LEMMA AckFrame ==
    ASSUME AckInv, Kept, DoneKept, acks' \subseteq acks,
           \A o \in Sends : op'[o] # "start" => op[o] # "start",
           \A o \in fabric' : op'[o] # "start"
    PROVE  AckInv'
<1>1. ASSUME NEW o \in Sends, op'[o] # "start"
      PROVE  \E m \in Msgs : \E i \in DOMAIN AckOp[m] :
                 o = AckOp[m][i] /\ Registered(m, i)' /\ Done(m, i)'
  BY Zenon, <1>1 DEF AckInv, Kept, DoneKept
<1>2. ASSUME NEW a \in acks'
      PROVE  \E m \in Msgs : \E i \in 1 .. Len(payloads'[m]) :
                 Registered(m, i)' /\ a.handle = payloads'[m][i] /\ Done(m, i)'
  <2>1. PICK m \in Msgs : \E i \in 1 .. Len(payloads[m]) :
                 Registered(m, i) /\ a.handle = payloads[m][i] /\ Done(m, i)
    BY Zenon DEF AckInv
  <2>2. PICK i \in 1 .. Len(payloads[m]) :
                 Registered(m, i) /\ a.handle = payloads[m][i] /\ Done(m, i)
    BY Zenon, <2>1
  <2>3. Registered(m, i)' /\ a.handle = payloads'[m][i] /\ Done(m, i)'
    BY Zenon, <2>2 DEF Kept, DoneKept
  <2> QED BY Zenon, <2>3 DEF Registered
<1> QED BY Zenon, <1>1, <1>2 DEF AckInv

\* A step that releases nothing and sends nothing keeps HeldInv.
LEMMA HeldFrame ==
    ASSUME HeldInv, DoneKept, up' => up, payloads' = payloads,
           \A m \in Msgs : tx'[m] \in {"encode", "sent"} => tx[m] \in {"encode", "sent"},
           DOMAIN regions \subseteq DOMAIN regions'
    PROVE  HeldInv'
  BY Zenon DEF HeldInv, DoneKept, Registered

\* A step that lands no read and decodes nothing keeps DataInv.
LEMMA DataFrame ==
    ASSUME DataInv, Kept, landed' = landed, buffer' = buffer, decoded' = decoded,
           gaveUp \subseteq gaveUp',
           \A m \in Msgs : \A i \in DOMAIN ReadOp[m] :
               op'[ReadOp[m][i]] # "start" => op[ReadOp[m][i]] # "start"
    PROVE  DataInv'
<1>1. gaveUp' = {} => gaveUp = {}
  BY Zenon
<1> QED BY Zenon, <1>1 DEF DataInv, Kept

\* A step that registers and releases nothing keeps HandleInv.
LEMMA HandleFrame ==
    ASSUME HandleInv, UNCHANGED <<regions, nextHandle, closed, payloads, published>>
    PROVE  HandleInv'
  BY SMTT(30) DEF HandleInv, RegionInv, ClosedInv, PieceInv, DistinctInv, PublishedInv

\* A message that is not changed itself.
LEMMA MessageFrame ==
    ASSUME MessageInv, NEW m \in Msgs, body' = body,
           payloads'[m] = payloads[m], decoded'[m] = decoded[m], tx'[m] = tx[m],
           rx'[m] = rx[m],
           rx[m] = "ack" => op'[ReadOp[m][Current(m)]] = "EN_DEFW_RC_OK"
    PROVE  MessageAt(m)'
  BY SMTT(30) DEF MessageInv, MessageAt, Payloads, Registered, Current

\* A payload of a message has operations.
LEMMA PayloadHasOps ==
    ASSUME Shapes, MessageInv, NEW m \in Msgs, NEW i \in 1 .. Len(payloads[m])
    PROVE  i \in 1 .. Len(ReadOp[m])
<1>1. Len(payloads[m]) \in Nat /\ Len(payloads[m]) <= Payloads(m)
  BY SMTT(30) DEF Shapes, MessageInv, MessageAt
<1> QED BY SMTT(30), <1>1, PayloadCount, OpDomains

\* An operation that moves leaves those that ended, and the provider has none
\* that did not start.
LEMMA MovesKeep ==
    ASSUME AckInv, OpShape, NEW o \in Ops, Moves(o)
    PROVE  /\ \A p \in Ops : op[p] = "EN_DEFW_RC_OK" => op'[p] = "EN_DEFW_RC_OK"
           /\ \A p \in fabric' : op'[p] # "start"
<1>1. \A p \in Ops : op[p] = "EN_DEFW_RC_OK" => p # o
  BY Zenon DEF Moves, Codes
<1>2. \A p \in fabric' : p = o \/ (p \in fabric /\ p \in Ops /\ p # o)
  BY Zenon DEF Moves, OpShape
<1> QED BY Zenon, <1>1, <1>2 DEF Moves, AckInv

-----------------------------------------------------------------------------
(* The sender. *)

\* A message that is encoded is sent, or not.
LEMMA StepSent ==
    ASSUME RmaInv, NEW m \in Msgs, Encoded(m), NEW t \in {"raised", "sent", "discard"},
           tx' = [tx EXCEPT ![m] = t],
           rx' = rx \/ rx' = [rx EXCEPT ![m] = "arrived"],
           UNCHANGED <<vars, body, payloads, published, mrVars, buffer, decoded, acks>>
    PROVE  RmaInv'
<1> USE DEF mrVars, vars
<1>1. /\ tx[m] = "encode" /\ Len(payloads[m]) = Payloads(m) /\ rx[m] = "none"
      /\ decoded[m] = <<>>
  BY Zenon DEF Encoded, RmaInv, MessageInv, MessageAt
<1>2. /\ tx'[m] = t /\ rx'[m] \in {"none", "arrived"}
      /\ \A n \in Msgs \ {m} : tx'[n] = tx[n] /\ rx'[n] = rx[n]
  BY Zenon, <1>1 DEF RmaInv, Shapes
<1>3. Shapes'
  <2>1. tx' \in [Msgs -> {"encode", "sent", "discard", "failed", "raised"}]
    BY Zenon DEF RmaInv, Shapes
  <2>2. rx' \in [Msgs -> {"none", "arrived", "ack", "loaded", "lost"}]
    BY Zenon DEF RmaInv, Shapes
  <2> QED BY Zenon, <2>1, <2>2 DEF RmaInv, Shapes
<1>4. Kept
  BY Zenon DEF Kept, Registered
<1>5. DoneKept
  BY Zenon, <1>1, <1>2 DEF DoneKept, Done, Current
<1>6. HandleInv'
  BY Zenon, HandleFrame DEF RmaInv
<1>7. MessageInv'
  <2>1. ASSUME NEW n \in Msgs, n # m PROVE MessageAt(n)'
    BY SMTT(30), <1>2, <2>1, MessageFrame DEF RmaInv, MessageInv, MessageAt
  <2>2. MessageAt(m)'
    BY Zenon, <1>1, <1>2 DEF RmaInv, MessageInv, MessageAt, Payloads
  <2> QED BY Zenon, <2>1, <2>2 DEF MessageInv
<1>8. AckInv'
  <2>1. \A o \in fabric' : op'[o] # "start"
    BY Zenon DEF RmaInv, AckInv
  <2> QED BY Zenon, <1>4, <1>5, <2>1, AckFrame DEF RmaInv
<1>9. HeldInv'
  BY Zenon, <1>1, <1>2, <1>5, HeldFrame DEF RmaInv
<1>10. DataInv'
  BY Zenon, <1>4, DataFrame DEF RmaInv
<1> QED BY Zenon, <1>3, <1>6, <1>7, <1>8, <1>9, <1>10 DEF RmaInv

\* The payload list of a message grows by one.
Grows(m, h) ==
    /\ payloads'[m] \in Seq(Nat) /\ Len(payloads'[m]) = Len(payloads[m]) + 1
    /\ payloads'[m][Len(payloads[m]) + 1] = h
    /\ \A i \in 1 .. Len(payloads[m]) : payloads'[m][i] = payloads[m][i]
    /\ \A n \in Msgs \ {m} : payloads'[n] = payloads[n]

\* Appending a handle to a payload list lets it grow.
LEMMA AppendGrows ==
    ASSUME Shapes, NEW m \in Msgs, NEW h \in Nat, payloads' = Append1(payloads, m, h)
    PROVE  Grows(m, h) /\ payloads' \in [Msgs -> Seq(Nat)]
<1>1. payloads[m] \in Seq(Nat)
  BY Zenon DEF Shapes
<1>2. payloads'[m] = Append(payloads[m], h) /\ \A n \in Msgs \ {m} : payloads'[n] = payloads[n]
  BY Zenon DEF Shapes, Append1
<1>3. Append(payloads[m], h) \in Seq(Nat)
  BY SMTT(30), <1>1
<1>4. payloads' \in [Msgs -> Seq(Nat)]
  BY Zenon, <1>3 DEF Shapes, Append1
<1> QED BY SMTT(30), <1>1, <1>2, <1>3, <1>4 DEF Grows

\* An index of the longer list is an old one, or the new one.
LEMMA GrownIndex ==
    ASSUME Shapes, NEW m \in Msgs, NEW h, Grows(m, h), NEW n \in Msgs,
           NEW i \in 1 .. Len(payloads'[n])
    PROVE  \/ i \in 1 .. Len(payloads[n]) /\ payloads'[n][i] = payloads[n][i]
           \/ n = m /\ i = Len(payloads[m]) + 1 /\ payloads'[n][i] = h
<1>1. Len(payloads[n]) \in Nat /\ Len(payloads[m]) \in Nat
  BY SMTT(30) DEF Shapes
<1>2. CASE n # m
  BY Zenon, <1>2 DEF Grows
<1>3. CASE n = m
  <2>1. i \in 1 .. Len(payloads[m]) + 1
    BY Zenon, <1>3 DEF Grows
  <2>2. i \in 1 .. Len(payloads[m]) \/ i = Len(payloads[m]) + 1
    BY SMTT(30), <1>1, <2>1
  <2> QED BY Zenon, <1>3, <2>2 DEF Grows
<1> QED BY Zenon, <1>2, <1>3

\* The payloads that were in the list stay where they were.
LEMMA GrownOld ==
    ASSUME Shapes, NEW m \in Msgs, NEW h, Grows(m, h), NEW n \in Msgs,
           NEW i \in 1 .. Len(payloads[n])
    PROVE  i \in 1 .. Len(payloads'[n]) /\ payloads'[n][i] = payloads[n][i]
<1>1. Len(payloads[n]) \in Nat
  BY SMTT(30) DEF Shapes
<1>2. CASE n # m
  BY Zenon, <1>2 DEF Grows
<1>3. CASE n = m
  BY SMTT(30), <1>1, <1>3 DEF Grows
<1> QED BY Zenon, <1>2, <1>3

\* Encoding a payload: what the message needs of its own is kept.
LEMMA GrowKeeps ==
    ASSUME RmaInv, NEW m \in Msgs, NEW h \in Nat, tx[m] = "encode",
           Len(payloads[m]) < Payloads(m), Grows(m, h),
           UNCHANGED <<vars, body, up, tx, rx, buffer, decoded, acks>>,
           DOMAIN regions \subseteq DOMAIN regions', h # Inline => h \in DOMAIN regions'
    PROVE  MessageInv' /\ AckInv' /\ HeldInv' /\ DataInv'
<1> USE DEF vars
<1>0. Shapes /\ \A n \in Msgs : Len(payloads[n]) \in Nat
  BY SMTT(30) DEF RmaInv, Shapes
<1>1. Kept
  <2> SUFFICES ASSUME NEW n \in Msgs, NEW i, Registered(n, i)
               PROVE  Registered(n, i)' /\ payloads'[n][i] = payloads[n][i]
    BY Zenon DEF Kept
  <2>1. i \in 1 .. Len(payloads'[n]) /\ payloads'[n][i] = payloads[n][i]
    BY Zenon, <1>0, GrownOld DEF Registered
  <2> QED BY Zenon, <2>1 DEF Registered
<1>2. DoneKept
  BY Zenon DEF DoneKept, Done, Current
<1>3. MessageInv'
  <2>1. ASSUME NEW n \in Msgs, n # m PROVE MessageAt(n)'
    BY SMTT(30), <2>1, MessageFrame DEF RmaInv, MessageInv, MessageAt, Grows
  <2>2. MessageAt(m)'
    <3>1. rx[m] = "none" /\ decoded[m] = <<>>
      BY Zenon DEF RmaInv, MessageInv, MessageAt
    <3>2. Payloads(m)' = Payloads(m) /\ Payloads(m) \in Nat
      BY Zenon, <1>0, PayloadCount DEF Payloads
    <3>3. Len(payloads'[m]) <= Payloads(m) /\ 0 <= Len(payloads'[m])
      BY SMTT(30), <1>0, <3>2 DEF Grows
    <3> QED BY Zenon, <3>1, <3>2, <3>3 DEF MessageAt
  <2> QED BY Zenon, <2>1, <2>2 DEF MessageInv
<1>4. AckInv'
  <2>1. \A o \in fabric' : op'[o] # "start"
    BY Zenon DEF RmaInv, AckInv
  <2> QED BY Zenon, <1>1, <1>2, <2>1, AckFrame DEF RmaInv
<1>5. HeldInv'
  <2> SUFFICES ASSUME up, NEW n \in Msgs, tx[n] \in {"encode", "sent"},
                      NEW i \in 1 .. Len(payloads'[n]), Registered(n, i)'
               PROVE  payloads'[n][i] \in DOMAIN regions' \/ Done(n, i)
    BY Zenon DEF HeldInv, Done, Current
  <2>1. CASE i \in 1 .. Len(payloads[n]) /\ payloads'[n][i] = payloads[n][i]
    BY Zenon, <2>1 DEF RmaInv, HeldInv, Registered
  <2>2. CASE payloads'[n][i] = h
    BY Zenon, <2>2 DEF Registered
  <2> QED BY Zenon, <1>0, <2>1, <2>2, GrownIndex
<1>6. DataInv'
  BY Zenon, <1>1, DataFrame DEF RmaInv
<1> QED BY Zenon, <1>3, <1>4, <1>5, <1>6

\* A payload that is sent inline takes no handle.
LEMMA StepInline == ASSUME RmaInv, NEW m \in Msgs, SendInline(m) PROVE RmaInv'
<1>1. /\ tx[m] = "encode" /\ Len(payloads[m]) < Payloads(m)
      /\ payloads' = Append1(payloads, m, Inline)
      /\ UNCHANGED <<vars, body, tx, published, mrVars, rx, buffer, decoded, acks>>
  BY Zenon DEF SendInline, rxVars
<1>2. Grows(m, Inline) /\ payloads' \in [Msgs -> Seq(Nat)]
  BY Zenon, <1>1, AppendGrows DEF RmaInv, Inline
<1>3. Shapes'
  BY Zenon, <1>1, <1>2 DEF RmaInv, Shapes, mrVars
<1>4. MessageInv' /\ AckInv' /\ HeldInv' /\ DataInv'
  BY Zenon, <1>1, <1>2, GrowKeeps DEF RmaInv, Inline, mrVars
<1>5. HandleInv'
  <2>1. ASSUME NEW n \in Msgs, NEW i \in 1 .. Len(payloads'[n])
        PROVE  \/ i \in 1 .. Len(payloads[n]) /\ payloads'[n][i] = payloads[n][i]
               \/ payloads'[n][i] = Inline
    BY Zenon, <1>2, GrownIndex DEF RmaInv
  <2>2. \A n \in Msgs : \A i \in 1 .. Len(payloads[n]) :
            i \in 1 .. Len(payloads'[n]) /\ payloads'[n][i] = payloads[n][i]
    BY Zenon, <1>2, GrownOld DEF RmaInv
  <2>3. ASSUME NEW n \in Msgs, NEW i \in 1 .. Len(payloads'[n])
        PROVE  /\ payloads'[n][i] < nextHandle
               /\ payloads'[n][i] \in DOMAIN regions => regions[payloads'[n][i]] = Piece(n, i)
    <3>1. Inline < nextHandle /\ Inline \notin DOMAIN regions
      BY SMTT(30) DEF RmaInv, HandleInv, RegionInv, Shapes, Inline
    <3> QED BY Zenon, <2>1, <3>1 DEF RmaInv, HandleInv, PieceInv
  <2>4. ASSUME NEW k \in Msgs, NEW n \in Msgs, NEW i \in 1 .. Len(payloads'[k]),
               NEW j \in 1 .. Len(payloads'[n]), payloads'[k][i] = payloads'[n][j],
               payloads'[k][i] # Inline
        PROVE  k = n /\ i = j
    BY SMTT(30), <2>1, <2>4 DEF RmaInv, HandleInv, DistinctInv
  <2>5. ASSUME NEW n \in Msgs, NEW k \in 1 .. Len(published[n])
        PROVE  \E i \in 1 .. Len(payloads'[n]) : payloads'[n][i] = published[n][k]
                                                 /\ published[n][k] # Inline
    BY SMTT(30), <2>2 DEF RmaInv, HandleInv, PublishedInv
  <2>6. PieceInv' /\ DistinctInv' /\ PublishedInv'
    BY SMTT(30), <1>1, <2>3, <2>4, <2>5 DEF PieceInv, DistinctInv, PublishedInv, mrVars
  <2>7. RegionInv' /\ ClosedInv'
    BY Zenon, <1>1 DEF RmaInv, HandleInv, RegionInv, ClosedInv, mrVars
  <2> QED BY Zenon, <2>6, <2>7 DEF HandleInv
<1> QED BY Zenon, <1>3, <1>4, <1>5 DEF RmaInv

\* A payload that is published takes the next handle, which no payload has.
LEMMA StepPublish == ASSUME RmaInv, NEW m \in Msgs, Publish(m) PROVE RmaInv'
<1>0. Shapes /\ nextHandle \in Nat /\ 0 < nextHandle
      /\ (\A n \in Msgs : Len(payloads[n]) \in Nat) /\ published[m] \in Seq(Nat)
  BY SMTT(30) DEF RmaInv, Shapes
<1>1. /\ tx[m] = "encode" /\ Len(payloads[m]) < Payloads(m)
      /\ payloads' = Append1(payloads, m, nextHandle)
      /\ published' = Append1(published, m, nextHandle)
      /\ UNCHANGED <<vars, body, tx, up, closed, rx, buffer, decoded, acks>>
      /\ nextHandle' = nextHandle + 1
      /\ regions' = [h \in DOMAIN regions \cup {nextHandle} |->
                       IF h = nextHandle THEN Payload(m) ELSE regions[h]]
  BY Zenon DEF Publish, Register, rxVars
<1>2. Grows(m, nextHandle) /\ payloads' \in [Msgs -> Seq(Nat)]
  BY Zenon, <1>0, <1>1, AppendGrows
<1>3. /\ DOMAIN regions' = DOMAIN regions \cup {nextHandle}
      /\ regions'[nextHandle] = Piece(m, Len(payloads[m]) + 1)
      /\ \A h \in DOMAIN regions : h # nextHandle => regions'[h] = regions[h]
  BY Zenon, <1>1 DEF Payload, Piece
<1>4. /\ published'[m] = Append(published[m], nextHandle)
      /\ \A n \in Msgs \ {m} : published'[n] = published[n]
      /\ published' \in [Msgs -> Seq(Nat)]
  <2>1. Append(published[m], nextHandle) \in Seq(Nat)
    BY SMTT(30), <1>0
  <2> QED BY Zenon, <1>1, <2>1 DEF Append1, RmaInv, Shapes
<1>5. Shapes'
  <2>1. Piece(m, Len(payloads[m]) + 1) \in Item
    BY SMTT(30), <1>0 DEF Piece, Item
  <2>2. regions' \in [DOMAIN regions' -> Item] /\ DOMAIN regions' \subseteq Nat
    BY Zenon, <1>0, <1>1, <1>3, <2>1 DEF RmaInv, Shapes, Payload, Piece
  <2>3. nextHandle' \in Nat \ {0}
    BY SMTT(30), <1>0, <1>1
  <2> QED BY Zenon, <1>1, <1>2, <1>4, <2>2, <2>3 DEF RmaInv, Shapes
<1>6. MessageInv' /\ AckInv' /\ HeldInv' /\ DataInv'
  BY Zenon, <1>0, <1>1, <1>2, <1>3, GrowKeeps
<1>7. HandleInv'
  <2>1. ASSUME NEW n \in Msgs, NEW i \in 1 .. Len(payloads'[n])
        PROVE  \/ i \in 1 .. Len(payloads[n]) /\ payloads'[n][i] = payloads[n][i]
                  /\ payloads[n][i] < nextHandle /\ payloads[n][i] \in Nat
               \/ n = m /\ i = Len(payloads[m]) + 1 /\ payloads'[n][i] = nextHandle
    <3>1. \A k \in 1 .. Len(payloads[n]) : payloads[n][k] < nextHandle /\ payloads[n][k] \in Nat
      BY SMTT(30) DEF RmaInv, HandleInv, PieceInv, Shapes
    <3> QED BY Zenon, <1>0, <1>2, <3>1, GrownIndex
  <2>2. \A n \in Msgs : \A i \in 1 .. Len(payloads[n]) :
            i \in 1 .. Len(payloads'[n]) /\ payloads'[n][i] = payloads[n][i]
    BY Zenon, <1>0, <1>2, GrownOld
  <2>3. ASSUME NEW n \in Msgs, NEW i \in 1 .. Len(payloads'[n])
        PROVE  /\ payloads'[n][i] < nextHandle'
               /\ payloads'[n][i] \in DOMAIN regions' => regions'[payloads'[n][i]] = Piece(n, i)
    <3>1. CASE i \in 1 .. Len(payloads[n]) /\ payloads'[n][i] = payloads[n][i]
               /\ payloads[n][i] < nextHandle /\ payloads[n][i] \in Nat
      BY SMTT(30), <1>0, <1>1, <1>3, <3>1 DEF RmaInv, HandleInv, PieceInv
    <3>2. CASE n = m /\ i = Len(payloads[m]) + 1 /\ payloads'[n][i] = nextHandle
      BY SMTT(30), <1>0, <1>1, <1>3, <3>2
    <3> QED BY Zenon, <2>1, <3>1, <3>2
  <2>4. ASSUME NEW k \in Msgs, NEW n \in Msgs, NEW i \in 1 .. Len(payloads'[k]),
               NEW j \in 1 .. Len(payloads'[n]), payloads'[k][i] = payloads'[n][j],
               payloads'[k][i] # Inline
        PROVE  k = n /\ i = j
    <3>1. CASE payloads'[k][i] = nextHandle
      <4>1. ASSUME NEW q \in Msgs, NEW p \in 1 .. Len(payloads'[q]),
                   payloads'[q][p] = nextHandle
            PROVE  q = m /\ p = Len(payloads[m]) + 1
        <5>1. ~(nextHandle < nextHandle)
          BY SMTT(30), <1>0
        <5> QED BY Zenon, <2>1, <4>1, <5>1
      <4>2. payloads'[n][j] = nextHandle
        BY Zenon, <2>4, <3>1
      <4>3. k = m /\ i = Len(payloads[m]) + 1
        BY Zenon, <3>1, <4>1
      <4>4. n = m /\ j = Len(payloads[m]) + 1
        BY Zenon, <4>1, <4>2
      <4> QED BY Zenon, <4>3, <4>4
    <3>2. CASE payloads'[k][i] # nextHandle
      <4>1. /\ i \in 1 .. Len(payloads[k]) /\ payloads'[k][i] = payloads[k][i]
            /\ j \in 1 .. Len(payloads[n]) /\ payloads'[n][j] = payloads[n][j]
        BY Zenon, <2>1, <2>4, <3>2
      <4>2. DistinctInv
        BY Zenon DEF RmaInv, HandleInv
      <4>3. payloads[k][i] = payloads[n][j] /\ payloads[k][i] # Inline
        BY Zenon, <2>4, <4>1
      <4> QED BY SMTT(30), <4>1, <4>2, <4>3 DEF DistinctInv
    <3> QED BY Zenon, <3>1, <3>2
  <2>5. ASSUME NEW n \in Msgs, NEW k \in 1 .. Len(published'[n])
        PROVE  \E i \in 1 .. Len(payloads'[n]) : payloads'[n][i] = published'[n][k]
                                                 /\ published'[n][k] # Inline
    <3>1. CASE k \in 1 .. Len(published[n]) /\ published'[n][k] = published[n][k]
      BY SMTT(30), <2>2, <3>1 DEF RmaInv, HandleInv, PublishedInv
    <3>2. CASE n = m /\ published'[n][k] = nextHandle
      <4>1. Len(payloads[m]) + 1 \in 1 .. Len(payloads'[m])
            /\ payloads'[m][Len(payloads[m]) + 1] = nextHandle
        BY SMTT(30), <1>0, <1>2 DEF Grows
      <4>2. nextHandle # Inline
        BY SMTT(30), <1>0 DEF Inline
      <4> QED BY Zenon, <3>2, <4>1, <4>2
    <3>3. CASE n # m
      BY Zenon, <1>4, <3>1, <3>3
    <3>4. CASE n = m
      <4>1. /\ Len(published'[m]) = Len(published[m]) + 1 /\ Len(published[m]) \in Nat
            /\ published'[m][Len(published[m]) + 1] = nextHandle
            /\ \A q \in 1 .. Len(published[m]) : published'[m][q] = published[m][q]
        BY SMTT(30), <1>0, <1>4
      <4>2. k \in 1 .. Len(published[m]) \/ k = Len(published[m]) + 1
        BY SMTT(30), <3>4, <4>1
      <4> QED BY Zenon, <3>1, <3>2, <3>4, <4>1, <4>2
    <3> QED BY Zenon, <3>3, <3>4
  <2>6. \A h \in DOMAIN regions' : h # Inline /\ h < nextHandle'
    BY SMTT(30), <1>0, <1>1, <1>3 DEF RmaInv, HandleInv, RegionInv, Shapes, Inline
  <2>7. ASSUME NEW h \in Handles
        PROVE  IF h \in DOMAIN regions' \/ h >= nextHandle'
               THEN closed'[h] = 0 ELSE closed'[h] = 1
    <3>1. h \in Nat
      BY Zenon, HandlesAreNat
    <3>2. h >= nextHandle' => h >= nextHandle
      BY SMTT(30), <1>0, <1>1, <3>1
    <3>3. h >= nextHandle => h >= nextHandle' \/ h = nextHandle
      BY SMTT(30), <1>0, <1>1, <3>1
    <3>4. nextHandle >= nextHandle
      BY SMTT(30), <1>0
    <3> QED BY Zenon, <1>1, <1>3, <3>2, <3>3, <3>4 DEF RmaInv, HandleInv, ClosedInv
  <2>8. PieceInv' /\ DistinctInv' /\ PublishedInv'
    BY SMTT(30), <2>3, <2>4, <2>5 DEF PieceInv, DistinctInv, PublishedInv
  <2> QED BY Zenon, <2>6, <2>7, <2>8 DEF HandleInv, RegionInv, ClosedInv
<1> QED BY Zenon, <1>5, <1>6, <1>7 DEF RmaInv

\* A release closes a region that is registered, once.
LEMMA ReleaseKeeps ==
    ASSUME Shapes, HandleInv, NEW h, Release({h}), payloads' = payloads,
           published' \in [Msgs -> Seq(Nat)], PublishedInv'
    PROVE  /\ HandleInv' /\ UNCHANGED <<up, nextHandle>>
           /\ closed' \in [Handles -> Nat]
           /\ regions' \in [DOMAIN regions' -> Item] /\ DOMAIN regions' \subseteq Nat
           /\ DOMAIN regions' = DOMAIN regions \ {h}
<1>1. /\ regions' = [x \in DOMAIN regions \ ({h} \cap DOMAIN regions) |-> regions[x]]
      /\ closed' = [x \in Handles |-> IF x \in {h} \cap DOMAIN regions
                                      THEN closed[x] + 1 ELSE closed[x]]
      /\ UNCHANGED <<up, nextHandle>>
  BY Zenon DEF Release, Restrict
<1>2. /\ DOMAIN regions' = DOMAIN regions \ {h}
      /\ \A x \in DOMAIN regions' : regions'[x] = regions[x]
  BY Zenon, <1>1
<1>3. closed' \in [Handles -> Nat]
  BY SMTT(30), <1>1 DEF Shapes
<1>4. regions' \in [DOMAIN regions' -> Item] /\ DOMAIN regions' \subseteq Nat
  BY Zenon, <1>1, <1>2 DEF Shapes
<1>5. ClosedInv'
  <2> SUFFICES ASSUME NEW x \in Handles
               PROVE  IF x \in DOMAIN regions' \/ x >= nextHandle'
                      THEN closed'[x] = 0 ELSE closed'[x] = 1
    BY Zenon DEF ClosedInv
  <2>1. CASE x = h /\ h \in DOMAIN regions
    <3>1. closed[x] = 0 /\ x < nextHandle
      BY Zenon, <2>1 DEF HandleInv, ClosedInv, RegionInv
    <3>2. ~(x >= nextHandle)
      BY SMTT(30), <3>1, HandlesAreNat DEF Shapes
    <3> QED BY SMTT(30), <1>1, <1>2, <2>1, <3>1, <3>2
  <2>2. CASE ~(x = h /\ h \in DOMAIN regions)
    BY Zenon, <1>1, <1>2, <2>2 DEF HandleInv, ClosedInv
  <2> QED BY Zenon, <2>1, <2>2
<1>6. RegionInv' /\ PieceInv' /\ DistinctInv'
  <2>1. RegionInv'
    BY Zenon, <1>1, <1>2 DEF HandleInv, RegionInv
  <2>2. PieceInv'
    BY Zenon, <1>1, <1>2 DEF HandleInv, PieceInv
  <2>3. DistinctInv'
    BY SMTT(30) DEF HandleInv, DistinctInv
  <2> QED BY Zenon, <2>1, <2>2, <2>3
<1> QED BY Zenon, <1>1, <1>2, <1>3, <1>4, <1>5, <1>6 DEF HandleInv

\* Releasing a region that nobody still has to read.
LEMMA HeldRelease ==
    ASSUME RmaInv, NEW h, UNCHANGED <<up, payloads, tx, rx, decoded>>,
           DOMAIN regions' = DOMAIN regions \ {h},
           \A m \in Msgs : \A i \in 1 .. Len(payloads[m]) :
               Registered(m, i) /\ payloads[m][i] = h
               => Done(m, i) \/ tx[m] \notin {"encode", "sent"}
    PROVE  HeldInv'
  BY Zenon DEF RmaInv, HeldInv, Registered, Done, Current

\* Steps that change neither an operation nor the two ends of a message.
LEMMA QuietKeeps ==
    ASSUME RmaInv, UNCHANGED <<vars, body, tx, payloads, rx, buffer, decoded>>,
           acks' \subseteq acks
    PROVE  MessageInv' /\ AckInv' /\ DataInv'
<1> USE DEF vars
<1>1. Kept /\ DoneKept
  BY Zenon DEF Kept, DoneKept, Registered, Done, Current
<1>2. MessageInv'
  BY Zenon, MessageFrame DEF RmaInv, MessageInv, MessageAt
<1>3. AckInv'
  BY Zenon, <1>1, AckFrame DEF RmaInv, AckInv
<1>4. DataInv'
  BY Zenon, <1>1, DataFrame DEF RmaInv
<1> QED BY Zenon, <1>2, <1>3, <1>4

\* attach_discard releases handles of a message that was not sent.
LEMMA StepDiscard == ASSUME RmaInv, NEW m \in Msgs, Discard(m) PROVE RmaInv'
<1>0. published[m] \in Seq(Nat) /\ tx[m] = "discard"
  BY Zenon DEF RmaInv, Shapes, Discard
<1>1. CASE published[m] = <<>>
  <2>1. /\ UNCHANGED <<vars, body, payloads, published, mrVars, rx, buffer, decoded, acks>>
        /\ tx' = [tx EXCEPT ![m] = "failed"]
    BY Zenon, <1>1 DEF Discard, rxVars
  <2>2. /\ tx'[m] = "failed" /\ \A n \in Msgs \ {m} : tx'[n] = tx[n]
        /\ tx' \in [Msgs -> {"encode", "sent", "discard", "failed", "raised"}]
    BY Zenon, <2>1 DEF RmaInv, Shapes
  <2>3. Shapes'
    BY Zenon, <2>1, <2>2 DEF RmaInv, Shapes, mrVars
  <2>4. Kept /\ DoneKept
    BY Zenon, <2>1 DEF Kept, DoneKept, Registered, Done, Current
  <2>5. HandleInv'
    BY Zenon, <2>1, HandleFrame DEF RmaInv, mrVars
  <2>6. MessageInv'
    <3>1. ASSUME NEW n \in Msgs, n # m PROVE MessageAt(n)'
      BY Zenon, <2>1, <2>2, <3>1, MessageFrame DEF RmaInv, MessageInv, MessageAt, vars
    <3>2. MessageAt(m)'
      BY Zenon, <2>1, <2>2 DEF RmaInv, MessageInv, MessageAt, vars, Payloads, Registered, Current
    <3> QED BY Zenon, <3>1, <3>2 DEF MessageInv
  <2>7. AckInv'
    BY Zenon, <2>1, <2>4, AckFrame DEF RmaInv, AckInv, vars
  <2>8. HeldInv'
    BY Zenon, <2>1, <2>2, <2>4, HeldFrame DEF RmaInv, mrVars
  <2>9. DataInv'
    BY Zenon, <2>1, <2>4, DataFrame DEF RmaInv, vars
  <2> QED BY Zenon, <2>3, <2>5, <2>6, <2>7, <2>8, <2>9 DEF RmaInv
<1>2. CASE published[m] # <<>>
  <2> DEFINE h == Head(published[m])
  <2>1. /\ UNCHANGED <<vars, body, payloads, tx, rx, buffer, decoded, acks>>
        /\ Release({h}) /\ published' = [published EXCEPT ![m] = Tail(@)]
    BY Zenon, <1>2 DEF Discard, rxVars
  <2>2. /\ h = published[m][1] /\ 1 \in 1 .. Len(published[m])
        /\ Tail(published[m]) \in Seq(Nat)
        /\ \A k \in 1 .. Len(Tail(published[m])) :
              k + 1 \in 1 .. Len(published[m]) /\ Tail(published[m])[k] = published[m][k + 1]
    BY SMTT(30), <1>0, <1>2
  <2>3. /\ published' \in [Msgs -> Seq(Nat)] /\ published'[m] = Tail(published[m])
        /\ \A n \in Msgs \ {m} : published'[n] = published[n]
    BY Zenon, <2>1, <2>2 DEF RmaInv, Shapes
  <2>4. PublishedInv'
    <3> SUFFICES ASSUME NEW n \in Msgs, NEW k \in 1 .. Len(published'[n])
                 PROVE  \E i \in 1 .. Len(payloads[n]) : payloads[n][i] = published'[n][k]
                                                         /\ published'[n][k] # Inline
      BY Zenon, <2>1 DEF PublishedInv
    <3>1. \E q \in 1 .. Len(published[n]) : published'[n][k] = published[n][q]
      <4>1. CASE n = m
        <5>1. k \in 1 .. Len(Tail(published[m]))
          BY Zenon, <2>3, <4>1
        <5>2. k + 1 \in 1 .. Len(published[m]) /\ published'[m][k] = published[m][k + 1]
          BY Zenon, <2>2, <2>3, <5>1
        <5> QED BY Zenon, <4>1, <5>2
      <4>2. CASE n # m
        BY Zenon, <2>3, <4>2
      <4> QED BY Zenon, <4>1, <4>2
    <3> QED BY Zenon, <3>1 DEF RmaInv, HandleInv, PublishedInv
  <2> HIDE DEF h
  <2>5. /\ HandleInv' /\ UNCHANGED <<up, nextHandle>>
        /\ closed' \in [Handles -> Nat]
        /\ regions' \in [DOMAIN regions' -> Item] /\ DOMAIN regions' \subseteq Nat
        /\ DOMAIN regions' = DOMAIN regions \ {h}
    BY Zenon, <2>1, <2>3, <2>4, ReleaseKeeps DEF RmaInv
  <2>6. Shapes'
    BY Zenon, <2>1, <2>3, <2>5 DEF RmaInv, Shapes
  <2>7. ASSUME NEW n \in Msgs, NEW i \in 1 .. Len(payloads[n]), Registered(n, i),
               payloads[n][i] = h
        PROVE  tx[n] \notin {"encode", "sent"}
    <3>1. PICK j \in 1 .. Len(payloads[m]) : payloads[m][j] = h /\ h # Inline
      BY Zenon, <2>2 DEF RmaInv, HandleInv, PublishedInv
    <3>2. n = m
      BY Zenon, <2>7, <3>1 DEF RmaInv, HandleInv, DistinctInv
    <3> QED BY Zenon, <1>0, <3>2
  <2>8. HeldInv'
    BY Zenon, <2>1, <2>5, <2>7, HeldRelease
  <2>9. MessageInv' /\ AckInv' /\ DataInv'
    BY Zenon, <2>1, QuietKeeps
  <2> QED BY Zenon, <2>5, <2>6, <2>8, <2>9 DEF RmaInv
<1> QED BY Zenon, <1>1, <1>2

\* An acknowledgement releases a region that was read.
LEMMA StepAck == ASSUME RmaInv, NEW a \in acks, RmaAck(a) PROVE RmaInv'
<1>1. /\ UNCHANGED <<vars, body, payloads, published, tx, rx, buffer, decoded>>
      /\ Release({a.handle}) /\ acks' \subseteq acks
  BY Zenon DEF RmaAck, txVars, rxVars
<1>2. published' \in [Msgs -> Seq(Nat)] /\ PublishedInv'
  BY Zenon, <1>1 DEF RmaInv, Shapes, HandleInv, PublishedInv
<1>3. /\ HandleInv' /\ UNCHANGED <<up, nextHandle>>
      /\ closed' \in [Handles -> Nat]
      /\ regions' \in [DOMAIN regions' -> Item] /\ DOMAIN regions' \subseteq Nat
      /\ DOMAIN regions' = DOMAIN regions \ {a.handle}
  BY Zenon, <1>1, <1>2, ReleaseKeeps DEF RmaInv
<1>4. Shapes'
  BY Zenon, <1>1, <1>3 DEF RmaInv, Shapes
<1>5. ASSUME NEW n \in Msgs, NEW i \in 1 .. Len(payloads[n]), Registered(n, i),
             payloads[n][i] = a.handle
      PROVE  Done(n, i)
  <2>1. PICK m \in Msgs : \E j \in 1 .. Len(payloads[m]) :
            Registered(m, j) /\ a.handle = payloads[m][j] /\ Done(m, j)
    BY Zenon DEF RmaInv, AckInv
  <2>2. PICK j \in 1 .. Len(payloads[m]) :
            Registered(m, j) /\ a.handle = payloads[m][j] /\ Done(m, j)
    BY Zenon, <2>1
  <2>3. n = m /\ i = j
    BY SMTT(30), <1>5, <2>2 DEF RmaInv, HandleInv, DistinctInv, Registered
  <2> QED BY Zenon, <2>2, <2>3
<1>6. HeldInv'
  BY Zenon, <1>1, <1>3, <1>5, HeldRelease
<1>7. MessageInv' /\ AckInv' /\ DataInv'
  BY Zenon, <1>1, QuietKeeps
<1> QED BY Zenon, <1>3, <1>4, <1>6, <1>7 DEF RmaInv

\* Teardown closes what is registered, and nothing is served any more.
LEMMA StepTeardown == ASSUME RmaInv, Teardown PROVE RmaInv'
<1>1. /\ UNCHANGED <<vars, nextHandle, body, payloads, published, tx, rx, buffer, decoded, acks>>
      /\ DOMAIN regions' = {} /\ regions' = [h \in {} |-> 0] /\ up' = FALSE
      /\ closed' = [h \in Handles |-> IF h \in DOMAIN regions THEN closed[h] + 1
                                      ELSE closed[h]]
  BY Zenon DEF Teardown, txVars, rxVars
<1>2. closed' \in [Handles -> Nat]
  BY SMTT(30), <1>1 DEF RmaInv, Shapes
<1>3. Shapes'
  BY Zenon, <1>1, <1>2 DEF RmaInv, Shapes
<1>4. ClosedInv'
  <2> SUFFICES ASSUME NEW x \in Handles
               PROVE  IF x >= nextHandle THEN closed'[x] = 0 ELSE closed'[x] = 1
    BY Zenon, <1>1 DEF ClosedInv
  <2>1. CASE x \in DOMAIN regions
    <3>1. closed[x] = 0 /\ x < nextHandle
      BY Zenon, <2>1 DEF RmaInv, HandleInv, ClosedInv, RegionInv
    <3>2. ~(x >= nextHandle)
      BY SMTT(30), <3>1, HandlesAreNat DEF RmaInv, Shapes
    <3> QED BY SMTT(30), <1>1, <2>1, <3>1, <3>2
  <2>2. CASE x \notin DOMAIN regions
    BY Zenon, <1>1, <2>2 DEF RmaInv, HandleInv, ClosedInv
  <2> QED BY Zenon, <2>1, <2>2
<1>5. RegionInv' /\ PieceInv' /\ DistinctInv' /\ PublishedInv'
  BY SMTT(30), <1>1 DEF RmaInv, HandleInv, RegionInv, PieceInv, DistinctInv, PublishedInv
<1>6. HeldInv'
  BY Zenon, <1>1 DEF HeldInv
<1>7. MessageInv' /\ AckInv' /\ DataInv'
  BY Zenon, <1>1, QuietKeeps
<1> QED BY Zenon, <1>3, <1>4, <1>5, <1>6, <1>7 DEF RmaInv, HandleInv

-----------------------------------------------------------------------------
(* The receiver. *)

\* Reading goes on with the next payload: the one before is done.
LEMMA DecodeKeeps ==
    ASSUME RmaInv, NEW m \in Msgs, NEW x \in Item,
           decoded' = Append1(decoded, m, x), rx[m] \in {"arrived", "ack"},
           rx' = [rx EXCEPT ![m] = "arrived"], Current(m) <= Len(payloads[m]),
           gaveUp' = {} => x = Piece(m, Current(m)), gaveUp \subseteq gaveUp',
           UNCHANGED <<body, tx, payloads>>,
           \A p \in Ops : op[p] = "EN_DEFW_RC_OK" => op'[p] = "EN_DEFW_RC_OK"
    PROVE  /\ MessageInv' /\ Kept /\ DoneKept
           /\ decoded' \in [Msgs -> Seq(Item)]
           /\ \A i : i = Current(m) => Done(m, i)'
           /\ rx' \in [Msgs -> {"none", "arrived", "ack", "loaded", "lost"}]
           /\ gaveUp' = {} => \A n \in Msgs : \A i \in 1 .. Len(decoded'[n]) :
                                  decoded'[n][i] = Piece(n, i)
<1>0. /\ Shapes /\ decoded[m] \in Seq(Item) /\ Len(decoded[m]) \in Nat
      /\ Len(payloads[m]) \in Nat
  BY SMTT(30) DEF RmaInv, Shapes
<1>1. /\ decoded'[m] = Append(decoded[m], x)
      /\ \A n \in Msgs \ {m} : decoded'[n] = decoded[n] /\ rx'[n] = rx[n]
      /\ rx'[m] = "arrived"
      /\ rx' \in [Msgs -> {"none", "arrived", "ack", "loaded", "lost"}]
  BY Zenon DEF RmaInv, Shapes, Append1
<1>2. /\ decoded'[m] \in Seq(Item) /\ Len(decoded'[m]) = Len(decoded[m]) + 1
      /\ \A i \in 1 .. Len(decoded[m]) : decoded'[m][i] = decoded[m][i]
      /\ decoded'[m][Len(decoded[m]) + 1] = x
  BY SMTT(30), <1>0, <1>1
<1>3. decoded' \in [Msgs -> Seq(Item)]
  BY Zenon, <1>1, <1>2 DEF RmaInv, Shapes, Append1
<1>4. Kept
  BY Zenon DEF Kept, Registered
<1>5. DoneKept /\ \A i : i = Current(m) => Done(m, i)'
  <2>1. ASSUME NEW i, Registered(m, i), Done(m, i) PROVE Done(m, i)'
    <3>1. i \in Nat /\ i <= Len(decoded[m]) + 1
      BY SMTT(30), <1>0, <2>1 DEF Registered, Done, Current
    <3> QED BY SMTT(30), <1>0, <1>2, <3>1 DEF Done, Current
  <2>2. ASSUME NEW n \in Msgs, n # m, NEW i, Done(n, i) PROVE Done(n, i)'
    BY Zenon, <1>1, <2>2 DEF Done, Current
  <2>3. \A i : i = Current(m) => Done(m, i)'
    <3>1. Len(decoded[m]) + 1 < Len(decoded'[m]) + 1
      BY SMTT(30), <1>0, <1>2
    <3>2. \A i : i < Len(decoded'[m]) + 1 => Done(m, i)'
      BY Zenon DEF Done, Current
    <3> QED BY Zenon, <3>1, <3>2 DEF Current
  <2> QED BY Zenon, <2>1, <2>2, <2>3 DEF DoneKept
<1>6. MessageInv'
  <2>1. ASSUME NEW n \in Msgs, n # m PROVE MessageAt(n)'
    <3>1. rx[n] = "ack" => op'[ReadOp[n][Current(n)]] = "EN_DEFW_RC_OK"
      <4> SUFFICES ASSUME rx[n] = "ack" PROVE op'[ReadOp[n][Current(n)]] = "EN_DEFW_RC_OK"
        BY Zenon
      <4>1. op[ReadOp[n][Current(n)]] = "EN_DEFW_RC_OK" /\ Registered(n, Current(n))
        BY Zenon DEF RmaInv, MessageInv, MessageAt
      <4>2. Current(n) \in 1 .. Len(ReadOp[n])
        BY Zenon, <1>0, <4>1, PayloadHasOps DEF Registered, RmaInv
      <4> QED BY Zenon, <4>1, <4>2, OpNames DEF Ops
    <3> QED BY Zenon, <1>1, <2>1, <3>1, MessageFrame DEF RmaInv
  <2>2. MessageAt(m)'
    <3>1. tx[m] # "encode" /\ Len(payloads[m]) = Payloads(m)
      BY Zenon DEF RmaInv, MessageInv, MessageAt
    <3>2. Len(decoded'[m]) <= Len(payloads[m])
      BY Zenon, <1>0, <1>2 DEF Current
    <3>3. Payloads(m)' = Payloads(m) /\ Len(payloads[m]) <= Payloads(m)
      BY Zenon DEF RmaInv, MessageInv, MessageAt, Payloads
    <3> QED BY Zenon, <1>1, <3>1, <3>2, <3>3 DEF MessageAt
  <2> QED BY Zenon, <2>1, <2>2 DEF MessageInv
<1>7. ASSUME gaveUp' = {}, NEW n \in Msgs, NEW i \in 1 .. Len(decoded'[n])
      PROVE  decoded'[n][i] = Piece(n, i)
  <2>1. \A k \in Msgs : \A q \in 1 .. Len(decoded[k]) : decoded[k][q] = Piece(k, q)
    BY Zenon, <1>7 DEF RmaInv, DataInv
  <2>2. CASE n # m
    BY SMTT(30), <1>1, <2>1, <2>2
  <2>3. CASE n = m
    <3>1. i \in 1 .. Len(decoded[m]) \/ i = Len(decoded[m]) + 1
      BY SMTT(30), <1>0, <1>2, <2>3
    <3>2. CASE i \in 1 .. Len(decoded[m])
      BY Zenon, <1>2, <2>1, <2>3, <3>2
    <3>3. CASE i = Len(decoded[m]) + 1
      BY Zenon, <1>2, <1>7, <2>3, <3>3 DEF Current
    <3> QED BY Zenon, <3>1, <3>2, <3>3
  <2> QED BY Zenon, <2>2, <2>3
<1> QED BY Zenon, <1>1, <1>3, <1>4, <1>5, <1>6, <1>7

\* An inline payload is decoded as it came.
LEMMA StepDecodeInline == ASSUME RmaInv, NEW m \in Msgs, DecodeInline(m) PROVE RmaInv'
<1>1. /\ rx[m] = "arrived" /\ Current(m) <= Len(payloads[m])
      /\ decoded' = Append1(decoded, m, Piece(m, Current(m)))
      /\ UNCHANGED <<vars, mrVars, body, tx, payloads, published, rx, buffer, acks>>
  BY Zenon DEF DecodeInline, Decoding, Piece, txVars
<1>2. Piece(m, Current(m)) \in Item
  BY SMTT(30) DEF Piece, Item, Current, RmaInv, Shapes
<1>3. rx' = [rx EXCEPT ![m] = "arrived"]
  BY Zenon, <1>1 DEF RmaInv, Shapes
<1>4. /\ MessageInv' /\ Kept /\ DoneKept /\ decoded' \in [Msgs -> Seq(Item)]
      /\ gaveUp' = {} => \A n \in Msgs : \A i \in 1 .. Len(decoded'[n]) :
                             decoded'[n][i] = Piece(n, i)
  BY Zenon, <1>1, <1>2, <1>3, DecodeKeeps DEF vars
<1>5. Shapes' /\ HandleInv'
  BY Zenon, <1>1, <1>4, HandleFrame DEF RmaInv, Shapes, mrVars
<1>6. AckInv'
  BY Zenon, <1>1, <1>4, AckFrame DEF RmaInv, AckInv, vars
<1>7. HeldInv'
  BY Zenon, <1>1, <1>4, HeldFrame DEF RmaInv, mrVars
<1>8. DataInv'
  BY Zenon, <1>1, <1>4 DEF RmaInv, DataInv, Registered, vars
<1> QED BY Zenon, <1>4, <1>5, <1>6, <1>7, <1>8 DEF RmaInv

\* A message is lost or handed on.
LEMMA StepEnds ==
    ASSUME RmaInv, NEW m \in Msgs, FetchFails(m) \/ Decoded(m) PROVE RmaInv'
<1>1. PICK e \in {"lost", "loaded"} : /\ rx' = [rx EXCEPT ![m] = e]
                                      /\ e = "loaded" => Len(decoded[m]) = Len(payloads[m])
  BY Zenon DEF FetchFails, Decoded
<1>2. /\ rx[m] = "arrived"
      /\ UNCHANGED <<vars, mrVars, body, tx, payloads, published, buffer, decoded, acks>>
  BY Zenon DEF FetchFails, Decoded, ByRma, Decoding, txVars
<1>3. /\ rx'[m] = e /\ \A n \in Msgs \ {m} : rx'[n] = rx[n]
      /\ rx' \in [Msgs -> {"none", "arrived", "ack", "loaded", "lost"}]
  BY Zenon, <1>1 DEF RmaInv, Shapes
<1>4. Kept /\ DoneKept
  BY Zenon, <1>2, <1>3 DEF Kept, DoneKept, Registered, Done, Current
<1>5. Shapes' /\ HandleInv'
  BY Zenon, <1>2, <1>3, HandleFrame DEF RmaInv, Shapes, mrVars
<1>6. MessageInv'
  <2>1. ASSUME NEW n \in Msgs, n # m PROVE MessageAt(n)'
    BY SMTT(30), <1>2, <1>3, <2>1, MessageFrame DEF RmaInv, MessageInv, MessageAt, vars
  <2>2. MessageAt(m)'
    BY Zenon, <1>1, <1>2, <1>3 DEF RmaInv, MessageInv, MessageAt, Payloads
  <2> QED BY Zenon, <2>1, <2>2 DEF MessageInv
<1>7. AckInv'
  BY Zenon, <1>2, <1>4, AckFrame DEF RmaInv, AckInv, vars
<1>8. HeldInv'
  BY Zenon, <1>2, <1>4, HeldFrame DEF RmaInv, mrVars
<1>9. DataInv'
  BY Zenon, <1>2, <1>4, DataFrame DEF RmaInv, vars
<1> QED BY Zenon, <1>5, <1>6, <1>7, <1>8, <1>9 DEF RmaInv

-----------------------------------------------------------------------------
(* The operations of the receiver. *)

\* The queue keeps its promise until a wait is given up.
QueueInv == OpShape /\ (gaveUp = {} => Inv)

\* The payload being read has operations.
LEMMA CurrentOps ==
    ASSUME RmaInv, NEW m \in Msgs, ByRma(m) \/ rx[m] = "ack"
    PROVE  /\ Registered(m, Current(m)) /\ Current(m) \in 1 .. Len(ReadOp[m])
           /\ ReadOp[m][Current(m)] \in Reads /\ AckOp[m][Current(m)] \in Sends
           /\ Current(m) \in DOMAIN ReadOp[m] /\ Current(m) \in DOMAIN AckOp[m]
           /\ Current(m) <= Len(payloads[m])
<1>1. Len(decoded[m]) \in Nat /\ Len(payloads[m]) \in Nat
  BY SMTT(30) DEF RmaInv, Shapes
<1>2. Registered(m, Current(m))
  BY SMTT(30), <1>1 DEF RmaInv, MessageInv, MessageAt, ByRma, Decoding, Registered, Current
<1>3. Current(m) \in 1 .. Len(ReadOp[m])
  BY Zenon, <1>2, PayloadHasOps DEF RmaInv, Registered
<1>4. Current(m) <= Len(payloads[m])
  BY SMTT(30), <1>1, <1>2 DEF Registered
<1> QED BY Zenon, <1>2, <1>3, <1>4, OpNames

\* An operation of a payload that is being read moves, and nothing else does.
LEMMA OpKeeps ==
    ASSUME RmaInv, OpShape, NEW o \in Ops, Moves(o), UNCHANGED rmaVars,
           \/ op[o] # "start"
           \/ \E m \in Msgs : ByRma(m) /\ o = ReadOp[m][Current(m)]
           \/ \E m \in Msgs : rx[m] = "ack" /\ o = AckOp[m][Current(m)]
    PROVE  RmaInv'
<1> USE DEF rmaVars, mrVars, txVars, rxVars
<1>0. \A p \in Ops : op'[p] # "start" => p = o \/ op[p] # "start"
  BY Zenon DEF Moves
<1>1. Shapes' /\ HandleInv'
  BY Zenon, HandleFrame DEF RmaInv, Shapes
<1>2. Kept /\ DoneKept
  BY Zenon DEF Kept, DoneKept, Registered, Done, Current
<1>3. MessageInv'
  <2>1. ASSUME NEW n \in Msgs, rx[n] = "ack"
        PROVE  op'[ReadOp[n][Current(n)]] = "EN_DEFW_RC_OK"
    <3>1. ReadOp[n][Current(n)] \in Ops /\ op[ReadOp[n][Current(n)]] = "EN_DEFW_RC_OK"
      BY Zenon, <2>1, CurrentOps DEF Ops, RmaInv, MessageInv, MessageAt
    <3> QED BY Zenon, <3>1, MovesKeep DEF RmaInv
  <2> QED BY Zenon, <2>1, MessageFrame DEF RmaInv, MessageInv
<1>4. AckInv'
  <2>1. \A p \in fabric' : op'[p] # "start"
    BY Zenon, MovesKeep DEF RmaInv
  <2>2. ASSUME NEW p \in Sends, op'[p] # "start"
        PROVE  \E m \in Msgs : \E i \in DOMAIN AckOp[m] :
                   p = AckOp[m][i] /\ Registered(m, i) /\ Done(m, i)
    <3>1. CASE op[p] # "start"
      BY Zenon, <3>1 DEF RmaInv, AckInv
    <3>2. CASE op[p] = "start"
      <4>1. p = o
        BY Zenon, <1>0, <2>2, <3>2 DEF Ops
      <4>2. ASSUME NEW m \in Msgs, ByRma(m), o = ReadOp[m][Current(m)] PROVE FALSE
        BY Zenon, <4>1, <4>2, CurrentOps, OpsAssumption
      <4>3. PICK m \in Msgs : rx[m] = "ack" /\ o = AckOp[m][Current(m)]
        BY Zenon, <3>2, <4>1, <4>2
      <4>4. Current(m) \in DOMAIN AckOp[m] /\ Registered(m, Current(m)) /\ Done(m, Current(m))
        BY Zenon, <4>3, CurrentOps DEF Done
      <4> QED BY Zenon, <4>1, <4>3, <4>4
    <3> QED BY Zenon, <3>1, <3>2
  <2>3. ASSUME NEW p \in Sends, op'[p] # "start"
        PROVE  \E m \in Msgs : \E i \in DOMAIN AckOp[m] :
                   p = AckOp[m][i] /\ Registered(m, i)' /\ Done(m, i)'
    BY SMTT(30), <2>2, <2>3, <1>2 DEF Kept, DoneKept
  <2>4. \A a \in acks' : \E m \in Msgs : \E i \in 1 .. Len(payloads'[m]) :
            Registered(m, i)' /\ a.handle = payloads'[m][i] /\ Done(m, i)'
    BY SMTT(30) DEF RmaInv, AckInv, Registered, Done, Current
  <2> QED BY Zenon, <2>1, <2>3, <2>4 DEF AckInv
<1>5. HeldInv'
  BY Zenon, <1>2, HeldFrame DEF RmaInv
<1>6. DataInv'
  <2>1. ASSUME NEW n \in Msgs, NEW i \in DOMAIN ReadOp[n], op'[ReadOp[n][i]] # "start"
        PROVE  Registered(n, i)
    <3>0. i \in 1 .. Len(ReadOp[n]) /\ ReadOp[n][i] \in Reads
      BY Zenon, OpDomains, OpNames
    <3>1. CASE op[ReadOp[n][i]] # "start"
      BY Zenon, <3>1 DEF RmaInv, DataInv
    <3>2. CASE op[ReadOp[n][i]] = "start"
      <4>1. o = ReadOp[n][i]
        BY Zenon, <1>0, <2>1, <3>0, <3>2 DEF Ops
      <4>2. ASSUME NEW m \in Msgs, rx[m] = "ack", o = AckOp[m][Current(m)] PROVE FALSE
        BY SMTT(30), <3>0, <4>1, <4>2, CurrentOps, OpsAssumption
      <4>3. PICK m \in Msgs : ByRma(m) /\ o = ReadOp[m][Current(m)]
        BY Zenon, <3>2, <4>1, <4>2
      <4>4. Current(m) \in 1 .. Len(ReadOp[m]) /\ Registered(m, Current(m))
        BY Zenon, <4>3, CurrentOps
      <4>5. ReadOp[m][Current(m)] = ReadOp[n][i]
        BY Zenon, <4>1, <4>3
      <4>6. m = n /\ Current(m) = i
        BY SMTT(30), <3>0, <4>4, <4>5, OneOpEach
      <4> QED BY Zenon, <4>4, <4>6
    <3> QED BY Zenon, <3>1, <3>2
  <2>2. gaveUp' = {} => gaveUp = {}
    BY Zenon DEF Moves
  <2>3. landed' = landed
    BY Zenon DEF Moves
  <2> QED BY Zenon, <2>1, <2>2, <2>3 DEF RmaInv, DataInv, Registered
<1> QED BY Zenon, <1>1, <1>3, <1>4, <1>5, <1>6 DEF RmaInv

\* A read returns: the payload is there, or the message is lost.
LEMMA StepReadReturns ==
    ASSUME RmaInv, OpShape, NEW m \in Msgs, ReadReturns(m) PROVE RmaInv'
<1> DEFINE o == ReadOp[m][Current(m)]
<1>1. /\ ByRma(m) /\ rx[m] = "arrived" /\ Returns(o) /\ o \in Reads /\ o \in Ops
      /\ rx' = [rx EXCEPT ![m] = IF op'[o] = "EN_DEFW_RC_OK" THEN "ack" ELSE "lost"]
      /\ UNCHANGED <<mrVars, body, tx, payloads, published, buffer, decoded, acks>>
      /\ Registered(m, Current(m))
  BY Zenon, CurrentOps DEF ReadReturns, ByRma, Decoding, txVars, Ops
<1>2. /\ Moves(o) /\ op[o] \in {"locked", "posted"}
  BY Zenon, <1>1, ReturnsMoves
<1>3. /\ rx'[m] \in {"ack", "lost"} /\ \A n \in Msgs \ {m} : rx'[n] = rx[n]
      /\ rx'[m] = "ack" => op'[o] = "EN_DEFW_RC_OK"
      /\ rx' \in [Msgs -> {"none", "arrived", "ack", "loaded", "lost"}]
  BY Zenon, <1>1 DEF RmaInv, Shapes
<1>4. \A p \in Ops : op'[p] # "start" => op[p] # "start"
  BY Zenon, <1>2 DEF Moves
<1>5. Kept /\ DoneKept
  BY Zenon, <1>1, <1>3 DEF Kept, DoneKept, Registered, Done, Current
<1>6. Shapes' /\ HandleInv'
  BY Zenon, <1>1, <1>3, HandleFrame DEF RmaInv, Shapes, mrVars
<1>7. MessageInv'
  <2>1. ASSUME NEW n \in Msgs, rx[n] = "ack"
        PROVE  op'[ReadOp[n][Current(n)]] = "EN_DEFW_RC_OK"
    <3>1. ReadOp[n][Current(n)] \in Ops /\ op[ReadOp[n][Current(n)]] = "EN_DEFW_RC_OK"
      BY Zenon, <2>1, CurrentOps DEF Ops, RmaInv, MessageInv, MessageAt
    <3> QED BY Zenon, <1>1, <1>2, <3>1, MovesKeep DEF RmaInv
  <2>2. ASSUME NEW n \in Msgs, n # m PROVE MessageAt(n)'
    BY Zenon, <1>1, <1>3, <2>1, <2>2, MessageFrame DEF RmaInv
  <2>3. MessageAt(m)'
    <3>1. rx'[m] = "ack" => Registered(m, Current(m))' /\ op'[ReadOp[m][Current(m)']] = "EN_DEFW_RC_OK"
      BY Zenon, <1>1, <1>3 DEF Registered, Current
    <3> QED BY Zenon, <1>1, <1>3, <3>1 DEF RmaInv, MessageInv, MessageAt, Payloads
  <2> QED BY Zenon, <2>2, <2>3 DEF MessageInv
<1>8. AckInv'
  <2>1. \A p \in fabric' : op'[p] # "start"
    BY Zenon, <1>1, <1>2, MovesKeep DEF RmaInv
  <2> QED BY Zenon, <1>1, <1>4, <1>5, <2>1, AckFrame DEF RmaInv, Ops
<1>9. HeldInv'
  BY Zenon, <1>1, <1>5, HeldFrame DEF RmaInv, mrVars
<1>10. DataInv'
  <2>1. \A n \in Msgs : \A i \in DOMAIN ReadOp[n] : ReadOp[n][i] \in Ops
    BY Zenon, OpDomains, OpNames DEF Ops
  <2>2. landed' = landed /\ gaveUp \subseteq gaveUp'
    BY Zenon, <1>2 DEF Moves
  <2> QED BY Zenon, <1>1, <1>4, <1>5, <2>1, <2>2, DataFrame DEF RmaInv
<1> QED BY Zenon, <1>6, <1>7, <1>8, <1>9, <1>10 DEF RmaInv

\* What a fetch that was acknowledged, or not, hands on.
LEMMA FetchedPiece ==
    ASSUME RmaInv, QueueInv, NEW m \in Msgs, rx[m] = "ack"
    PROVE  /\ buffer[ReadOp[m][Current(m)]] \in Item
           /\ gaveUp = {} => buffer[ReadOp[m][Current(m)]] = Piece(m, Current(m))
<1>1. ReadOp[m][Current(m)] \in Reads /\ Current(m) \in DOMAIN ReadOp[m]
  BY Zenon, CurrentOps
<1>2. op[ReadOp[m][Current(m)]] = "EN_DEFW_RC_OK"
  BY Zenon DEF RmaInv, MessageInv, MessageAt
<1>3. gaveUp = {} => ReadOp[m][Current(m)] \in landed
  BY Zenon, <1>1, <1>2 DEF QueueInv, Inv, Ops
<1> QED BY Zenon, <1>1, <1>3 DEF RmaInv, DataInv, Shapes

\* A payload that was read is acknowledged over TCP, or not at all.
LEMMA StepAckTcp ==
    ASSUME RmaInv, QueueInv, NEW m \in Msgs, AckTcp(m) PROVE RmaInv'
<1> DEFINE x == buffer[ReadOp[m][Current(m)]]
<1>1. /\ rx[m] = "ack" /\ decoded' = Append1(decoded, m, x)
      /\ rx' = [rx EXCEPT ![m] = "arrived"]
      /\ UNCHANGED <<vars, mrVars, body, tx, payloads, published, buffer>>
      /\ acks' \subseteq acks \cup {Acknowledge(m, "tcp")}
  BY Zenon DEF AckTcp, Fetched, txVars
<1>2. x \in Item /\ (gaveUp = {} => x = Piece(m, Current(m)))
  BY Zenon, <1>1, FetchedPiece
<1>3. Registered(m, Current(m)) /\ Current(m) <= Len(payloads[m])
  BY Zenon, <1>1, CurrentOps
<1> HIDE DEF x
<1>4. /\ MessageInv' /\ Kept /\ DoneKept /\ decoded' \in [Msgs -> Seq(Item)]
      /\ \A i : i = Current(m) => Done(m, i)'
      /\ rx' \in [Msgs -> {"none", "arrived", "ack", "loaded", "lost"}]
      /\ gaveUp' = {} => \A n \in Msgs : \A i \in 1 .. Len(decoded'[n]) :
                             decoded'[n][i] = Piece(n, i)
  BY Zenon, <1>1, <1>2, <1>3, DecodeKeeps DEF vars
<1>5. Shapes' /\ HandleInv'
  BY Zenon, <1>1, <1>4, HandleFrame DEF RmaInv, Shapes, mrVars
<1>6. AckInv'
  <2>1. ASSUME NEW o \in Sends, op'[o] # "start"
        PROVE  \E n \in Msgs : \E i \in DOMAIN AckOp[n] :
                   o = AckOp[n][i] /\ Registered(n, i)' /\ Done(n, i)'
    BY Zenon, <1>1, <1>4, <2>1 DEF RmaInv, AckInv, Kept, DoneKept, vars
  <2>2. ASSUME NEW a \in acks'
        PROVE  \E n \in Msgs : \E i \in 1 .. Len(payloads'[n]) :
                   Registered(n, i)' /\ a.handle = payloads'[n][i] /\ Done(n, i)'
    <3>1. CASE a \in acks
      <4>1. PICK n \in Msgs : \E i \in 1 .. Len(payloads[n]) :
                Registered(n, i) /\ a.handle = payloads[n][i] /\ Done(n, i)
        BY Zenon, <3>1 DEF RmaInv, AckInv
      <4>2. PICK i \in 1 .. Len(payloads[n]) :
                Registered(n, i) /\ a.handle = payloads[n][i] /\ Done(n, i)
        BY Zenon, <4>1
      <4>3. Registered(n, i)' /\ Done(n, i)'
        BY Zenon, <1>4, <4>2 DEF Kept, DoneKept
      <4> QED BY Zenon, <1>1, <4>2, <4>3
    <3>2. CASE a = Acknowledge(m, "tcp")
      <4>1. PICK i : i = Current(m)
        BY Zenon
      <4>2. a.handle = payloads[m][i]
        BY Zenon, <3>2, <4>1 DEF Acknowledge
      <4>3. Registered(m, i)' /\ Done(m, i)' /\ i \in 1 .. Len(payloads[m])
        BY Zenon, <1>3, <1>4, <4>1 DEF Kept, Registered
      <4> QED BY Zenon, <1>1, <4>2, <4>3
    <3> QED BY Zenon, <1>1, <3>1, <3>2
  <2>3. \A o \in fabric' : op'[o] # "start"
    BY Zenon, <1>1 DEF RmaInv, AckInv, vars
  <2> QED BY Zenon, <2>1, <2>2, <2>3 DEF AckInv
<1>7. HeldInv'
  BY ZenonT(30), <1>1, <1>4, HeldFrame DEF RmaInv, mrVars
<1>8. DataInv'
  BY SMTT(30), <1>1, <1>4 DEF RmaInv, DataInv, Registered, vars
<1> QED BY Zenon, <1>4, <1>5, <1>6, <1>7, <1>8 DEF RmaInv

\* A payload that was read is acknowledged over the fabric.
LEMMA StepAckReturns ==
    ASSUME RmaInv, QueueInv, NEW m \in Msgs, AckReturns(m) PROVE RmaInv'
<1> DEFINE x == buffer[ReadOp[m][Current(m)]]
           o == AckOp[m][Current(m)]
<1>1. /\ rx[m] = "ack" /\ decoded' = Append1(decoded, m, x)
      /\ rx' = [rx EXCEPT ![m] = "arrived"] /\ Returns(o)
      /\ UNCHANGED <<mrVars, body, tx, payloads, published, buffer, acks>>
  BY Zenon DEF AckReturns, Fetched, txVars
<1>2. x \in Item /\ (gaveUp = {} => x = Piece(m, Current(m)))
  BY Zenon, <1>1, FetchedPiece
<1>3. Registered(m, Current(m)) /\ Current(m) <= Len(payloads[m]) /\ o \in Ops
  BY Zenon, <1>1, CurrentOps DEF Ops
<1> HIDE DEF x, o
<1>4. Moves(o) /\ op[o] \in {"locked", "posted"} /\ OpShape
  BY Zenon, <1>1, <1>3, ReturnsMoves DEF QueueInv
<1>5. /\ \A p \in Ops : op'[p] # "start" => op[p] # "start"
      /\ gaveUp \subseteq gaveUp' /\ landed' = landed
  BY Zenon, <1>4 DEF Moves
<1>6. /\ \A p \in Ops : op[p] = "EN_DEFW_RC_OK" => op'[p] = "EN_DEFW_RC_OK"
      /\ \A p \in fabric' : op'[p] # "start"
  BY Zenon, <1>3, <1>4, MovesKeep DEF RmaInv
<1>7. /\ MessageInv' /\ Kept /\ DoneKept /\ decoded' \in [Msgs -> Seq(Item)]
      /\ \A i : i = Current(m) => Done(m, i)'
      /\ rx' \in [Msgs -> {"none", "arrived", "ack", "loaded", "lost"}]
      /\ gaveUp' = {} => \A n \in Msgs : \A i \in 1 .. Len(decoded'[n]) :
                             decoded'[n][i] = Piece(n, i)
  <2>1. /\ rx[m] \in {"arrived", "ack"} /\ UNCHANGED <<body, tx, payloads>>
        /\ gaveUp' = {} => x = Piece(m, Current(m))
    BY SMTT(30), <1>1, <1>2, <1>5
  <2> QED BY ZenonT(30), <1>1, <1>2, <1>3, <1>5, <1>6, <2>1, DecodeKeeps
<1>8. Shapes' /\ HandleInv'
  BY Zenon, <1>1, <1>7, HandleFrame DEF RmaInv, Shapes, mrVars
<1>9. AckInv'
  BY SMTT(30), <1>1, <1>5, <1>6, <1>7, AckFrame DEF RmaInv, Ops
<1>10. HeldInv'
  BY ZenonT(30), <1>1, <1>7, HeldFrame DEF RmaInv, mrVars
<1>11. DataInv'
  <2>1. \A n \in Msgs : \A i \in DOMAIN ReadOp[n] : ReadOp[n][i] \in Ops
    BY Zenon, OpDomains, OpNames DEF Ops
  <2> QED BY SMTT(30), <1>1, <1>5, <1>7, <2>1 DEF RmaInv, DataInv, Registered
<1> QED BY Zenon, <1>7, <1>8, <1>9, <1>10, <1>11 DEF RmaInv

\* The provider finishes an operation: a read has its payload in its buffer, an
\* acknowledgement names the payload it was sent for.
LEMMA StepDeliver ==
    ASSUME RmaInv, QueueInv, NEW o \in Ops, Deliver(o) PROVE RmaInv'
<1>1. /\ Provider(o) /\ UNCHANGED <<mrVars, body, tx, payloads, published, rx, decoded>>
  BY Zenon DEF Deliver, txVars
<1>2. /\ op' = op /\ fabric' \subseteq fabric /\ gaveUp' = gaveUp /\ op[o] # "start"
      /\ landed \subseteq landed' /\ landed' \subseteq landed \cup {o}
  BY Zenon, <1>1, ProviderMoves DEF QueueInv, RmaInv, AckInv
<1>3. Kept /\ DoneKept
  BY Zenon, <1>1 DEF Kept, DoneKept, Registered, Done, Current
<1>4. HandleInv'
  BY Zenon, <1>1, HandleFrame DEF RmaInv, mrVars
<1>5. MessageInv'
  BY Zenon, <1>1, <1>2, MessageFrame DEF RmaInv, MessageInv, MessageAt
<1>6. HeldInv'
  BY Zenon, <1>1, <1>3, HeldFrame DEF RmaInv, mrVars
<1>7. CASE landed' = landed
  <2>1. UNCHANGED <<acks, buffer>>
    BY Zenon, <1>7 DEF Deliver
  <2>2. Shapes'
    BY Zenon, <1>1, <2>1 DEF RmaInv, Shapes, mrVars
  <2>3. AckInv'
    BY Zenon, <1>2, <1>3, <2>1, AckFrame DEF RmaInv, AckInv
  <2>4. DataInv'
    BY SMTT(30), <1>1, <1>2, <1>3, <1>7, <2>1, DataFrame DEF RmaInv
  <2> QED BY SMTT(30), <1>4, <1>5, <1>6, <2>2, <2>3, <2>4 DEF RmaInv
<1>8. CASE landed' # landed /\ o \in Reads
  <2>1. /\ RegionOf(o) \in DOMAIN regions /\ acks' = acks
        /\ buffer' = [buffer EXCEPT ![o] = regions[RegionOf(o)]]
    BY Zenon, <1>8 DEF Deliver
  <2>2. regions[RegionOf(o)] \in Item
    BY Zenon, <2>1 DEF RmaInv, Shapes
  <2>3. Shapes'
    BY ZenonT(30), <1>1, <2>1, <2>2 DEF RmaInv, Shapes, mrVars
  <2>4. AckInv'
    BY SMTT(30), <1>2, <1>3, <2>1, AckFrame DEF RmaInv, AckInv
  <2>5. ASSUME NEW n \in Msgs, NEW i \in DOMAIN ReadOp[n], ReadOp[n][i] \in landed'
        PROVE  buffer'[ReadOp[n][i]] = Piece(n, i)
    <3>1. i \in 1 .. Len(ReadOp[n]) /\ ReadOp[n][i] \in Reads
      BY Zenon, OpDomains, OpNames
    <3>2. CASE ReadOp[n][i] = o
      <4>1. Registered(n, i) /\ RegionOf(o) = payloads[n][i]
        BY Zenon, <1>2, <3>1, <3>2, PayloadOfOp DEF RmaInv, DataInv
      <4>2. regions[RegionOf(o)] = Piece(n, i)
        BY Zenon, <2>1, <4>1 DEF RmaInv, HandleInv, PieceInv, Registered
      <4> QED BY SMTT(30), <2>1, <3>1, <3>2, <4>2 DEF RmaInv, Shapes
    <3>3. CASE ReadOp[n][i] # o
      BY SMTT(30), <1>2, <2>1, <2>5, <3>1, <3>3 DEF RmaInv, Shapes, DataInv
    <3> QED BY Zenon, <3>2, <3>3
  <2>6. DataInv'
    <3>1. \A n \in Msgs : \A i \in DOMAIN ReadOp[n] :
              op'[ReadOp[n][i]] # "start" => Registered(n, i)'
      BY ZenonT(30), <1>1, <1>2 DEF RmaInv, DataInv, Registered
    <3>2. gaveUp' = {} => \A n \in Msgs : \A i \in 1 .. Len(decoded'[n]) :
                              decoded'[n][i] = Piece(n, i)
      BY Zenon, <1>1, <1>2 DEF RmaInv, DataInv
    <3> QED BY Zenon, <2>5, <3>1, <3>2 DEF DataInv
  <2> QED BY Zenon, <1>4, <1>5, <1>6, <2>3, <2>4, <2>6 DEF RmaInv
<1>9. CASE landed' # landed /\ o \notin Reads
  <2>1. o \in Sends /\ buffer' = buffer /\ acks' = acks \cup AcksOf(o)
    BY Zenon, <1>9 DEF Deliver, Ops
  <2>2. Shapes'
    BY Zenon, <1>1, <2>1 DEF RmaInv, Shapes, mrVars
  <2>3. AckInv'
    <3>1. PICK n \in Msgs : \E i \in DOMAIN AckOp[n] :
              o = AckOp[n][i] /\ Registered(n, i) /\ Done(n, i)
      BY Zenon, <1>2, <2>1 DEF RmaInv, AckInv
    <3>2. PICK i \in DOMAIN AckOp[n] :
              o = AckOp[n][i] /\ Registered(n, i) /\ Done(n, i)
      BY Zenon, <3>1
    <3>3. RegionOf(o) = payloads[n][i] /\ i \in 1 .. Len(payloads[n])
      BY Zenon, <3>2, OpDomains, PayloadOfOp DEF Registered
    <3>4. ASSUME NEW a \in acks'
          PROVE  \E k \in Msgs : \E j \in 1 .. Len(payloads[k]) :
                     Registered(k, j) /\ a.handle = payloads[k][j] /\ Done(k, j)
      <4>1. CASE a \in acks
        BY Zenon, <4>1 DEF RmaInv, AckInv
      <4>2. CASE a \in AcksOf(o)
        <5>1. a.handle = payloads[n][i]
          BY Zenon, <3>3, <4>2 DEF AcksOf
        <5> QED BY Zenon, <3>2, <3>3, <5>1
      <4> QED BY Zenon, <2>1, <4>1, <4>2
    <3>5. \A k \in Msgs : \A j : /\ Registered(k, j)' <=> Registered(k, j)
                                 /\ Done(k, j)' <=> Done(k, j)
      BY Zenon, <1>1 DEF Registered, Done, Current
    <3>6. ASSUME NEW p \in Sends, op'[p] # "start"
          PROVE  \E k \in Msgs : \E j \in DOMAIN AckOp[k] :
                     p = AckOp[k][j] /\ Registered(k, j)' /\ Done(k, j)'
      BY Zenon, <1>2, <3>5, <3>6 DEF RmaInv, AckInv
    <3>7. \A p \in fabric' : op'[p] # "start"
      BY Zenon, <1>2 DEF RmaInv, AckInv
    <3>8. ASSUME NEW a \in acks'
          PROVE  \E k \in Msgs : \E j \in 1 .. Len(payloads'[k]) :
                     Registered(k, j)' /\ a.handle = payloads'[k][j] /\ Done(k, j)'
      BY Zenon, <1>1, <3>4, <3>5
    <3> QED BY Zenon, <3>6, <3>7, <3>8 DEF AckInv
  <2>4. DataInv'
    <3>1. \A n \in Msgs : \A i \in DOMAIN ReadOp[n] : ReadOp[n][i] # o
      BY Zenon, <1>9, OpDomains, OpNames
    <3> QED BY Zenon, <1>1, <1>2, <2>1, <3>1 DEF RmaInv, DataInv, Registered
  <2> QED BY Zenon, <1>4, <1>5, <1>6, <2>2, <2>3, <2>4 DEF RmaInv
<1> QED BY Zenon, <1>7, <1>8, <1>9

-----------------------------------------------------------------------------
(* The composition takes the steps of the transmit queue, and no others. *)

\* A step of the sender, of the receiver or of the fabric is, to the transmit
\* queue, one step of one operation or none (ofi_send_msg and
\* defw_transport_ofi_rma_read under send_lock).
LEMMA QueueSteps == ASSUME RmaInv, [RmaNext]_allVars PROVE [Next]_vars
<1>1. ASSUME NEW m \in Msgs, Sender(m) PROVE UNCHANGED vars
  BY Zenon, <1>1 DEF Sender, Publish, SendInline, DumpRaises, SendOk, SendFails, Discard
<1>2. ASSUME NEW o \in Ops, Returns(o) PROVE Next
  BY Zenon, <1>2 DEF Returns, Next
<1>3. ASSUME NEW m \in Msgs, Receiver(m) PROVE [Next]_vars
  <2>1. CASE DecodeInline(m) \/ FetchFails(m) \/ AckTcp(m) \/ Decoded(m)
    BY Zenon, <2>1 DEF DecodeInline, FetchFails, AckTcp, Decoded
  <2>2. CASE ReadReturns(m)
    <3>1. ByRma(m) /\ Returns(ReadOp[m][Current(m)])
      BY Zenon, <2>2 DEF ReadReturns
    <3> QED BY Zenon, <1>2, <3>1, CurrentOps DEF Ops
  <2>3. CASE AckReturns(m)
    <3>1. rx[m] = "ack" /\ Returns(AckOp[m][Current(m)])
      BY Zenon, <2>3 DEF AckReturns
    <3> QED BY Zenon, <1>2, <3>1, CurrentOps DEF Ops
  <2> QED BY Zenon, <1>3, <2>1, <2>2, <2>3 DEF Receiver
<1>4. ASSUME NEW m \in Msgs, FetchStarts(m) \/ AckStarts(m) PROVE Next
  BY Zenon, <1>4, CurrentOps DEF FetchStarts, AckStarts, Ops, Next
<1>5. ASSUME NEW o \in Ops, Posting(o) \/ Deliver(o) PROVE Next
  BY Zenon, <1>5 DEF Posting, Deliver, Next
<1>6. ASSUME NEW a \in acks, RmaAck(a) PROVE UNCHANGED vars
  BY Zenon, <1>6 DEF RmaAck
<1>7. Teardown => UNCHANGED vars
  BY Zenon DEF Teardown
<1>8. UNCHANGED allVars => UNCHANGED vars
  BY Zenon DEF allVars
<1> QED BY SMTT(30), <1>1, <1>3, <1>4, <1>5, <1>6, <1>7, <1>8 DEF RmaNext, Work

\* The transmit queue keeps its invariant.
LEMMA QueueKeeps == ASSUME QueueInv, [Next]_vars PROVE QueueInv'
<1>1. OpShape'
  <2>1. CASE UNCHANGED vars
    BY Zenon, <2>1 DEF vars, QueueInv, OpShape
  <2>2. ASSUME NEW o \in Ops, Acquire(o) PROVE OpShape'
    BY Zenon, <2>2, AcquireMoves DEF QueueInv
  <2>3. ASSUME NEW o \in Ops, Post(o) \/ PostAgain(o) PROVE OpShape'
    BY Zenon, <2>3, PostingMoves DEF QueueInv
  <2>4. ASSUME NEW o \in Ops, Returns(o) PROVE OpShape'
    BY Zenon, <2>4, ReturnsMoves DEF QueueInv
  <2>5. ASSUME NEW o \in Ops, Provider(o) PROVE OpShape'
    BY Zenon, <2>5, ProviderMoves DEF QueueInv
  <2>6. Next => OpShape'
    BY Zenon, <2>2, <2>3, <2>4, <2>5 DEF Next, Returns
  <2> QED BY Zenon, <2>1, <2>6
<1>2. gaveUp' = {} => Inv'
  BY Zenon, InvNext, GaveUpGrows DEF QueueInv
<1> QED BY Zenon, <1>1, <1>2 DEF QueueInv

\* Every step of the sender, the receiver or the fabric preserves the
\* invariant.
LEMMA RmaStep == ASSUME RmaInv, QueueInv, [RmaNext]_allVars PROVE RmaInv'
<1>0. OpShape
  BY Zenon DEF QueueInv
<1>1. ASSUME NEW m \in Msgs, Sender(m) PROVE RmaInv'
  <2>1. CASE DumpRaises(m) \/ SendOk(m) \/ SendFails(m)
    <3>1. /\ Encoded(m) /\ (rx' = rx \/ rx' = [rx EXCEPT ![m] = "arrived"])
          /\ UNCHANGED <<vars, body, payloads, published, mrVars, buffer, decoded, acks>>
      BY Zenon, <2>1 DEF DumpRaises, SendOk, SendFails, rxVars
    <3>2. \E t \in {"raised", "sent", "discard"} : tx' = [tx EXCEPT ![m] = t]
      BY Zenon, <2>1 DEF DumpRaises, SendOk, SendFails
    <3> QED BY Zenon, <3>1, <3>2, StepSent
  <2>2. CASE Publish(m)
    BY ZenonT(30), <2>2, StepPublish
  <2>3. CASE SendInline(m)
    BY ZenonT(30), <2>3, StepInline
  <2>4. CASE Discard(m)
    BY ZenonT(30), <2>4, StepDiscard
  <2> QED BY Zenon, <1>1, <2>1, <2>2, <2>3, <2>4 DEF Sender
<1>2. ASSUME NEW m \in Msgs, Receiver(m) PROVE RmaInv'
  <2>1. CASE DecodeInline(m)
    BY ZenonT(30), <2>1, StepDecodeInline
  <2>2. CASE FetchFails(m) \/ Decoded(m)
    BY ZenonT(30), <2>2, StepEnds
  <2>3. CASE ReadReturns(m)
    BY ZenonT(30), <1>0, <2>3, StepReadReturns
  <2>4. CASE AckTcp(m)
    BY ZenonT(30), <2>4, StepAckTcp
  <2>5. CASE AckReturns(m)
    BY ZenonT(30), <2>5, StepAckReturns
  <2> QED BY SMTT(30), <1>2, <2>1, <2>2, <2>3, <2>4, <2>5 DEF Receiver
<1>3. ASSUME NEW m \in Msgs, FetchStarts(m) PROVE RmaInv'
  <2>1. ByRma(m) /\ Acquire(ReadOp[m][Current(m)]) /\ UNCHANGED rmaVars
    BY Zenon, <1>3 DEF FetchStarts
  <2>2. ReadOp[m][Current(m)] \in Ops
    BY Zenon, <2>1, CurrentOps DEF Ops
  <2>3. Moves(ReadOp[m][Current(m)])
    BY Zenon, <1>0, <2>1, <2>2, AcquireMoves
  <2> QED BY Zenon, <1>0, <2>1, <2>2, <2>3, OpKeeps
<1>4. ASSUME NEW m \in Msgs, AckStarts(m) PROVE RmaInv'
  <2>1. rx[m] = "ack" /\ Acquire(AckOp[m][Current(m)]) /\ UNCHANGED rmaVars
    BY Zenon, <1>4 DEF AckStarts
  <2>2. AckOp[m][Current(m)] \in Ops
    BY Zenon, <2>1, CurrentOps DEF Ops
  <2>3. Moves(AckOp[m][Current(m)])
    BY Zenon, <1>0, <2>1, <2>2, AcquireMoves
  <2> QED BY SMTT(30), <1>0, <2>1, <2>2, <2>3, OpKeeps
<1>5. ASSUME NEW o \in Ops, Posting(o) PROVE RmaInv'
  <2>1. (Post(o) \/ PostAgain(o)) /\ UNCHANGED rmaVars
    BY Zenon, <1>5 DEF Posting
  <2>2. Moves(o) /\ op[o] # "start"
    BY Zenon, <1>0, <2>1, PostingMoves
  <2> QED BY Zenon, <1>0, <2>1, <2>2, OpKeeps
<1>6. ASSUME NEW o \in Ops, Deliver(o) PROVE RmaInv'
  BY ZenonT(30), <1>6, StepDeliver
<1>7. ASSUME NEW a \in acks, RmaAck(a) PROVE RmaInv'
  BY ZenonT(30), <1>7, StepAck
<1>8. Teardown => RmaInv'
  BY ZenonT(30), StepTeardown
<1>9. CASE UNCHANGED allVars
  <2>1. UNCHANGED <<vars, mrVars, body, tx, payloads, published, rx, buffer, decoded, acks>>
    BY Zenon, <1>9 DEF allVars, rmaVars, txVars, rxVars
  <2>2. MessageInv' /\ AckInv' /\ DataInv'
    BY Zenon, <2>1, QuietKeeps
  <2>3. Shapes' /\ HandleInv'
    BY Zenon, <2>1, HandleFrame DEF RmaInv, Shapes, mrVars
  <2>4. HeldInv'
    BY Zenon, <2>1 DEF RmaInv, HeldInv, Registered, Done, Current, mrVars
  <2> QED BY Zenon, <2>2, <2>3, <2>4 DEF RmaInv
<1> QED BY SMTT(30), <1>1, <1>2, <1>3, <1>4, <1>5, <1>6, <1>7, <1>8, <1>9 DEF RmaNext, Work

\* Nothing is registered, sent or read yet.
LEMMA RmaStart == ASSUME RmaInit PROVE RmaInv /\ QueueInv
<1>1. QueueInv
  BY Zenon, InvInit DEF RmaInit, Init, QueueInv, OpShape
<1>2. DOMAIN regions = {} /\ \A m \in Msgs : payloads[m] = <<>> /\ published[m] = <<>> /\ decoded[m] = <<>>
      /\ rx[m] = "none" /\ tx[m] = "encode"
  BY Zenon DEF RmaInit
<1>3. Shapes
  <2>1. regions \in [DOMAIN regions -> Item]
    BY Zenon DEF RmaInit
  <2>2. Junk \in Item
    BY Zenon DEF Item
  <2> QED BY SMTT(30), <2>1, <2>2 DEF RmaInit, Shapes
<1>4. HandleInv
  <2>1. RegionInv /\ PieceInv /\ DistinctInv /\ PublishedInv
    BY SMTT(30), <1>2 DEF RegionInv, PieceInv, DistinctInv, PublishedInv
  <2>2. ClosedInv
    BY SMTT(30), <1>2, HandlesAreNat DEF RmaInit, ClosedInv
  <2> QED BY Zenon, <2>1, <2>2 DEF HandleInv
<1>5. MessageInv
  BY SMTT(30), <1>2, <1>3, PayloadCount DEF MessageInv, MessageAt
<1>6. AckInv /\ HeldInv
  BY SMTT(30), <1>2, OpsAssumption DEF RmaInit, Init, Ops, AckInv, HeldInv
<1>7. DataInv
  <2>1. \A m \in Msgs : \A i \in DOMAIN ReadOp[m] : ReadOp[m][i] \in Ops
    BY Zenon, OpDomains, OpNames DEF Ops
  <2> QED BY SMTT(30), <1>2, <2>1 DEF RmaInit, Init, DataInv
<1> QED BY SMTT(30), <1>1, <1>3, <1>4, <1>5, <1>6, <1>7 DEF RmaInv

-----------------------------------------------------------------------------
(* The results. *)

\* Both invariants hold in every reachable state of the composition.
LEMMA RmaAlways == RmaSpec => [](RmaInv /\ QueueInv)
<1>1. RmaInit => RmaInv /\ QueueInv
  BY Zenon, RmaStart
<1>2. RmaInv /\ QueueInv /\ [RmaNext]_allVars => (RmaInv /\ QueueInv)'
  BY ZenonT(30), RmaStep, QueueSteps, QueueKeeps
<1> QED BY <1>1, <1>2, PTL DEF RmaSpec

\* For any messages, payloads and operations: a message that was sent finds
\* every region it has not read yet registered, while the sender's endpoint is
\* up; and a region is closed at most once, and only after it was registered
\* (attach_encode, process_msg_rma_ack, attach_discard, ofi_mr_entry).
THEOREM RegionsServed == RmaSpec => []RegionServed
<1>1. RmaInv => RegionServed
  <2> SUFFICES ASSUME RmaInv PROVE RegionServed
    BY Zenon
  <2>1. ASSUME up, NEW m \in Msgs, tx[m] = "sent", rx[m] = "arrived",
               NEW i \in Current(m) .. Len(payloads[m])
        PROVE  payloads[m][i] = Inline \/ payloads[m][i] \in DOMAIN regions
    <3>1. Len(decoded[m]) \in Nat /\ Len(payloads[m]) \in Nat
      BY SMTT(30) DEF RmaInv, Shapes
    <3>2. i \in 1 .. Len(payloads[m]) /\ ~(i < Current(m))
      BY SMTT(30), <3>1 DEF Current
    <3>3. ~Done(m, i)
      BY Zenon, <2>1, <3>2 DEF Done
    <3> QED BY Zenon, <2>1, <3>2, <3>3 DEF RmaInv, HeldInv, Registered
  <2> QED BY Zenon, <2>1 DEF RmaInv, HandleInv, ClosedInv, RegionServed
<1> QED BY <1>1, RmaAlways, PTL

INSTANCE FiniteSetTheorems

\* The number of an attachment is that of a payload of the message.
LEMMA MarkerInRange ==
    ASSUME Shapes, NEW m \in Msgs, NEW i \in DOMAIN body[m], Large(body[m][i])
    PROVE  Before(body[m], i) \in 1 .. Payloads(m)
<1> DEFINE All == {k \in 1 .. Len(body[m]) : Large(body[m][k])}
           Some == {k \in 1 .. i : Large(body[m][k])}
<1>1. body[m] \in Seq(Kinds)
  BY Zenon, RmaAssumption DEF Shapes
<1>2. Len(body[m]) \in Nat /\ i \in 1 .. Len(body[m])
  BY SMTT(30), <1>1
<1>3. IsFiniteSet(1 .. Len(body[m]))
  BY SMTT(30), <1>2, FS_Interval
<1>4. IsFiniteSet(All)
  BY Zenon, <1>3, FS_Subset
<1>5. Some \subseteq All /\ i \in Some
  BY SMTT(30), <1>2
<1>6. IsFiniteSet(Some) /\ Cardinality(Some) <= Cardinality(All)
  BY Zenon, <1>4, <1>5, FS_Subset
<1>7. Cardinality(Some) \in Nat /\ Cardinality(All) \in Nat /\ Cardinality(Some) # 0
  BY Zenon, <1>4, <1>5, <1>6, FS_CardinalityType, FS_EmptySet
<1>8. Before(body[m], i) = Cardinality(Some) /\ Payloads(m) = Cardinality(All)
  BY Zenon DEF Before, Payloads
<1> HIDE DEF All, Some
<1> QED BY SMTT(30), <1>6, <1>7, <1>8

\* For any messages, and any mix of RMA and inline payloads: a message is handed
\* on with its own leaves, each in its place, until a wait for the fabric is
\* given up (attach_dump and attach_load around defw_rma_fetch).
THEOREM PayloadsAreInPlace == RmaSpec => []PayloadsInPlace
<1>1. RmaInv => PayloadsInPlace
  <2> SUFFICES ASSUME RmaInv, gaveUp = {}, NEW m \in Msgs, rx[m] = "loaded",
                      NEW i \in DOMAIN body[m]
               PROVE  LET msg == Reinject(Extract(body[m]), decoded[m])
                      IN  IF Large(body[m][i])
                          THEN /\ msg[i].from = [msg |-> m, index |-> Before(body[m], i)]
                               /\ (msg[i].kind = "ndarray") = (body[m][i] = "ndarray")
                          ELSE msg[i] = Leaf(body[m][i], i)
    BY Zenon DEF PayloadsInPlace
  <2> DEFINE b == body[m]
             ext == Extract(b)
             msg == Reinject(ext, decoded[m])
  <2>1. b \in Seq(Kinds) /\ Len(b) \in Nat /\ i \in 1 .. Len(b)
    BY SMTT(30), RmaAssumption DEF RmaInv, Shapes
  <2>2. /\ ext = [j \in 1 .. Len(b) |-> IF Large(b[j]) THEN Marker(b[j], Before(b, j))
                                        ELSE Leaf(b[j], j)]
    BY Zenon DEF Extract
  <2>3. Len(ext) = Len(b)
    <3>1. DOMAIN ext = 1 .. Len(b)
      BY Zenon, <2>2
    <3>2. ext \in Seq(Range(ext))
      BY SMTT(30), <2>1, <2>2, <3>1 DEF Range
    <3> HIDE DEF ext
    <3> QED BY SMTT(30), <2>1, <3>1, <3>2
  <2>4. msg[i] = IF "marker" \notin DOMAIN ext[i] THEN ext[i]
                 ELSE IF ext[i].marker \in DOMAIN decoded[m]
                 THEN Leaf(ext[i].kind, decoded[m][ext[i].marker])
                 ELSE Leaf(ext[i].kind, Junk)
    BY Zenon, <2>1, <2>3 DEF Reinject
  <2>5. CASE Large(b[i])
    <3>1. ext[i] = Marker(b[i], Before(b, i))
      BY Zenon, <2>1, <2>2, <2>5
    <3>2. Before(b, i) \in 1 .. Payloads(m)
      BY Zenon, <2>5, MarkerInRange DEF RmaInv
    <3>3. decoded[m] \in Seq(Item) /\ Len(decoded[m]) = Payloads(m)
      BY Zenon DEF RmaInv, Shapes, MessageInv, MessageAt
    <3>4. DOMAIN decoded[m] = 1 .. Payloads(m)
      BY SMTT(30), <3>3
    <3>5. decoded[m][Before(b, i)] = Piece(m, Before(b, i))
      BY Zenon, <3>2, <3>3 DEF RmaInv, DataInv
    <3> HIDE DEF ext, msg, b
    <3>6. /\ "marker" \in DOMAIN ext[i] /\ ext[i].marker = Before(b, i)
          /\ ext[i].kind = IF b[i] = "ndarray" THEN "ndarray" ELSE "bytes"
      BY SMTT(30), <3>1 DEF Marker
    <3>7. msg[i] = Leaf(ext[i].kind, Piece(m, Before(b, i)))
      BY ZenonT(30), <2>4, <3>2, <3>4, <3>5, <3>6
    <3>8. /\ msg[i].from = [msg |-> m, index |-> Before(b, i)]
          /\ msg[i].kind = IF b[i] = "ndarray" THEN "ndarray" ELSE "bytes"
      BY SMTT(30), <3>6, <3>7 DEF Leaf, Piece
    <3>9. (msg[i].kind = "ndarray") = (b[i] = "ndarray")
      BY Zenon, <3>8
    <3> USE DEF b
    <3> QED BY Zenon, <2>5, <3>8, <3>9 DEF msg, ext
  <2>6. CASE ~Large(b[i])
    <3>1. ext[i] = Leaf(b[i], i)
      BY Zenon, <2>1, <2>2, <2>6
    <3>2. "marker" \notin DOMAIN ext[i]
      BY Zenon, <3>1 DEF Leaf
    <3>3. msg[i] = Leaf(b[i], i)
      BY Zenon, <2>4, <3>1, <3>2
    <3> QED BY Zenon, <2>6, <3>3
  <2> QED BY Zenon, <2>5, <2>6
<1> QED BY <1>1, RmaAlways, PTL

\* Messages and acknowledgements use the transmit queue as the threads of OfiTx
\* do: the composition implements it, so what holds of the queue holds here.
THEOREM RmaImplementsOfiTx == RmaSpec => Spec
<1>1. RmaInit => Init
  BY Zenon DEF RmaInit
<1>2. RmaInv /\ [RmaNext]_allVars => [Next]_vars
  BY Zenon, QueueSteps
<1> QED BY <1>1, <1>2, RmaAlways, PTL DEF RmaSpec, Spec
=============================================================================
