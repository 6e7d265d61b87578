------------------------------- MODULE OfiTx --------------------------------
(***************************************************************************)
(* The transmit side of the fabric (ofi_send_msg and                       *)
(* defw_transport_ofi_rma_read).  Sends and reads hold send_lock while     *)
(* they post an operation and wait for one completion on the transmit      *)
(* queue.  A send copies its message into a buffer it frees afterwards; a  *)
(* read has the provider write into the caller's buffer.  The completion   *)
(* is not compared with the operation that waits for it.                   *)
(***************************************************************************)
EXTENDS Naturals, Sequences, FiniteSets

CONSTANTS Sends, Reads,   \* operations, each run once by a thread of its own
          MaxGaveUp       \* bound on the waits given up

Ops == Sends \cup Reads
ASSUME OpsAssumption == Sends \cap Reads = {}
None == "none"
ASSUME NoneAssumption == None \notin Ops

VARIABLES
    lock,       \* the operation that holds send_lock
    op,         \* where an operation is
    fabric,     \* operations posted and not finished by the provider
    txCq,       \* completions: [op, ok]
    landed,     \* operations the provider finished without error
    freed,      \* sends whose buffer was freed
    gaveUp      \* operations whose wait ended without a completion

vars == <<lock, op, fabric, txCq, landed, freed, gaveUp>>

Init ==
    /\ lock = None
    /\ op = [o \in Ops |-> "start"]
    /\ fabric = {} /\ txCq = <<>> /\ landed = {} /\ freed = {}
    /\ gaveUp = {}

Acquire(o) ==
    /\ op[o] = "start" /\ lock = None
    /\ lock' = o
    /\ op' = [op EXCEPT ![o] = "locked"]
    /\ UNCHANGED <<fabric, txCq, landed, freed, gaveUp>>

\* fi_send or fi_read takes the operation.
Post(o) ==
    /\ op[o] = "locked"
    /\ fabric' = fabric \cup {o}
    /\ op' = [op EXCEPT ![o] = "posted"]
    /\ UNCHANGED <<lock, txCq, landed, freed, gaveUp>>

\* -FI_EAGAIN: fi_cq_read drives progress, and takes a completion that is
\* not an error.
PostAgain(o) ==
    /\ op[o] = "locked" /\ txCq # <<>> /\ Head(txCq).ok
    /\ txCq' = Tail(txCq)
    /\ UNCHANGED <<lock, op, fabric, landed, freed, gaveUp>>

\* The operation is left and, if it is a send, its buffer freed.
Leave(o, rc) ==
    /\ op' = [op EXCEPT ![o] = rc]
    /\ lock' = None
    /\ freed' = freed \cup ({o} \cap Sends)

\* fi_send or fi_read refuses the operation.
PostFails(o) ==
    /\ op[o] = "locked"
    /\ Leave(o, "EN_DEFW_RC_SOCKET_FAIL")
    /\ UNCHANGED <<fabric, txCq, landed, gaveUp>>

\* fi_cq_sread returns a completion or an error.
ReadCq(o) ==
    /\ op[o] = "posted" /\ txCq # <<>>
    /\ txCq' = Tail(txCq)
    /\ Leave(o, IF Head(txCq).ok THEN "EN_DEFW_RC_OK"
                ELSE "EN_DEFW_RC_SOCKET_FAIL")
    /\ UNCHANGED <<fabric, landed, gaveUp>>

\* fi_cq_sread times out; the operation is still with the provider.
TimeOut(o) ==
    /\ op[o] = "posted" /\ txCq = <<>> /\ Cardinality(gaveUp) < MaxGaveUp
    /\ Leave(o, "EN_DEFW_RC_TIMEOUT")
    /\ gaveUp' = gaveUp \cup {o}
    /\ UNCHANGED <<fabric, txCq, landed>>

\* fi_cq_sread fails for another reason, with the operation still out.
CqFails(o) ==
    /\ op[o] = "posted" /\ Cardinality(gaveUp) < MaxGaveUp
    /\ Leave(o, "EN_DEFW_RC_SOCKET_FAIL")
    /\ gaveUp' = gaveUp \cup {o}
    /\ UNCHANGED <<fabric, txCq, landed>>

\* The provider finishes an operation, successfully or not.
Provider(o) ==
    /\ o \in fabric
    /\ fabric' = fabric \ {o}
    /\ \E ok \in BOOLEAN :
          /\ txCq' = Append(txCq, [op |-> o, ok |-> ok])
          /\ landed' = IF ok THEN landed \cup {o} ELSE landed
    /\ UNCHANGED <<lock, op, freed, gaveUp>>

Next ==
    \E o \in Ops : \/ Acquire(o) \/ Post(o) \/ PostAgain(o) \/ PostFails(o)
                   \/ ReadCq(o) \/ TimeOut(o) \/ CqFails(o) \/ Provider(o)

Spec == Init /\ [][Next]_vars

-----------------------------------------------------------------------------
(* Properties. *)

Codes == {"EN_DEFW_RC_OK", "EN_DEFW_RC_SOCKET_FAIL", "EN_DEFW_RC_TIMEOUT"}

\* Shapes of the operations and of the transmit queue.
TypeOK ==
    /\ lock \in Ops \cup {None}
    /\ op \in [Ops -> {"start", "locked", "posted"} \cup Codes]
    /\ fabric \subseteq Ops /\ landed \subseteq Ops /\ freed \subseteq Sends
    /\ txCq \in Seq([op : Ops, ok : BOOLEAN]) /\ gaveUp \subseteq Ops

\* "exactly one completion is outstanding on the transmit CQ and it is
\* unambiguously ours" (ofi_send_msg): what a waiting operation finds on the
\* queue is its own completion, until a wait is given up.
CompletionIsOurs ==
    gaveUp = {} => \A o \in Ops : op[o] = "posted" =>
        /\ \A i \in 1 .. Len(txCq) : txCq[i].op = o
        /\ fabric \subseteq {o}

\* A read that returns success has the peer's data in the caller's buffer,
\* until a wait is given up (defw_transport_ofi_rma_read).
ReadHasData ==
    gaveUp = {} => \A o \in Reads : op[o] = "EN_DEFW_RC_OK" => o \in landed

\* "blocking until the send completes so the temporary buffer is safe to free"
\* (ofi_send_msg): no buffer is freed while the provider still has it, until a
\* wait is given up.
BufferIsSafe == gaveUp = {} => freed \cap fabric = {}

=============================================================================
