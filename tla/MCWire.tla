------------------------------- MODULE MCWire -------------------------------
(* The two ways messages travel, in one instance: two nodes that come to   *)
(* use the fabric, or senders that share a TCP channel.                    *)
EXTENDS FabricReady

CONSTANTS t1, t2, t3, Senders, Units, Buffer

ASSUME SizeAssumption == Units \in Nat \ {0} /\ Buffer \in Nat \ {0}

VARIABLES mutex, fd, pc, left, stream, reader, got, delivered, order, cut

framingVars == <<mutex, fd, pc, left, stream, reader, got, delivered, order, cut>>

F == INSTANCE Framing

ASSUME NoneAssumption == F!None \notin Senders

MCBoth == Nodes

\* One of the two has nothing to do: the connection of the nodes was dropped,
\* or the channel is closed.
MCInit ==
    \/ Init /\ F!Closed
    \/ Dropped /\ F!Init

MCNext == \/ Next /\ UNCHANGED framingVars
          \/ F!Next /\ UNCHANGED vars

MCSpec == MCInit /\ [][MCNext]_<<vars, framingVars>> /\ Fairness /\ F!Fairness

\* See Framing.
FramesIntact == F!FramesIntact
\* See Framing.
SentIsDelivered == F!SentIsDelivered
=============================================================================
