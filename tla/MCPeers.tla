------------------------------ MODULE MCPeers -------------------------------
(***************************************************************************)
(* The directory service r2 is connected to twice, one after the other.    *)
(* One thread wants runtime r1, which also connects to this process, and   *)
(* names that connection.                                                  *)
(***************************************************************************)
EXTENDS Peers

CONSTANTS d1, d2, h1, i1, u1, r1, r2

MCRuntime == [h \in {d1, d2, h1, i1} |-> IF h \in {d1, d2} THEN r2 ELSE r1]
MCConnOf == [u \in {u1} |-> h1]
MCTarget == [u \in {u1} |-> [handle |-> i1, runtime |-> r1]]
=============================================================================
