---------------------------- MODULE MCDirectory ----------------------------
(* The instance of Directory for TLC: two processes with one connection    *)
(* each, or one process with two connections.                              *)
EXTENDS Directory, TLC

CONSTANTS s1, r1, r2, h1, h2, h3

MCOwner == h1 :> r1 @@ h2 :> r2 @@ h3 :> r1
=============================================================================
