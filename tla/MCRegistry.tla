----------------------------- MODULE MCRegistry -----------------------------
(* What RPC threads do in a process that serves others, in one instance:   *)
(* they use the registries of objects, or they put events into the queue   *)
(* of one object.                                                          *)
EXTENDS Registry, EventsInstance

CONSTANTS c1, c2, c3, c4, c5     \* class_ids

VARIABLE part     \* what a behaviour is about

MCInit == Init /\ Q!Init /\ part \in {"registries", "events"}

MCNext ==
    /\ UNCHANGED part
    /\ \/ part = "registries" /\ Next /\ UNCHANGED queueVars
       \/ part = "events" /\ Q!Next /\ UNCHANGED vars

MCSpec == MCInit /\ [][MCNext]_<<vars, queueVars, part>>
=============================================================================
