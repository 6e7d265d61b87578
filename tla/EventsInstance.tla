--------------------------- MODULE EventsInstance ---------------------------
(* The event queue of a client, under names that modules with other parts do *)
(* not use.                                                                  *)
EXTENDS Naturals

CONSTANTS Events, Wanted, Capacity

VARIABLES lock, queue, pipe, putter, getter, res, returned

queueVars == <<lock, queue, pipe, putter, getter, res, returned>>

Q == INSTANCE EventQueue

\* Putters, consumers and nobody are told apart.
ASSUME QueueAssumption ==
    /\ Capacity \in Nat \ {0} /\ Wanted \subseteq Events
    /\ Events \cap (Q!Consumers \cup {Q!None}) = {}

\* Every event that was put is in one place, and the pipe holds a byte for each
\* queued one (BaseEventAPI.put and get).
EventsAgree == Q!EventsAgree
=============================================================================
