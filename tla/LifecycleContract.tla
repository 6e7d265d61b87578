-------------------------- MODULE LifecycleContract -------------------------
(***************************************************************************)
(* What the rest of DEFw may assume about the events of one connection     *)
(* (the handlers in defw_peers, defw_directory and defw_workers do): it is *)
(* reported ready once, then lost once, then removed once, and nothing is  *)
(* reported of a connection that never was ready.                          *)
(***************************************************************************)
EXTENDS Naturals, Sequences

VARIABLE events    \* what was reported so far

Order == <<"READY", "LOST", "REMOVED">>

Init == events = <<>>

\* The next event, or the next ones in one step.
Next == \E n \in 1..3 : n > Len(events) /\ events' = SubSeq(Order, 1, n)

Spec == Init /\ [][Next]_events
=============================================================================
