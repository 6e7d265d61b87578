-------------------------- MODULE ServicesInstance --------------------------
(* An application and the services it spawns, under names that modules with  *)
(* other parts do not use.                                                   *)
EXTENDS Naturals

CONSTANTS N, MaxCalls

ASSUME ServicesAssumption == N \in Nat \ {0} /\ MaxCalls \in Nat

VARIABLES pc, cur, todo, after, launcher, daemon, file, peer, pid, records, listed,
          tracked, handles, calls, late

serviceVars == <<pc, cur, todo, after, launcher, daemon, file, peer, pid, records,
                 listed, tracked, handles, calls, late>>

S == INSTANCE Services WITH returned <- handles

\* A daemon that runs has somebody who will stop it (defw_spawn_services,
\* defw_shutdown_services).
RunningIsOwned == S!RunningIsOwned
\* Spawns and shutdowns end, and the exit of the parent stops what it knows of.
ExitStopsAll == S!ExitStopsAll
=============================================================================
