-------------------------- MODULE RequestsInstance --------------------------
(* The requests of a process, under names that modules with other parts do   *)
(* not use.                                                                  *)
EXTENDS Naturals

CONSTANTS SendReqs, ConnReqs, Conns, Targets

ASSUME RequestsAssumption ==
    /\ SendReqs \cap ConnReqs = {}
    /\ Targets \in [SendReqs -> (SUBSET Conns) \ {{}}]

VARIABLES phase, outcome, late, req_db, inbox, workq, running, up, link, call,
          executed

W == INSTANCE Requests WITH Handles <- Conns

RequestsSpec == W!ThreadSpec

\* A thread whose connections are all lost is told, or is going to be (send_req,
\* WorkerThread.fail_pending_peer_requests).
LossReleasesWaiter == W!LossReleasesWaiter
\* send_req gives its caller what RpcContract promises.
ImplementsContract == W!ImplementsContract
\* A call ends: with its response, its deadline or the shutdown (wait).
WaitEnds == W!WaitEnds
=============================================================================
