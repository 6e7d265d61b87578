------------------------------ MODULE MCRuntime ------------------------------
(* A process in all run modes, for TLC. *)
EXTENDS Naturals

CONSTANTS Modes, MaxMsgs

ASSUME RuntimeAssumption ==
    /\ Modes \subseteq {"cmd", "exit", "shell", "pure"}
    /\ MaxMsgs \in Nat

VARIABLES mode, safe, main, gil, interp, thread, stop, progress_run, ofi_up,
          fabricOpen, transport, worker, msgs

R == INSTANCE Runtime WITH up <- ofi_up, opened <- fabricOpen

RuntimeSpec == R!Spec

\* No fabric receive calls into a finalised interpreter (defw_shutdown), and no
\* fabric object is closed under one that is built on it (ofi_fini).
FabricFindsPython == R!FabricFindsPython
\* A process that is shut down comes to its end, but for one join.
ShutdownEnds == R!ShutdownEnds
=============================================================================
