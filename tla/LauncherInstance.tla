-------------------------- MODULE LauncherInstance --------------------------
(* A launcher service, under names that modules with other parts do not use. *)
EXTENDS Naturals

CONSTANTS Procs, Waited, Pids

ASSUME LauncherAssumption == Waited \subseteq Procs

VARIABLES os, procPid, call, waiter, procDict, deadProcs, reported, killed, down,
          overtaken

launcherVars == <<os, procPid, call, waiter, procDict, deadProcs, reported,
                  killed, down, overtaken>>

L == INSTANCE Launcher WITH pid <- procPid

\* A launched process is in the launcher's table while it runs, and its result
\* is given out at most once.
EveryoneAccounted == L!EveryoneAccounted
\* The result of a process that ended by itself is kept or was given out.
EndIsRecorded == L!EndIsRecorded
=============================================================================
