----------------------------- MODULE MCServices -----------------------------
(* The processes DEFw starts, in one instance: an application with the     *)
(* services it spawns, or a launcher service with the processes it was     *)
(* asked for.                                                              *)
EXTENDS ServicesInstance, LauncherInstance

CONSTANTS p1, p2, p3     \* processes

\* One of the two has nothing to do: the application has ended, or every
\* launch has failed and the launcher was shut down.
ProcessesInit ==
    \/ S!Init /\ L!Stopped
    \/ S!Stopped /\ L!Init

ProcessesNext ==
    \/ S!Next /\ UNCHANGED launcherVars
    \/ L!Next /\ UNCHANGED serviceVars

ProcessesSpec ==
    /\ ProcessesInit /\ [][ProcessesNext]_<<serviceVars, launcherVars>>
    /\ S!Fairness /\ L!Fairness
=============================================================================
