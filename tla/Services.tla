------------------------------ MODULE Services ------------------------------
(***************************************************************************)
(* Service processes a DEFw application starts and stops                   *)
(* (python/infra/defw_app_util.py).                                        *)
(*                                                                         *)
(* defw_spawn_services starts one daemon per specification.  The process   *)
(* it starts (the launcher) forks the daemon and exits; the daemon writes  *)
(* its pid to a file, which is all the parent learns of it, and connects   *)
(* back.  The parent reads the pid, waits for the connection, registers    *)
(* the service with the directory and keeps a handle in _SPAWNED_SERVICES. *)
(* Handles are shut down by the application or by the atexit hook.         *)
(*                                                                         *)
(* The parent's code runs in one thread (pc); daemons run beside it.       *)
(***************************************************************************)
EXTENDS Naturals

CONSTANTS
    N,          \* services the application asks for
    MaxCalls    \* shutdown calls the application makes before it exits

VARIABLES
    pc,         \* where the parent is
    cur,        \* the specification being spawned
    todo,       \* handles still to be shut down by the running call
    after,      \* where the parent goes when todo is empty
    launcher,   \* the process started for a service: none, up, gone
    daemon,     \* the daemon: none, up, killed (SIGKILL sent), dead
    file,       \* the pid file: none, empty, pid
    peer,       \* services that are callable in the parent's peer table
    pid,        \* services whose handle has pid > 0
    records,    \* services whose handle has directory records
    listed,     \* services the directory lists
    tracked,    \* _SPAWNED_SERVICES
    returned,   \* the list defw_spawn_services returned
    calls,      \* shutdown calls made so far
    late        \* services given up before their pid was in the file

vars == <<pc, cur, todo, after, launcher, daemon, file, peer, pid, records,
          listed, tracked, returned, calls, late>>

Service == 1..N
Gone == {"killed", "dead"}

parentVars == <<pc, cur, todo, after, pid, records, tracked, returned, calls,
                late>>
daemonVars == <<launcher, daemon, file, peer, listed>>

Init ==
    /\ pc = "spawn" /\ cur = 1
    /\ todo = {} /\ after = "app"
    /\ launcher = [s \in Service |-> "none"]
    /\ daemon = [s \in Service |-> "none"]
    /\ file = [s \in Service |-> "none"]
    /\ peer = {} /\ pid = {} /\ records = {} /\ listed = {}
    /\ tracked = {} /\ returned = {}
    /\ calls = 0 /\ late = {}

\* An application that has ended without a service.
Stopped ==
    /\ pc = "done" /\ cur = 1
    /\ todo = {} /\ after = "done"
    /\ launcher = [s \in Service |-> "none"]
    /\ daemon = [s \in Service |-> "none"]
    /\ file = [s \in Service |-> "none"]
    /\ peer = {} /\ pid = {} /\ records = {} /\ listed = {}
    /\ tracked = {} /\ returned = {}
    /\ calls = 0 /\ late = {}

-----------------------------------------------------------------------------
(* The daemon's own steps.                                                 *)

\* The launcher forks the daemon and exits (defw_start).
Fork(s) ==
    /\ launcher[s] = "up"
    /\ launcher' = [launcher EXCEPT ![s] = "gone"]
    /\ daemon' = [daemon EXCEPT ![s] = "up"]
    /\ UNCHANGED <<file, peer, listed, parentVars>>

\* The daemon dies before its work is done.
Crash(s) ==
    /\ daemon[s] = "up"
    /\ daemon' = [daemon EXCEPT ![s] = "dead"]
    /\ peer' = peer \ {s}
    /\ UNCHANGED <<launcher, file, listed, parentVars>>

\* open(pid_path, 'w'): the file exists and is empty until it is closed.
OpenPid(s) ==
    /\ daemon[s] = "up" /\ file[s] = "none"
    /\ file' = [file EXCEPT ![s] = "empty"]
    /\ UNCHANGED <<launcher, daemon, peer, listed, parentVars>>

WritePid(s) ==
    /\ daemon[s] = "up" /\ file[s] = "empty"
    /\ file' = [file EXCEPT ![s] = "pid"]
    /\ UNCHANGED <<launcher, daemon, peer, listed, parentVars>>

\* The daemon connects to its parent, after it has written its pid.
Connect(s) ==
    /\ daemon[s] = "up" /\ file[s] = "pid" /\ s \notin peer
    /\ peer' = peer \cup {s}
    /\ UNCHANGED <<launcher, daemon, file, listed, parentVars>>

\* SIGKILL takes effect some time after os.kill returned.
Die(s) ==
    /\ daemon[s] = "killed"
    /\ daemon' = [daemon EXCEPT ![s] = "dead"]
    /\ peer' = peer \ {s}
    /\ UNCHANGED <<launcher, file, listed, parentVars>>

DaemonStep ==
    \E s \in Service : \/ Fork(s) \/ Crash(s) \/ OpenPid(s) \/ WritePid(s)
                       \/ Connect(s) \/ Die(s)

-----------------------------------------------------------------------------
(* defw_spawn_services                                                     *)

\* The shutdown of some handles, and where to go afterwards.
Stop(handles, next) ==
    /\ todo' = handles
    /\ after' = next
    /\ pc' = IF handles = {} THEN next ELSE "dereg"

Popen ==
    /\ pc = "spawn" /\ cur \in Service
    /\ launcher' = [launcher EXCEPT ![cur] = "up"]
    /\ pc' = "pid"
    /\ UNCHANGED <<cur, todo, after, daemon, file, peer, pid, records, listed,
                   tracked, returned, calls, late>>

\* _wait_for_daemon_pid returns the pid.
ReadPid ==
    /\ pc = "pid" /\ file[cur] = "pid"
    /\ pc' = "launched"
    /\ UNCHANGED <<cur, todo, after, pid, records, tracked, returned, calls,
                   late, daemonVars>>

\* It raises: the file is empty (int('') is an error), or there is none in
\* time, because the daemon failed or because it is slow.
NoPid ==
    /\ pc = "pid" /\ file[cur] \in {"none", "empty"}
    /\ late' = IF daemon[cur] = "dead" THEN late ELSE late \cup {cur}
    /\ pc' = "early"
    /\ UNCHANGED <<cur, todo, after, pid, records, tracked, returned, calls,
                   daemonVars>>

\* The except branch waits for the launcher and raises "exited early".
ExitedEarly ==
    /\ pc = "early" /\ launcher[cur] = "gone"
    /\ pc' = "app"
    /\ UNCHANGED <<cur, todo, after, pid, records, tracked, returned, calls,
                   late, daemonVars>>

\* process.wait for the launcher; then the handle is built.
Launched ==
    /\ pc = "launched" /\ launcher[cur] = "gone"
    /\ pid' = pid \cup {cur}
    /\ pc' = "connect"
    /\ UNCHANGED <<cur, todo, after, records, tracked, returned, calls,
                   late, daemonVars>>

\* _wait_for_service_endpoint finds the callable peer.
Connected ==
    /\ pc = "connect" /\ cur \in peer
    /\ pc' = "register"
    /\ UNCHANGED <<cur, todo, after, pid, records, tracked, returned, calls,
                   late, daemonVars>>

\* The handle is shut down when the service cannot be registered, and the
\* exception goes to the application.
MutUndo ==
    pc' = "app" /\ UNCHANGED <<todo, after>>

Undo == Stop({cur}, "app")

ConnectTimeout ==
    /\ pc = "connect" /\ cur \notin peer
    /\ Undo
    /\ UNCHANGED <<cur, pid, records, tracked, returned, calls,
                   late, daemonVars>>

\* register_service answers; the handle is kept.
Register ==
    /\ pc = "register" /\ daemon[cur] = "up"
    /\ listed' = listed \cup {cur}
    /\ records' = records \cup {cur}
    /\ tracked' = tracked \cup {cur}
    /\ cur' = cur + 1
    /\ pc' = "spawn"
    /\ UNCHANGED <<todo, after, launcher, daemon, file, peer, pid, returned,
                   calls, late>>

\* The directory service is not found, or the RPC fails; the directory may
\* have taken the registration although its answer is lost.
RegisterFails ==
    /\ pc = "register"
    /\ \/ listed' = listed
       \/ daemon[cur] = "up" /\ listed' = listed \cup {cur}
    /\ Undo
    /\ UNCHANGED <<cur, launcher, daemon, file, peer, pid, records, tracked,
                   returned, calls, late>>

Return ==
    /\ pc = "spawn" /\ cur \notin Service
    /\ returned' = Service
    /\ pc' = "app"
    /\ UNCHANGED <<cur, todo, after, pid, records, tracked, calls,
                   late, daemonVars>>

-----------------------------------------------------------------------------
(* DEFwServiceProcess.shutdown                                             *)

\* The handle a call shuts down now: the last one of those it has left, which
\* are in the order in which they were spawned.
Target == {s \in todo : \A x \in todo : x <= s}

\* deregister: a failure is logged, and the records are forgotten.
Deregister ==
    /\ pc = "dereg"
    /\ \E s \in Target :
          /\ records' = records \ {s}
          /\ \/ listed' = IF s \in records THEN listed \ {s} ELSE listed
             \/ s \in records /\ UNCHANGED listed
    /\ pc' = "term"
    /\ UNCHANGED <<cur, todo, after, launcher, daemon, file, peer, pid,
                   tracked, returned, calls, late>>

\* SIGTERM: the daemon ends at once, or later, or never; a process that is
\* not there any more clears the handle's pid.
Terminate ==
    /\ pc = "term"
    /\ \E s \in Target :
          IF s \in pid /\ daemon[s] # "dead"
          THEN /\ \/ daemon' = [daemon EXCEPT ![s] = "dead"] /\ peer' = peer \ {s}
                  \/ UNCHANGED <<daemon, peer>>
               /\ UNCHANGED pid
          ELSE pid' = pid \ {s} /\ UNCHANGED <<daemon, peer>>
    /\ pc' = "poll"
    /\ UNCHANGED <<cur, todo, after, launcher, file, records, listed, tracked,
                   returned, calls, late>>

\* os.kill(pid, 0) finds the process gone.
Noticed ==
    /\ pc = "poll"
    /\ \E s \in Target :
          (s \in pid => daemon[s] = "dead") /\ pid' = pid \ {s}
    /\ pc' = "reap"
    /\ UNCHANGED <<cur, todo, after, records, tracked, returned, calls,
                   late, daemonVars>>

\* The timeout passes: SIGKILL, and the pid is cleared.
MutKill ==
    /\ pc = "poll"
    /\ \E s \in Target \cap pid : daemon[s] = "dead" /\ pid' = pid \ {s}
    /\ pc' = "reap"
    /\ UNCHANGED <<cur, todo, after, records, tracked, returned, calls,
                   late, daemonVars>>

Kill ==
    /\ pc = "poll"
    /\ \E s \in Target \cap pid :
          /\ daemon' = [daemon EXCEPT ![s] = IF @ = "dead" THEN @ ELSE "killed"]
          /\ pid' = pid \ {s}
    /\ pc' = "reap"
    /\ UNCHANGED <<cur, todo, after, launcher, file, peer, records, listed,
                   tracked, returned, calls, late>>

\* The launcher has exited; the handle leaves _SPAWNED_SERVICES (the handle
\* of a failed spawn was never in it) and the next one is shut down.
Reap ==
    /\ pc = "reap"
    /\ \E s \in Target :
          /\ launcher[s] = "gone"
          /\ tracked' = tracked \ {s} /\ todo' = todo \ {s}
    /\ pc' = IF todo' = {} THEN after ELSE "dereg"
    /\ UNCHANGED <<cur, after, pid, records, returned, calls,
                   late, daemonVars>>

-----------------------------------------------------------------------------
(* defw_shutdown_services and the atexit hook                              *)

\* The application passes some of the handles it got, or asks for all of them.
AppShutdown ==
    /\ pc = "app" /\ calls < MaxCalls
    /\ calls' = calls + 1
    /\ \E handles \in (SUBSET returned) \cup {tracked} : Stop(handles, "app")
    /\ UNCHANGED <<cur, pid, records, tracked, returned, daemonVars, late>>

Exit ==
    /\ pc = "app"
    /\ Stop(tracked, "done")
    /\ UNCHANGED <<cur, pid, records, tracked, returned, calls,
                   late, daemonVars>>

ParentStep ==
    \/ Popen \/ ReadPid \/ NoPid \/ ExitedEarly \/ Launched \/ Connected
    \/ ConnectTimeout \/ Register \/ RegisterFails \/ Return
    \/ Deregister \/ Terminate \/ Noticed \/ Kill \/ Reap
    \/ AppShutdown \/ Exit

Next == DaemonStep \/ ParentStep

\* The parent's loops all have timeouts, the launcher forks and exits, a
\* daemon writes its file and connects, and the kernel delivers SIGKILL.
Fairness ==
    /\ WF_vars(ParentStep)
    /\ \A s \in Service : WF_vars(Fork(s) \/ OpenPid(s) \/ WritePid(s)
                                  \/ Connect(s) \/ Die(s))

Spec == Init /\ [][Next]_vars /\ Fairness

-----------------------------------------------------------------------------
(* Properties                                                              *)

\* Where the parent can be, and what it can know of each service.
TypeOK ==
    /\ pc \in {"spawn", "pid", "early", "launched", "connect", "register",
               "dereg", "term", "poll", "reap", "app", "done"}
    /\ cur \in 1..(N + 1)
    /\ todo \subseteq Service /\ tracked \subseteq Service
    /\ after \in {"app", "done"}
    /\ launcher \in [Service -> {"none", "up", "gone"}]
    /\ daemon \in [Service -> {"none", "up", "killed", "dead"}]
    /\ file \in [Service -> {"none", "empty", "pid"}]
    /\ peer \subseteq Service /\ pid \subseteq Service
    /\ records \subseteq Service /\ listed \subseteq Service
    /\ returned \subseteq Service
    /\ calls \in 0..MaxCalls
    /\ late \subseteq Service

\* Spawning, shutting down, and the exit of the parent.
Spawning == pc \in {"pid", "early", "launched", "connect", "register"}

\* A daemon that runs has somebody who will stop it: the spawn in progress,
\* a shutdown in progress, or _SPAWNED_SERVICES for the atexit hook.  No
\* failure between two steps of defw_spawn_services, and no shutdown of some
\* of the handles, leaves one behind, unless its pid was late in the file.
RunningIsOwned ==
    \A s \in Service \ late : daemon[s] = "up" =>
        \/ Spawning /\ s = cur
        \/ s \in todo
        \/ s \in tracked

\* Spawning returns or raises, every shutdown ends although the daemon may
\* ignore SIGTERM, and the parent's exit leaves no daemon running that it
\* knows of.
ExitStopsAll ==
    <>[](pc = "done" /\ \A s \in Service : daemon[s] \in {"none", "dead"}
                                            \/ s \in late)
=============================================================================
