------------------------------ MODULE Launcher ------------------------------
(***************************************************************************)
(* The launcher service (python/services/svc_launcher): processes started  *)
(* for callers, the thread that waits for each of them, and kill, status   *)
(* and shutdown calls, all on concurrent RPC threads around two tables     *)
(* under one lock.  The operating system gives a pid again once its        *)
(* process was reaped.                                                     *)
(***************************************************************************)
EXTENDS Naturals, FiniteSets, Functions

CONSTANTS Procs,       \* launch calls
          Waited,      \* those with wait=True
          Pids

VARIABLES
    os,          \* a process: not started, running, exited, reaped
    pid,         \* its pid
    call,        \* the launch call
    waiter,      \* its __wait_for_exit thread
    procDict,    \* pid -> process
    deadProcs,   \* pid -> process that ended by itself
    reported,    \* how often a process's status was given out
    killed,      \* processes removed by kill, terminate or shutdown
    down,        \* shutdown was called and has returned
    overtaken    \* processes whose entry went to a later one with their pid

dbVars == <<procDict, deadProcs, reported, killed, down, overtaken>>
vars == <<os, pid, call, waiter, dbVars>>

NoPid == 0

Init ==
    /\ os = [p \in Procs |-> "none"] /\ pid = [p \in Procs |-> NoPid]
    /\ call = [p \in Procs |-> "start"] /\ waiter = [p \in Procs |-> "none"]
    /\ procDict = [x \in {} |-> 0] /\ deadProcs = [x \in {} |-> 0]
    /\ reported = [p \in Procs |-> 0] /\ killed = {} /\ down = FALSE
    /\ overtaken = {}

\* No launch is in progress and none will be asked for.
Stopped ==
    /\ os = [p \in Procs |-> "none"] /\ pid = [p \in Procs |-> NoPid]
    /\ call = [p \in Procs |-> "raised"] /\ waiter = [p \in Procs |-> "none"]
    /\ procDict = [x \in {} |-> 0] /\ deadProcs = [x \in {} |-> 0]
    /\ reported = [p \in Procs |-> 0] /\ killed = {} /\ down = TRUE
    /\ overtaken = {}

\* Entries of a table are set and removed.
Assign(f, x, v) == [y \in DOMAIN f \cup {x} |-> IF y = x THEN v ELSE f[y]]
Drop(f, keys) == Restrict(f, DOMAIN f \ keys)

\* A pid the operating system may give.
Free(x) == \A p \in Procs : pid[p] = x => os[p] = "reaped"

\* The command runs on another host, without a process here; or it is empty
\* or cannot be started, and launch raises.
NoProcess(p) ==
    /\ call[p] = "start"
    /\ \E end \in {"returned", "raised"} : call' = [call EXCEPT ![p] = end]
    /\ UNCHANGED <<os, pid, waiter, dbVars>>

\* proc.launch()
Popen(p) ==
    /\ call[p] = "start"
    /\ \E x \in Pids : Free(x) /\ pid' = [pid EXCEPT ![p] = x]
    /\ os' = [os EXCEPT ![p] = "running"]
    /\ call' = [call EXCEPT ![p] = "started"]
    /\ UNCHANGED <<waiter, dbVars>>

\* The process goes into the table, under the lock.
Insert(p) ==
    /\ call[p] = "started"
    /\ procDict' = Assign(procDict, pid[p], p)
    /\ call' = [call EXCEPT ![p] = IF p \in Waited THEN "get_result"
                                    ELSE "thread"]
    /\ overtaken' = overtaken \cup
                      {procDict[x] : x \in DOMAIN procDict \cap {pid[p]}}
    /\ UNCHANGED <<os, pid, waiter, deadProcs, reported, killed, down>>

\* Mutant: the pid is returned before the waiter is started.
MutStartWaiter(p) ==
    /\ call[p] = "thread"
    /\ call' = [call EXCEPT ![p] = "returned"]
    /\ UNCHANGED <<os, pid, waiter, dbVars>>

StartWaiter(p) ==
    /\ call[p] = "thread"
    /\ waiter' = [waiter EXCEPT ![p] = "waiting"]
    /\ call' = [call EXCEPT ![p] = "returned"]
    /\ UNCHANGED <<os, pid, dbVars>>

\* The processes of some pids are killed and waited for, with the lock held.
KillPids(xs) ==
    LET victims == {procDict[x] : x \in xs \cap DOMAIN procDict} IN
    /\ os' = [p \in Procs |-> IF p \in victims THEN "reaped" ELSE os[p]]
    /\ procDict' = Drop(procDict, xs)
    /\ killed' = killed \cup victims
    /\ UNCHANGED <<pid, waiter, deadProcs, reported, overtaken>>

StartFails(p) ==
    /\ call[p] = "thread"
    /\ KillPids({pid[p]})
    /\ call' = [call EXCEPT ![p] = "raised"]
    /\ UNCHANGED down

\* The process ends by itself.
Exit(p) ==
    /\ os[p] = "running"
    /\ os' = [os EXCEPT ![p] = "exited"]
    /\ UNCHANGED <<pid, call, waiter, dbVars>>

\* communicate() returns, in the waiter or in launch(wait=True).
Reap(p) ==
    /\ os[p] \in {"exited", "reaped"}
    /\ os' = [os EXCEPT ![p] = "reaped"]
    /\ \/ /\ waiter[p] = "waiting"
          /\ waiter' = [waiter EXCEPT ![p] = "result"]
          /\ call' = call
       \/ /\ call[p] = "get_result"
          /\ call' = [call EXCEPT ![p] = "result"]
          /\ waiter' = waiter
    /\ UNCHANGED <<pid, dbVars>>

IsOurs(p) == pid[p] \in DOMAIN procDict /\ procDict[pid[p]] = p

\* Mutant: whatever process has the pid is moved.
MutRecord(p) ==
    /\ waiter[p] = "result"
    /\ waiter' = [waiter EXCEPT ![p] = "done"]
    /\ procDict' = Drop(procDict, {pid[p]})
    /\ deadProcs' = Assign(deadProcs, pid[p], p)
    /\ UNCHANGED <<os, pid, call, reported, killed, down, overtaken>>

\* The waiter moves its process to the dead ones, unless somebody removed it.
Record(p) ==
    /\ waiter[p] = "result"
    /\ waiter' = [waiter EXCEPT ![p] = "done"]
    /\ IF IsOurs(p)
       THEN /\ procDict' = Drop(procDict, {pid[p]})
            /\ deadProcs' = Assign(deadProcs, pid[p], p)
       ELSE UNCHANGED <<procDict, deadProcs>>
    /\ UNCHANGED <<os, pid, call, reported, killed, down, overtaken>>

\* launch(wait=True) removes its process and returns the result itself.
ReturnResult(p) ==
    /\ call[p] = "result"
    /\ call' = [call EXCEPT ![p] = "returned"]
    /\ procDict' = IF IsOurs(p) THEN Drop(procDict, {pid[p]}) ELSE procDict
    /\ reported' = [reported EXCEPT ![p] = @ + 1]
    /\ UNCHANGED <<os, pid, waiter, deadProcs, killed, down, overtaken>>

\* kill and terminate; both kill.
Kill(x) ==
    /\ x \in DOMAIN procDict
    /\ KillPids({x})
    /\ UNCHANGED <<call, down>>

\* status gives a result out once; otherwise it raises DEFwInProgress.
Status(x) ==
    /\ x \in DOMAIN deadProcs
    /\ reported' = [reported EXCEPT ![deadProcs[x]] = @ + 1]
    /\ deadProcs' = Drop(deadProcs, {x})
    /\ UNCHANGED <<os, pid, call, waiter, procDict, killed, down, overtaken>>

Shutdown ==
    /\ ~down
    /\ KillPids(DOMAIN procDict)
    /\ down' = TRUE
    /\ UNCHANGED call

Next ==
    \/ \E p \in Procs :
          \/ NoProcess(p) \/ Popen(p) \/ Insert(p) \/ StartWaiter(p)
          \/ StartFails(p) \/ Exit(p) \/ Reap(p) \/ Record(p) \/ ReturnResult(p)
    \/ \E x \in Pids : Kill(x) \/ Status(x)
    \/ Shutdown

Spec == Init /\ [][Next]_vars

\* Launch calls and waiter threads run to their end.
Fairness ==
    \A p \in Procs : /\ WF_vars(Insert(p))
                     /\ WF_vars(StartWaiter(p) \/ StartFails(p))
                     /\ WF_vars(Reap(p)) /\ WF_vars(Record(p))
                     /\ WF_vars(ReturnResult(p))

-----------------------------------------------------------------------------
(* Properties. *)

\* Shapes of the tables.
TypeOK ==
    /\ os \in [Procs -> {"none", "running", "exited", "reaped"}]
    /\ call \in [Procs -> {"start", "started", "thread", "get_result", "result",
                           "returned", "raised"}]
    /\ waiter \in [Procs -> {"none", "waiting", "result", "done"}]
    /\ DOMAIN procDict \subseteq Pids /\ DOMAIN deadProcs \subseteq Pids
    /\ Cardinality(DOMAIN procDict) = Cardinality(Range(procDict))
    /\ pid \in [Procs -> Pids \cup {NoPid}]
    /\ reported \in [Procs -> 0 .. 2]

\* Every process is accounted for, whoever had its pid before: while it runs
\* after its launch returned it is in the table under its pid, where kill and
\* shutdown find it ("shutdown() left a process running":
\* tests/launcher/test_launcher_contract.py); a result that is kept belongs to
\* a process that ended by itself, and it is given out at most once ("status
\* was reported twice", ibid.).
EveryoneAccounted ==
    \A p \in Procs :
        /\ (call[p] = "returned" /\ os[p] = "running") => IsOurs(p)
        /\ p \in Range(deadProcs) =>
              reported[p] = 0 /\ p \notin killed \cup Range(procDict)
        /\ reported[p] <= 1

\* The result of a process that ended by itself is kept for its caller or was
\* given out, unless it was killed or its pid was given to a new process, and
\* entered for it, before its waiter got the lock.
EndIsRecorded ==
    \A p \in Procs : (os[p] = "exited") ~>
        (p \in Range(deadProcs) \/ reported[p] = 1 \/ p \in killed
            \/ p \in overtaken)
=============================================================================
