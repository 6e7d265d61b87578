------------------------------- MODULE Runtime -------------------------------
(***************************************************************************)
(* The start and the stop of a DEFw process (src/defw_sl.c,                *)
(* src/defw_python.c, src/defw_transport_ofi.c).                           *)
(*                                                                         *)
(* defw_start initialises Python, brings the fabric (OFI) transport up if  *)
(* it can, starts the listener and runs Python code; at the end            *)
(* defw_shutdown tells the listener to stop, tears the transport down and  *)
(* finalises Python.  Three threads meet here: main, and the listener and  *)
(* the fabric progress thread, which receive messages and call into        *)
(* Python.  Calls into Python need the global interpreter lock (GIL).      *)
(* main owns it from Py_Initialize on and lets go of it only while it runs *)
(* Python code.  Without DEFW_TRANSPORT=ofi the transport stays TCP, as it *)
(* does with a provider that is not found.                                 *)
(*                                                                         *)
(* Modes of a run: "cmd" (a script that ends), "exit" (a script that calls *)
(* exit()), "shell" (interactive shell or daemon), "pure" (started under   *)
(* the name python: Py_Main finalises).                                    *)
(***************************************************************************)
EXTENDS Naturals, Sequences

CONSTANTS
    Modes,      \* the modes a run may be in
    MaxMsgs     \* messages received

VARIABLES
    mode, safe,     \* the run's mode; safe_shutdown
    main,           \* where main is
    gil,            \* who owns the GIL: main, listener, progress or nobody
    interp,         \* the interpreter: up, down
    thread,         \* listener and progress thread
    stop,           \* g_bShutdown
    progress_run,   \* g_ofi.progress_run
    up,             \* g_ofi.up
    opened,         \* fabric objects that are open
    transport,      \* the active transport: tcp, ofi
    worker,         \* the Python worker thread: up, ended
    msgs            \* received so far

vars == <<mode, safe, main, gil, interp, thread, stop, progress_run, up,
          opened, transport, worker, msgs>>

Receiver == {"listener", "progress"}

\* fi_fabric .. fi_endpoint, in the order they are opened, and the order in
\* which ofi_fini closes them.
OpenOrder == <<"fabric", "domain", "av", "tx_cq", "rx_cq", "ep">>

CloseOrder == <<"ep", "tx_cq", "rx_cq", "av", "domain", "fabric">>

Objects == {OpenOrder[i] : i \in 1..Len(OpenOrder)}

\* The objects an object needs while it is open.
Needs == [o \in Objects |->
            IF o = "fabric" THEN {}
            ELSE IF o = "domain" THEN {"fabric"}
            ELSE IF o = "ep" THEN Objects \ {"ep"}
            ELSE {"fabric", "domain"}]

\* The process is there until it ends or the interpreter takes it down.
Running == main \notin {"done", "crashed"}

\* Python is initialised: python_init has run and main owns the GIL.
Init ==
    /\ mode \in Modes /\ safe \in BOOLEAN
    /\ main = "transport"
    /\ gil = "main" /\ interp = "up" /\ worker = "up"
    /\ thread = [t \in Receiver |-> "none"]
    /\ stop = FALSE /\ progress_run = FALSE /\ up = FALSE
    /\ opened = {} /\ transport = "tcp"
    /\ msgs = 0

-----------------------------------------------------------------------------
(* Start                                                                   *)

\* defw_transport_startup without DEFW_TRANSPORT=ofi, or with a provider
\* that fi_getinfo does not find.
StayTcp ==
    /\ main = "transport" /\ opened = {}
    /\ main' = "listener"
    /\ UNCHANGED <<mode, safe, gil, interp, thread, stop, progress_run, up,
                   opened, transport, worker, msgs>>

\* defw_transport_ofi_init: one object after another.
OpenObject ==
    /\ main = "transport"
    /\ \E i \in 1..Len(OpenOrder) :
          /\ opened = {OpenOrder[j] : j \in 1..(i - 1)}
          /\ opened' = opened \cup {OpenOrder[i]}
    /\ UNCHANGED <<mode, safe, main, gil, interp, thread, stop, progress_run,
                   up, transport, worker, msgs>>

\* goto err: ofi_fini, and TCP stays the transport.
OpenFails ==
    /\ main = "transport" /\ opened # {}
    /\ main' = "fini"
    /\ UNCHANGED <<mode, safe, gil, interp, thread, stop, progress_run, up,
                   opened, transport, worker, msgs>>

\* Receive buffers are posted, the progress thread starts, OFI is active.
OfiUp ==
    /\ main = "transport" /\ opened = Objects
    /\ up' = TRUE /\ progress_run' = TRUE
    /\ thread' = [thread EXCEPT !["progress"] = "loop"]
    /\ transport' = "ofi"
    /\ main' = "listener"
    /\ UNCHANGED <<mode, safe, gil, interp, stop, opened, worker, msgs>>

SpawnListener ==
    /\ main = "listener"
    /\ thread' = [thread EXCEPT !["listener"] = "loop"]
    /\ main' = "run"
    /\ UNCHANGED <<mode, safe, gil, interp, stop, progress_run, up, opened,
                   transport, worker, msgs>>

-----------------------------------------------------------------------------
(* The receiving threads                                                   *)

KeepsRunning(t) == IF t = "listener" THEN ~stop ELSE progress_run

\* The loop condition; then select, or fi_cq_sread, with a timeout.
Loop(t) ==
    /\ Running
    /\ thread[t] = "loop"
    /\ thread' = [thread EXCEPT ![t] =
                    IF KeepsRunning(t) THEN "wait" ELSE "ended"]
    /\ UNCHANGED <<mode, safe, main, gil, interp, stop, progress_run, up,
                   opened, transport, worker, msgs>>

\* A message is dispatched to its callback, the wait times out, or (the
\* progress thread) the completion queue fails and the thread ends.
Receive(t) ==
    /\ Running
    /\ thread[t] = "wait"
    /\ \/ /\ msgs < MaxMsgs
          /\ msgs' = msgs + 1
          /\ thread' = [thread EXCEPT ![t] = "dispatch"]
       \/ /\ thread' = [thread EXCEPT ![t] = "loop"]
          /\ UNCHANGED msgs
       \/ /\ t = "progress"
          /\ thread' = [thread EXCEPT ![t] = "ended"]
          /\ UNCHANGED msgs
    /\ UNCHANGED <<mode, safe, main, gil, interp, stop, progress_run, up,
                   opened, transport, worker>>

\* python_gil_ensure and the call of put_request, put_response, ...
EnterPython(t) ==
    /\ thread[t] = "dispatch" /\ interp = "up" /\ gil = "nobody"
    /\ gil' = t
    /\ thread' = [thread EXCEPT ![t] = "python"]
    /\ UNCHANGED <<mode, safe, main, interp, stop, progress_run, up, opened,
                   transport, worker, msgs>>

\* python_gil_release
LeavePython(t) ==
    /\ thread[t] = "python"
    /\ gil' = "nobody"
    /\ thread' = [thread EXCEPT ![t] = "loop"]
    /\ UNCHANGED <<mode, safe, main, interp, stop, progress_run, up, opened,
                   transport, worker, msgs>>

\* The interpreter is finalised: PyGILState_Ensure ends the thread that waits
\* for the lock, or the process.
EnterFinalized(t) ==
    /\ Running
    /\ thread[t] = "dispatch" /\ interp = "down"
    /\ thread' = [thread EXCEPT ![t] = "ended"]
    /\ main' \in {main, "crashed"}
    /\ UNCHANGED <<mode, safe, gil, interp, stop, progress_run, up, opened,
                   transport, worker, msgs>>

-----------------------------------------------------------------------------
(* The Python worker thread                                                *)

\* The worker takes EVENT_SHUTDOWN from its queue and ends.
WorkerEnds ==
    /\ main = "joinworker" /\ worker = "up" /\ gil = "nobody"
    /\ worker' = "ended"
    /\ UNCHANGED <<mode, safe, main, gil, interp, thread, stop, progress_run,
                   up, opened, transport, msgs>>

-----------------------------------------------------------------------------
(* main runs Python code and shuts down                                    *)

\* The interpreter switches threads while main runs Python code.
Yield ==
    /\ main = "run" /\ gil = "main"
    /\ gil' = "nobody"
    /\ UNCHANGED <<mode, safe, main, interp, thread, stop, progress_run, up,
                   opened, transport, worker, msgs>>

\* The Python code ends, and main has the GIL.
Ended ==
    /\ main = "run" /\ gil \in {"main", "nobody"}
    /\ gil' = "main"
    /\ main' = IF mode = "pure" THEN "finalize"
               ELSE IF mode = "exit" THEN "exit" ELSE "shutdown"
    /\ UNCHANGED <<mode, safe, interp, thread, stop, progress_run, up, opened,
                   transport, worker, msgs>>

\* defw_listener_shutdown, and defw_transport_shutdown: ofi_fini only if OFI
\* is the active transport.
MutShutdown ==
    /\ main = "shutdown"
    /\ main' = IF transport = "ofi" THEN "fini" ELSE "python"
    /\ UNCHANGED <<mode, safe, gil, interp, thread, stop, progress_run, up,
                   opened, transport, worker, msgs>>

MutNoTearDown ==
    /\ main = "shutdown"
    /\ stop' = TRUE
    /\ main' = "python"
    /\ UNCHANGED <<mode, safe, gil, interp, thread, progress_run, up, opened,
                   transport, worker, msgs>>

Shutdown ==
    /\ main = "shutdown"
    /\ stop' = TRUE
    /\ main' = IF transport = "ofi" THEN "fini" ELSE "python"
    /\ UNCHANGED <<mode, safe, gil, interp, thread, progress_run, up, opened,
                   transport, worker, msgs>>

\* ofi_fini: the progress thread is told to stop ...
StopProgress ==
    /\ main = "fini"
    /\ progress_run' = FALSE
    /\ main' = IF progress_run THEN "joinprogress" ELSE "close"
    /\ UNCHANGED <<mode, safe, gil, interp, thread, stop, up, opened,
                   transport, worker, msgs>>

\* ... joined, with the GIL in main's hands ...
JoinProgress ==
    /\ main = "joinprogress" /\ thread["progress"] = "ended"
    /\ main' = "close"
    /\ UNCHANGED <<mode, safe, gil, interp, thread, stop, progress_run, up,
                   opened, transport, worker, msgs>>

\* ... and the objects are closed one by one; at last g_ofi is cleared.
CloseObject ==
    /\ main = "close" /\ opened # {}
    /\ \E i \in 1..Len(CloseOrder) :
          /\ CloseOrder[i] \in opened
          /\ \A j \in 1..(i - 1) : CloseOrder[j] \notin opened
          /\ opened' = opened \ {CloseOrder[i]}
    /\ UNCHANGED <<mode, safe, main, gil, interp, thread, stop, progress_run,
                   up, transport, worker, msgs>>

Cleared ==
    /\ main = "close" /\ opened = {}
    /\ up' = FALSE
    /\ main' = IF transport = "ofi" THEN "python" ELSE "listener"
    /\ UNCHANGED <<mode, safe, gil, interp, thread, stop, progress_run,
                   opened, transport, worker, msgs>>

\* python_finalize: a command line run calls me.exit() first.
FinalizePython ==
    /\ main = "python"
    /\ main' = IF mode = "cmd" THEN "exit" ELSE "finalize"
    /\ UNCHANGED <<mode, safe, gil, interp, thread, stop, progress_run, up,
                   opened, transport, worker, msgs>>

\* me.exit: put_shutdown waits for the worker thread, without the GIL, and
\* SystemExit finalises the interpreter and ends the process.
ExitDefw ==
    /\ main = "exit"
    /\ gil' = "nobody"
    /\ main' = "joinworker"
    /\ UNCHANGED <<mode, safe, interp, thread, stop, progress_run, up, opened,
                   transport, worker, msgs>>

WorkerJoined ==
    /\ main = "joinworker" /\ worker = "ended" /\ gil = "nobody"
    /\ gil' = "main"
    /\ main' = "finalize"
    /\ UNCHANGED <<mode, safe, interp, thread, stop, progress_run, up, opened,
                   transport, worker, msgs>>

\* Py_Finalize
Finalize ==
    /\ main = "finalize"
    /\ interp' = "down"
    /\ gil' = "nobody"
    /\ main' = "finalized"
    /\ UNCHANGED <<mode, safe, thread, stop, progress_run, up, opened,
                   transport, worker, msgs>>

\* defw_start returns and the process ends: at once after SystemExit, after
\* defw_listener_shutdown in a pure Python run, else after the listener has
\* ended if the shutdown is to be safe.
Finish ==
    /\ main = "finalized"
    /\ (mode = "shell" /\ safe) => thread["listener"] = "ended"
    /\ stop' = (stop \/ mode = "pure")
    /\ main' = "done"
    /\ UNCHANGED <<mode, safe, gil, interp, thread, progress_run, up, opened,
                   transport, worker, msgs>>

MainStep ==
    \/ StayTcp \/ OpenObject \/ OpenFails \/ OfiUp \/ SpawnListener
    \/ Yield \/ Ended \/ Shutdown \/ StopProgress \/ JoinProgress
    \/ CloseObject \/ Cleared \/ FinalizePython \/ ExitDefw \/ WorkerJoined
    \/ Finalize \/ Finish

ThreadStep(t) ==
    \/ Loop(t) \/ Receive(t) \/ EnterPython(t) \/ LeavePython(t)
    \/ EnterFinalized(t)

Next ==
    \/ MainStep \/ WorkerEnds
    \/ \E t \in Receiver : ThreadStep(t)

\* Every thread is scheduled, the script ends, and the waits of the receiving
\* threads time out.
Fairness ==
    /\ WF_vars(MainStep)
    /\ WF_vars(WorkerEnds)
    /\ \A t \in Receiver : WF_vars(ThreadStep(t))

Spec == Init /\ [][Next]_vars /\ Fairness

-----------------------------------------------------------------------------
(* Properties                                                              *)

\* Where main, the receiving threads and the interpreter can be.
TypeOK ==
    /\ mode \in Modes /\ safe \in BOOLEAN
    /\ main \in {"transport", "listener", "run", "shutdown", "fini",
                 "joinprogress", "close", "python", "exit", "joinworker",
                 "finalize", "finalized", "done", "crashed"}
    /\ gil \in Receiver \cup {"main", "nobody"}
    /\ interp \in {"up", "down"} /\ worker \in {"up", "ended"}
    /\ thread \in [Receiver -> {"none", "loop", "wait", "dispatch", "python",
                                "ended"}]
    /\ stop \in BOOLEAN /\ progress_run \in BOOLEAN /\ up \in BOOLEAN
    /\ opened \subseteq Objects
    /\ transport \in {"tcp", "ofi"}
    /\ msgs \in 0..MaxMsgs

\* No fabric receive calls into a finalised interpreter: defw_shutdown stops
\* the progress thread before it finalises Python.  Runs that end inside
\* Python (exit() in the script, or a start under the name python) do not go
\* through defw_shutdown.  Nor does the progress thread wait on a completion
\* queue that is closed, and no fabric object is closed, by ofi_fini or after a
\* failed initialisation, while one that is built on it is open.
FabricFindsPython ==
    /\ (interp = "down" /\ mode \in {"cmd", "shell"}) =>
          thread["progress"] \notin {"dispatch", "python"}
    /\ thread["progress"] = "wait" => "rx_cq" \in opened
    /\ \A o \in opened : Needs[o] \subseteq opened

\* ofi_fini joins the progress thread with the GIL in main's hands; a progress
\* thread that has a message to dispatch waits for it.
JoinStuck == main = "joinprogress" /\ thread["progress"] = "dispatch"

\* A process that is shut down comes to its end: the one place where a thread
\* waits for another that waits for it is the join of the progress thread.
ShutdownEnds ==
    (main = "shutdown") ~> (~Running \/ JoinStuck)
=============================================================================
