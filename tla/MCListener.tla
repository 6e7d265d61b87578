----------------------------- MODULE MCListener -----------------------------
(* The listener thread, in one instance: peers that connect to it, its own *)
(* connection to the directory, the descriptors it waits for, or its       *)
(* timers.                                                                 *)
EXTENDS Handshake

CONSTANTS p1, p2, r1, r2,
          Fds, ListenFd, MaxClients, Procs,
          Peers, HbTo, Stale, Deadline, MaxIter, Cap

ASSUME TimersAssumption ==
    /\ {HbTo, Stale, Deadline, MaxIter, Cap} \subseteq Nat \ {0}
    /\ Cap >= Stale + MaxIter

\* Descriptors are small numbers, and there is a highest (FD_SETSIZE).
ASSUME DescriptorsAssumption ==
    /\ Fds \subseteq Nat /\ ListenFd \in Fds
    /\ \E n \in Fds : \A f \in Fds : f <= n

MCTwoPeers == [p \in {p1, p2} |-> IF p = p1 THEN r1 ELSE r2]

VARIABLES table, adding, allSet, maxFd, snap, loop, word, backlog, clients,
          ended, raced, signalled
VARIABLES up, connected, inProgress, listener, thread, intact, dirConn, misled
VARIABLES first, peerConn, age, silent, alive, tx, dur

setVars == <<table, adding, allSet, maxFd, snap, loop, word, backlog, clients,
             ended, raced, signalled>>
dirVars == <<up, connected, inProgress, listener, thread, intact, dirConn, misled>>
timerVars == <<first, peerConn, age, silent, alive, tx, dur>>

S == INSTANCE SelectLoop
D == INSTANCE DirsvcConnect WITH conn <- dirConn
H == INSTANCE Heartbeats WITH conn <- peerConn

VARIABLE part     \* what a behaviour is about

MCInit ==
    /\ S!Init /\ H!Init
    /\ \/ part = "handshake" /\ Init /\ D!Stopped
       \/ part = "directory" /\ Gone /\ D!Init
       \/ part \in {"set", "timers"} /\ Gone /\ D!Stopped

MCNext ==
    /\ UNCHANGED part
    /\ \/ /\ part = "handshake" /\ Next
          /\ UNCHANGED <<setVars, dirVars, timerVars>>
       \/ /\ part = "directory" /\ D!Next
          /\ UNCHANGED <<vars, setVars, timerVars>>
       \/ /\ part = "set" /\ S!Next
          /\ UNCHANGED <<vars, dirVars, timerVars>>
       \/ /\ part = "timers" /\ H!Next
          /\ UNCHANGED <<vars, setVars, dirVars>>

MCSpec ==
    /\ MCInit
    /\ [][MCNext]_<<vars, setVars, dirVars, timerVars, part>>
    /\ Fairness /\ D!Fairness

\* See SelectLoop.
HearsEverything == S!HearsEverything
\* See DirsvcConnect.
Reconnects == D!Reconnects
\* See Heartbeats.
TimersAreRight == H!TimersAreRight
=============================================================================
