----------------------------- MODULE SelectLoop -----------------------------
(***************************************************************************)
(* What the listener waits for (defw_listener_main): the descriptor set    *)
(* g_tAllSet and the bound g_iMaxSelectFd it gives to select().  Connect   *)
(* threads add the channels they opened, and any thread that finds a       *)
(* connection dead closes its channels.  A connection has one channel      *)
(* here; descriptors are small numbers and the system hands out the lowest *)
(* that is free.                                                           *)
(***************************************************************************)
EXTENDS Integers, FiniteSets, FiniteSetsExt

CONSTANTS Fds,         \* the descriptors the process can have
          ListenFd,    \* g_iListenFd
          MaxClients   \* clients that connect

VARIABLES
    table,      \* descriptors of the connections in the table
    adding,     \* those a connect thread has not put into the set yet
    allSet,     \* g_tAllSet
    maxFd,      \* g_iMaxSelectFd
    snap,       \* tReadSet, the listener's copy
    loop,       \* where the listener is
    word,       \* what the listener's FD_SET has read of g_tAllSet
    backlog,    \* clients in the backlog of the listening socket
    clients,    \* clients that connected
    ended,      \* channels whose peer is gone
    raced,      \* the set was changed inside the listener's FD_SET, or a
                \* descriptor was closed that the listener waits for
    signalled   \* select() was interrupted

sets == <<allSet, maxFd>>
vars == <<table, adding, sets, snap, loop, word, backlog, clients, ended, raced,
          signalled>>

Init ==
    /\ table = {} /\ adding = {} /\ allSet = {ListenFd} /\ maxFd = ListenFd
    /\ snap = {} /\ loop = "top" /\ word = {} /\ backlog = 0 /\ clients = 0
    /\ ended = {} /\ raced = FALSE /\ signalled = FALSE

Free == Fds \ (table \cup {ListenFd})

\* defw_agent_get_highest_fd: of the agents only
AgentHighest(t) == Max({-1} \cup t)

\* defw_get_highest_fd
Highest(t) == Max({ListenFd} \cup t)

ClientConnects ==
    /\ clients < MaxClients
    /\ clients' = clients + 1 /\ backlog' = backlog + 1
    /\ UNCHANGED <<table, adding, sets, snap, loop, word, ended, raced, signalled>>

PeerEnds(f) ==
    /\ f \in table \ ended
    /\ ended' = ended \cup {f}
    /\ UNCHANGED <<table, adding, sets, snap, loop, word, backlog, clients, raced,
                   signalled>>

\* close_agent_channel_unlocked; the block has left the table by then.
CloseChannel(f) ==
    /\ table' = table \ {f} /\ ended' = ended \ {f}
    /\ allSet' = allSet \ {f}
    /\ maxFd' = AgentHighest(table \ {f})

-----------------------------------------------------------------------------
(* The listener. *)

CopySet ==
    /\ loop = "top"
    /\ snap' = allSet /\ loop' = "select"
    /\ UNCHANGED <<table, adding, sets, word, backlog, clients, ended, raced,
                   signalled>>

Watched == {f \in snap : f <= maxFd}
GoodDescriptors == Watched \subseteq table \cup {ListenFd}

\* select() fails: with EBADF the listener shuts down, after a signal it goes
\* on; the set is zeroed in both cases.
SelectFails ==
    /\ loop = "select"
    /\ \/ ~GoodDescriptors /\ loop' = "shutdown" /\ UNCHANGED signalled
       \/ ~signalled /\ loop' = "top" /\ signalled' = TRUE
    /\ allSet' = {}
    /\ UNCHANGED <<table, adding, maxFd, snap, word, backlog, clients, ended, raced>>

\* A client is accepted into a block; FD_SET reads the set ...
Accept ==
    /\ loop = "select" /\ GoodDescriptors
    /\ ListenFd \in Watched /\ backlog > 0 /\ Free # {}
    /\ table' = table \cup {Min(Free)}
    /\ word' = allSet \cup {Min(Free)}
    /\ backlog' = backlog - 1
    /\ snap' = Watched \cap ended /\ loop' = "set"
    /\ UNCHANGED <<adding, sets, clients, ended, raced, signalled>>

\* Mutant: the bound is left as it was.
MutAcceptSet ==
    /\ loop = "set"
    /\ allSet' = word /\ loop' = "read" /\ word' = {}
    /\ UNCHANGED <<table, adding, maxFd, snap, backlog, clients, ended, raced,
                   signalled>>

\* ... and writes it back, without the mutex.
AcceptSet ==
    /\ loop = "set"
    /\ allSet' = word /\ maxFd' = Highest(table)
    /\ loop' = "read" /\ word' = {}
    /\ UNCHANGED <<table, adding, snap, backlog, clients, ended, raced, signalled>>

\* Nobody to accept, or no descriptor for it.
NoAccept ==
    /\ loop = "select" /\ GoodDescriptors
    /\ ListenFd \notin Watched \/ backlog = 0 \/ Free = {}
    /\ loop' = "read" /\ snap' = Watched \cap ended
    /\ UNCHANGED <<table, adding, sets, word, backlog, clients, ended, raced,
                   signalled>>

\* process_connection_agents finds the end of a connection; it may have been
\* closed since, and the descriptor may be another connection's.
ReadEnd(f) ==
    /\ loop = "read" /\ f \in snap
    /\ snap' = snap \ {f}
    /\ IF f \in ended THEN CloseChannel(f)
       ELSE UNCHANGED <<table, sets, ended>>
    /\ UNCHANGED <<adding, loop, word, backlog, clients, raced, signalled>>

LoopEnds ==
    /\ loop = "read" /\ snap = {}
    /\ loop' = "top"
    /\ UNCHANGED <<table, adding, sets, snap, word, backlog, clients, ended, raced,
                   signalled>>

-----------------------------------------------------------------------------
(* Other threads. *)

\* defw_connect_to_agent_thread enters the block into the table ...
ThreadInserts ==
    /\ adding = {} /\ Free # {}
    /\ table' = table \cup {Min(Free)} /\ adding' = {Min(Free)}
    /\ UNCHANGED <<sets, snap, loop, word, backlog, clients, ended, raced, signalled>>

\* ... and then its descriptors into the set.
ThreadSets ==
    /\ adding # {}
    /\ allSet' = allSet \cup adding /\ maxFd' = Highest(table) /\ adding' = {}
    /\ raced' = (raced \/ loop = "set")
    /\ UNCHANGED <<table, snap, loop, word, backlog, clients, ended, signalled>>

\* defw_send, when a send finds the connection dead.
SenderCloses(f) ==
    /\ f \in table \ adding
    /\ CloseChannel(f)
    /\ raced' = (raced \/ loop = "set" \/ f \in snap)
    /\ UNCHANGED <<adding, snap, loop, word, backlog, clients, signalled>>

Next ==
    \/ ClientConnects \/ CopySet \/ SelectFails \/ Accept \/ AcceptSet \/ NoAccept
    \/ LoopEnds \/ ThreadInserts \/ ThreadSets
    \/ \E f \in Fds : PeerEnds(f) \/ ReadEnd(f) \/ SenderCloses(f)

Spec == Init /\ [][Next]_vars

-----------------------------------------------------------------------------
(* Properties. *)

\* The main loop "Listens for incoming agent connections, and for agent
\* messages" (comment of defw_listener_main): the channel of every connection
\* is in the set and below the bound of select(), and so is the listening
\* socket while some connection has a higher descriptor, whatever was closed
\* and opened before and by whom; and select() does not fail.  It holds until a
\* signal zeroes the set, a thread changes the set inside an FD_SET of the
\* listener, or a thread closes a descriptor the listener waits for.
HearsEverything ==
    ~signalled /\ ~raced /\ loop # "set" =>
       /\ loop # "shutdown"
       /\ \A f \in table \ adding : f \in allSet /\ f <= maxFd
       /\ ListenFd \in allSet
       /\ (\E f \in table \ adding : f > ListenFd) => ListenFd <= maxFd
       /\ allSet \subseteq table \cup {ListenFd}
=============================================================================
