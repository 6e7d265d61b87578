----------------------------- MODULE Heartbeats -----------------------------
(***************************************************************************)
(* The timers of defw_listener_main.  An iteration of the loop waits in    *)
(* select() for at most HB_TO seconds, handles what arrived, and then      *)
(* looks at the time: agent_hb_check drops peers that were silent for      *)
(* HB_TO * 100 seconds and handshakes past their deadline, and             *)
(* send_hb_to_agents sends heartbeats.  Both compare time_2, taken now,    *)
(* with time_1, and time_1 is set to time_2 at the end of every iteration. *)
(*                                                                         *)
(* Time is kept as ages: how many seconds ago something happened, counted  *)
(* up to Cap.  time_2 - time_1 is the duration of the iteration, and       *)
(* time_1 - t is the age of t when the iteration began.                    *)
(***************************************************************************)
EXTENDS Integers, FiniteSets, FiniteSetsExt

CONSTANTS Peers,
          HbTo,       \* HB_TO
          Stale,      \* HB_TO * 100
          Deadline,   \* TCP_READ_TIMEOUT_SEC
          MaxIter,    \* the longest iteration, in seconds
          Cap         \* the largest age that is told apart

VARIABLES
    first,     \* time_1 has not been assigned yet
    conn,      \* the connection of a peer
    age,       \* of last_heartbeat_rx, or of a NEW block
    silent,    \* ghost: how long nothing came from the peer
    alive,     \* the peer runs
    tx,        \* ghost: peers that got a heartbeat in the last iteration
    dur        \* ghost: the duration of the last iteration

vars == <<first, conn, age, silent, alive, tx, dur>>

\* Ages above Cap are not told apart.
Capped(n) == Min({n, Cap})

Init ==
    /\ first = TRUE
    /\ conn = [p \in Peers |-> "none"]
    /\ age = [p \in Peers |-> 0] /\ silent = [p \in Peers |-> 0]
    /\ alive = [p \in Peers |-> TRUE]
    /\ tx = {} /\ dur = 0

\* A host goes down or a link is cut, and nothing more is heard of the peer.
PeerFails(p) ==
    /\ alive[p] /\ conn[p] # "none"
    /\ alive' = [alive EXCEPT ![p] = FALSE]
    /\ UNCHANGED <<first, conn, age, silent, tx, dur>>

\* time_1, in seconds before now; not assigned in the first iteration
Time1(d) == IF first THEN -Cap .. Cap ELSE {d}

\* Mutant: the age is taken now and not when the iteration began.
MutExpired(c, t1, a) ==
    CASE c = "new"   -> a >= Deadline
      [] c = "ready" -> a >= Stale
      [] OTHER       -> FALSE

\* agent_liveness_check_helper(agent, &time_1)
Expired(c, t1, a) ==
    CASE c = "new"   -> a - t1 >= Deadline
      [] c = "ready" -> a - t1 >= Stale
      [] OTHER       -> FALSE

\* agent_hb_check runs when the iteration was this long.
CheckRuns(t1) == t1 >= Stale

HeartbeatsDue(t1, accepted) == t1 >= HbTo \/ accepted # {}

\* One iteration of d seconds.  The peers in "heard" sent a heartbeat, of those
\* in "greets" the handshake completed, those in "accepted" connected.
Iterate(d, heard, greets, accepted) ==
    /\ heard \cup greets \cup accepted = {} => d >= HbTo
    /\ \E t1 \in Time1(d) :
          LET came == heard \cup greets \cup accepted
              newAge == [p \in Peers |->
                            IF p \in came THEN 0 ELSE Capped(age[p] + d)]
              now == [p \in Peers |-> IF p \in accepted THEN "new"
                                      ELSE IF p \in greets THEN "ready"
                                      ELSE conn[p]]
          IN  /\ age' = newAge
              /\ silent' = [p \in Peers |->
                               IF p \in came THEN 0 ELSE Capped(silent[p] + d)]
              /\ conn' = [p \in Peers |->
                             IF CheckRuns(t1) /\ Expired(now[p], t1, newAge[p])
                             THEN "dropped" ELSE now[p]]
              /\ tx' = IF HeartbeatsDue(t1, accepted)
                       THEN {p \in Peers : conn'[p] = "ready"} ELSE {}
    /\ first' = FALSE /\ dur' = d
    /\ UNCHANGED alive

Next ==
    \/ \E p \in Peers : PeerFails(p)
    \/ \E d \in 0 .. MaxIter :
          \E heard \in SUBSET {p \in Peers : alive[p] /\ conn[p] = "ready"},
             greets \in SUBSET {p \in Peers : alive[p] /\ conn[p] = "new"},
             accepted \in {{}} \cup {{p} : p \in {q \in Peers :
                                             alive[q] /\ conn[q] = "none"}} :
              Iterate(d, heard, greets, accepted)

Spec == Init /\ [][Next]_vars

-----------------------------------------------------------------------------
(* Properties. *)

\* The timers drop a peer only for a silence of HB_TO * 100 seconds, and a
\* handshake only past its deadline, not counting the iteration that ends: a
\* stall of this process, and whatever time_1 held before it was first
\* assigned, are not held against a peer.  And a process that hears nothing for
\* HB_TO seconds sends heartbeats to every ready peer in that iteration, so two
\* idle processes keep each other alive.
TimersAreRight ==
    [][/\ \A p \in Peers : conn'[p] = "dropped" /\ conn[p] # "dropped" =>
             silent'[p] - dur' >= (IF conn[p] = "new" THEN Deadline ELSE Stale)
       /\ ~first /\ dur' >= HbTo =>
             \A p \in Peers : conn'[p] = "ready" => p \in tx']_vars
=============================================================================
