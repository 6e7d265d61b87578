----------------------------- MODULE MCRequests -----------------------------
(* The instance of Requests for TLC. *)
EXTENDS RequestsInstance

CONSTANTS s1, s2, c1, h1, h2

\* s1 names one connection, s2 has a zero block uuid and may use either.
MCTargets == [q \in {s1, s2} |-> IF q = s1 THEN {h1} ELSE {h1, h2}]

\* s1 is issued beside s2, or beside a connect while the connection s1 does
\* not use stays up.
OneBesides ==
    phase[c1] = "idle" \/ (phase[s2] = "idle" /\ link[h2] = "up")
=============================================================================
