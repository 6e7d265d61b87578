----------------------------- MODULE EventQueue -----------------------------
(***************************************************************************)
(* The queue a client receives events in (BaseEventAPI).  Remote callers   *)
(* put events on RPC threads; the client selects on a pipe that holds one  *)
(* byte per event and gets the events a criterion accepts.  The lock is    *)
(* held while the byte is written, and a full pipe blocks the writer.  The *)
(* order of the events in the queue and in a result is left out.           *)
(***************************************************************************)
EXTENDS Naturals, FiniteSets

CONSTANTS Events,     \* events that will be put, each by a thread of its own
          Wanted,     \* events the first consumer's criterion accepts
          Capacity    \* bytes the pipe holds

Consumers == {"some", "all"}
Accepts(c) == IF c = "some" THEN Wanted ELSE Events
None == "none"

VARIABLES
    lock,      \* the putter or consumer that holds the event lock
    queue,     \* __event_queue
    pipe,      \* bytes in the pipe
    putter,    \* the put calls
    getter,    \* the consumers
    res,       \* what a get has collected
    returned   \* events returned by gets, per consumer

vars == <<lock, queue, pipe, putter, getter, res, returned>>

Init ==
    /\ lock = None /\ queue = {} /\ pipe = 0
    /\ putter = [e \in Events |-> "start"]
    /\ getter = [c \in Consumers |-> "select"]
    /\ res = [c \in Consumers |-> {}]
    /\ returned = [c \in Consumers |-> {}]

\* put: the event is queued under the lock ...
AppendEvent(e) ==
    /\ putter[e] = "start" /\ lock = None
    /\ lock' = e
    /\ queue' = queue \cup {e}
    /\ putter' = [putter EXCEPT ![e] = "write"]
    /\ UNCHANGED <<pipe, getter, res, returned>>

\* ... and its byte written, once the pipe has room.
WriteByte(e) ==
    /\ putter[e] = "write" /\ pipe < Capacity
    /\ pipe' = pipe + 1
    /\ lock' = None
    /\ putter' = [putter EXCEPT ![e] = "done"]
    /\ UNCHANGED <<queue, getter, res, returned>>

\* select() on fileno() says there is something.
Readable(c) ==
    /\ getter[c] = "select" /\ pipe > 0
    /\ getter' = [getter EXCEPT ![c] = "get"]
    /\ UNCHANGED <<lock, queue, pipe, putter, res, returned>>

\* get collects and removes the events its criterion accepts.
Collect(c) ==
    /\ getter[c] = "get" /\ lock = None
    /\ lock' = c
    /\ res' = [res EXCEPT ![c] = queue \cap Accepts(c)]
    /\ queue' = queue \ Accepts(c)
    /\ getter' = [getter EXCEPT ![c] = "read"]
    /\ UNCHANGED <<pipe, putter, returned>>

\* Mutant: the pipe is drained.
MutReadBytes(c) ==
    /\ getter[c] = "read"
    /\ pipe' = 0
    /\ returned' = [returned EXCEPT ![c] = @ \cup res[c]]
    /\ res' = [res EXCEPT ![c] = {}]
    /\ lock' = None
    /\ getter' = [getter EXCEPT ![c] = "select"]
    /\ UNCHANGED <<queue, putter>>

\* ... and takes one byte for each of them.
ReadBytes(c) ==
    /\ getter[c] = "read"
    /\ LET n == Cardinality(res[c]) IN pipe' = IF n < pipe THEN pipe - n ELSE 0
    /\ returned' = [returned EXCEPT ![c] = @ \cup res[c]]
    /\ res' = [res EXCEPT ![c] = {}]
    /\ lock' = None
    /\ getter' = [getter EXCEPT ![c] = "select"]
    /\ UNCHANGED <<queue, putter>>

Next ==
    \/ \E e \in Events : AppendEvent(e) \/ WriteByte(e)
    \/ \E c \in Consumers : Readable(c) \/ Collect(c) \/ ReadBytes(c)

Spec == Init /\ [][Next]_vars

-----------------------------------------------------------------------------
(* Properties. *)

\* What the gets of a consumer have taken.
Got(c) == res[c] \cup returned[c]

\* An event is returned once, by one get, and until then it is queued: a get
\* loses no event it does not want, and no two gets return the same one.  And
\* while nobody is inside put or get, the pipe holds one byte per event: the
\* descriptor is readable exactly if there is something to get, although a get
\* takes only some of the events (BaseEventAPI.put, get and fileno).
EventsAgree ==
    /\ queue \cup UNION {Got(c) : c \in Consumers} =
          {e \in Events : putter[e] # "start"}
    /\ \A c \in Consumers : queue \cap Got(c) = {} /\ res[c] \cap returned[c] = {}
    /\ Got("some") \cap Got("all") = {}
    /\ lock = None => pipe = Cardinality(queue)
=============================================================================
