\* The pipe is full before the last event is put.
SPECIFICATION MCSpec
CONSTANTS
    c1 = c1 c2 = c2 c3 = c3 c4 = c4 c5 = c5
    Shared = {c1, c2}
    Own = {c3, c4}
    Dirsvc = {c5}
    Groups = {{c1, c2, c3}, {c1, c3, c4}, {c1, c3, c5}}
    Events = {c1, c2, c3}
    Wanted = {c1, c2}
    Capacity = 2
INVARIANTS OneSharedObject LiveIsBound EventsAgree
\* Callers stop, and a putter that found the pipe full waits for ever.
CHECK_DEADLOCK FALSE
