----------------------------- MODULE RpcContract -----------------------------
(***************************************************************************)
(* What a blocking remote call promises its caller: the far end executes   *)
(* it at most once, perhaps even after the caller gave up on it; the call  *)
(* ends at most once; and it ends with a response only if it was executed. *)
(* A call that ended any other way may or may not have been executed.      *)
(***************************************************************************)
EXTENDS Naturals

CONSTANTS Calls

VARIABLES result,    \* how a call ended, "none" while it has not
          executed   \* how often the far end executed it

Init == /\ \A c \in Calls : result[c] = "none"
        /\ \A c \in Calls : executed[c] = 0

Execute(c) ==
    /\ executed[c] = 0
    /\ executed' = [executed EXCEPT ![c] = 1]
    /\ UNCHANGED result

End(c) ==
    /\ result[c] = "none" /\ result'[c] # "none"
    /\ result'[c] = "response" => executed[c] = 1
    /\ \A d \in Calls \ {c} : result'[d] = result[d]
    /\ UNCHANGED executed

Next == \E c \in Calls : Execute(c) \/ End(c)

Spec == Init /\ [][Next]_<<[c \in Calls |-> result[c]], executed>>
=============================================================================
