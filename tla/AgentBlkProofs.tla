--------------------------- MODULE AgentBlkProofs ---------------------------
(***************************************************************************)
(* CountsHolders, for any number of threads in defw_send, and that the     *)
(* events keep the contract of LifecycleContract.                          *)
(*                                                                         *)
(* CountsHolders is not inductive: a thread that finds a block must find   *)
(* one that lives (FoundLives), a block that the connect thread has not    *)
(* entered yet must be nobody else's (NotYetEntered), and over TCP what    *)
(* the listener has found must stay in the table until it is acquired      *)
(* (FoundStays).                                                           *)
(*                                                                         *)
(* The events are what the state bits say was reported (EventsInv); who    *)
(* frees the block follows from CountsHolders, so the contract rests on    *)
(* the first invariant.                                                    *)
(***************************************************************************)
EXTENDS AgentBlk, FiniteSetTheorems, TLAPS

Positions == Using \cup {"loop", "idle", "insert", "done"}

\* What is needed of the types.
Shapes ==
    /\ pc \in [Threads -> Positions]
    /\ ref \in Nat /\ count \in Nat

\* The threads that own a reference.
Holders == {t \in Threads : pc[t] \in Holding}

\* What is in the table lives, and was not found dead.
FoundLives == linked => live /\ "DEAD" \notin bits

\* Before the connect thread enters the block, nobody else has it.
NotYetEntered ==
    pc["connector"] = "insert" =>
        /\ live /\ "DEAD" \notin bits /\ ~linked
        /\ pc["listener"] = "loop" /\ \A t \in Senders : pc[t] = "idle"

\* Over TCP only the listener finds a connection dead, and meanwhile it has
\* no block that it has only found.
FoundStays ==
    ~ofi => /\ \A t \in Senders : pc[t] \notin {"release-dead", "releasing-dead"}
            /\ ~torn /\ pc["listener"] = "have" => linked

\* The connect thread and the others keep to their own positions.
OwnPositions ==
    /\ pc["connector"] \in {"insert", "report", "notify", "complete", "done", "idle"}
    /\ \A t \in Senders : pc[t] \in Holding \cup {"idle"}

\* The count, as in CountsHolders.
CountInv ==
    ~torn => IF live
             THEN ref = (IF "DEAD" \in bits THEN 0 ELSE 1) + Cardinality(Holders)
             ELSE Holders = {}

HolderInv == Shapes /\ FoundLives /\ NotYetEntered /\ FoundStays
             /\ OwnPositions /\ CountInv

\* What was reported of a block with the state bits b.
Reported(b) ==
    IF "READY" \notin b THEN <<>>
    ELSE IF "LOST" \notin b THEN <<"READY">>
    ELSE IF "REMOVED" \notin b THEN <<"READY", "LOST">>
    ELSE <<"READY", "LOST", "REMOVED">>

\* Of a connection the peer made: the connect thread has no part in it; a block
\* found dead has no control channel, so it is not reported ready any more; and
\* until a change of the count is lost the state bits tell what was reported,
\* the loss exactly when the block was found dead, the removal when it is freed.
EventsInv ==
    ~outbound =>
        /\ pc["connector"] = "idle"
        /\ "DEAD" \in bits => "CTRL" \notin bits
        /\ ~torn => /\ events = Reported(bits)
                    /\ "READY" \notin bits => {"LOST", "REMOVED"} \cap bits = {}
                    /\ live => /\ "REMOVED" \notin bits
                               /\ "READY" \in bits =>
                                    ("LOST" \in bits <=> "DEAD" \in bits)

-----------------------------------------------------------------------------
(* The threads that own a reference. *)

\* There are finitely many threads.
LEMMA HoldersFinite == IsFiniteSet(Holders)
<1>1. IsFiniteSet(Senders \cup {"connector"} \cup {"listener"})
  BY ZenonT(30), FS_AddElement, AgentBlkAssumption
<1>2. Holders \subseteq Senders \cup {"connector"} \cup {"listener"}
  BY DEF Holders, Threads
<1> QED BY <1>1, <1>2, FS_Subset

\* A thread takes a reference, gives one back, or does neither.
LEMMA HoldersMove ==
    ASSUME Shapes, NEW t \in Threads, NEW p, pc' = [pc EXCEPT ![t] = p]
    PROVE  /\ p \in Holding => Holders' = Holders \cup {t}
           /\ p \notin Holding => Holders' = Holders \ {t}
BY DEF Shapes, Holders

\* A thread that takes or drops its reference changes the number by one.
LEMMA HoldersCount ==
    ASSUME NEW t
    PROVE  /\ Cardinality(Holders) \in Nat
           /\ t \in Holders => Cardinality(Holders \ {t}) = Cardinality(Holders) - 1
           /\ t \notin Holders => /\ Cardinality(Holders \cup {t}) = Cardinality(Holders) + 1
                                  /\ Holders \ {t} = Holders
           /\ t \in Holders => Holders \cup {t} = Holders
           /\ Cardinality(Holders) = 0 => Holders = {}
           /\ Cardinality(Holders) = 1 /\ t \in Holders => Holders \ {t} = {}
<1>1. Cardinality(Holders) \in Nat
  BY HoldersFinite, FS_CardinalityType
<1>2. t \in Holders => Cardinality(Holders \ {t}) = Cardinality(Holders) - 1
  BY HoldersFinite, FS_RemoveElement
<1>3. t \notin Holders => Cardinality(Holders \cup {t}) = Cardinality(Holders) + 1
  BY HoldersFinite, FS_AddElement
<1>4. Cardinality(Holders) = 0 => Holders = {}
  BY HoldersFinite, FS_EmptySet
<1>5. IsFiniteSet(Holders \ {t})
  BY HoldersFinite, FS_Subset
<1>6. Cardinality(Holders) = 1 /\ t \in Holders => Holders \ {t} = {}
  BY <1>2, <1>5, FS_EmptySet
<1> QED BY <1>1, <1>2, <1>3, <1>4, <1>6

-----------------------------------------------------------------------------
(* HolderInv is inductive. *)

\* No thread owns a reference at first.
LEMMA HolderInvInit == Init => HolderInv
<1> SUFFICES ASSUME Init PROVE HolderInv
  OBVIOUS
<1>1. Shapes
  BY DEF Init, Shapes, Threads, Positions, Using, Holding
<1>2. Holders = {}
  BY DEF Init, Holders, Threads, Holding
<1>3. CountInv
  BY <1>2, FS_EmptySet DEF Init, CountInv
<1>4. FoundLives /\ NotYetEntered /\ FoundStays /\ OwnPositions
  BY ZenonT(30), AgentBlkAssumption
     DEF Init, FoundLives, NotYetEntered, FoundStays, OwnPositions, Threads
<1> QED BY <1>1, <1>3, <1>4 DEF HolderInv

\* A thread that owns a reference goes on with it, and the state of the block
\* that matters here stays.
LEMMA Keeps ==
    ASSUME HolderInv, NEW t \in Threads \ {"connector"}, NEW p \in Holding,
           pc[t] \in Holding, pc' = [pc EXCEPT ![t] = p],
           t # "listener" /\ ~ofi => p \notin {"release-dead", "releasing-dead"},
           UNCHANGED <<ofi, live, linked, ref, torn>>, count' \in Nat,
           "DEAD" \in bits' <=> "DEAD" \in bits
    PROVE  HolderInv'
<1> USE DEF HolderInv
<1>1. Shapes'
  BY DEF Shapes, Positions, Using
<1>2. Holders' = Holders
  BY HoldersMove, HoldersCount DEF Holders
<1>3. CountInv'
  BY <1>2 DEF CountInv
<1>4. FoundLives'
  BY DEF FoundLives
<1>5. pc["connector"] # "insert"
  BY DEF NotYetEntered, Threads, Holding
<1>6. NotYetEntered'
  BY <1>5 DEF NotYetEntered, Shapes, Holding
<1>7. FoundStays'
  BY AgentBlkAssumption DEF FoundStays, Shapes, Holding, Threads
<1>8. OwnPositions'
  BY DEF OwnPositions, Shapes, Threads
<1> QED BY <1>1, <1>3, <1>4, <1>6, <1>7, <1>8

\* A thread takes a reference to a block that lives.
LEMMA Takes ==
    ASSUME HolderInv, NEW t \in Threads \ {"connector"},
           NEW p \in {"process", "sending"}, pc[t] \notin Holding,
           pc["connector"] # "insert", live,
           pc' = [pc EXCEPT ![t] = p], ref' = ref + 1,
           UNCHANGED <<ofi, live, linked, torn, bits, count>>
    PROVE  HolderInv'
<1> USE DEF HolderInv
<1>0. p \in Holding
  BY DEF Holding
<1>1. Shapes'
  BY <1>0 DEF Shapes, Positions, Using
<1>2. Holders' = Holders \cup {t} /\ t \notin Holders
  BY ZenonT(30), <1>0, HoldersMove DEF Holders
<1>3. CountInv'
  BY <1>2, HoldersCount DEF CountInv, Shapes
<1>4. FoundLives'
  BY DEF FoundLives
<1>6. NotYetEntered'
  BY DEF NotYetEntered, Shapes, Threads
<1>7. FoundStays'
  BY DEF FoundStays, Shapes, Threads
<1>8. OwnPositions'
  BY <1>0 DEF OwnPositions, Shapes, Threads
<1> QED BY <1>1, <1>3, <1>4, <1>6, <1>7, <1>8

\* The connect thread, which owns no reference of its own.
LEMMA ConnectorKeeps ==
    ASSUME HolderInv, Connector
    PROVE  HolderInv'
<1> USE DEF HolderInv
<1>1. PICK p \in {"report", "notify", "complete", "done"} :
          pc' = [pc EXCEPT !["connector"] = p]
  BY DEF Connector, ConnectorInserts, ConnectorMarks, ConnectorNotifies,
         ConnectorCompletes
<1>2. /\ UNCHANGED <<ofi, live, ref, torn, count>>
      /\ "DEAD" \in bits' <=> "DEAD" \in bits
  BY DEF Connector, ConnectorInserts, ConnectorMarks, ConnectorNotifies,
         ConnectorCompletes, kind
<1>3. linked' = linked \/ (linked' /\ pc["connector"] = "insert")
  BY DEF Connector, ConnectorInserts, ConnectorMarks, ConnectorNotifies,
         ConnectorCompletes
<1>4. "connector" \in Threads /\ "listener" \in Threads /\ Senders \subseteq Threads
  BY DEF Threads
<1>5. Shapes'
  BY <1>1, <1>2, <1>4 DEF Shapes, Positions, Using
<1>6. Holders' = Holders
  <2>1. "connector" \notin Holders
    BY DEF OwnPositions, Holders, Holding
  <2>2. p \notin Holding
    BY <1>1 DEF Holding
  <2> QED BY ZenonT(30), <1>1, <1>4, <2>1, <2>2, HoldersMove
<1>7. CountInv'
  BY <1>2, <1>6 DEF CountInv
<1>8. FoundLives'
  BY ZenonT(30), <1>2, <1>3 DEF FoundLives, NotYetEntered
<1>9. NotYetEntered'
  BY <1>1, <1>4 DEF NotYetEntered, Shapes
<1>10. \A t \in Threads \ {"connector"} : pc'[t] = pc[t]
  BY <1>1, <1>4 DEF Shapes
<1>11. FoundStays'
  BY <1>2, <1>3, <1>4, <1>10, AgentBlkAssumption DEF FoundStays
<1>12. OwnPositions'
  BY <1>1, <1>4, <1>10, AgentBlkAssumption DEF OwnPositions, Shapes
<1> QED BY <1>5, <1>7, <1>8, <1>9, <1>11, <1>12

\* A reference is given back: the cases of ReleaseUnlocked.
LEMMA GivesBack ==
    ASSUME HolderInv, NEW t \in Threads \ {"connector"}, ReleaseEnd(t)
    PROVE  HolderInv'
<1> USE DEF HolderInv
<1>1. PICK old \in Nat :
          /\ old > 0 /\ (~torn' => ~torn /\ old = ref)
          /\ ReleaseUnlocked(old - 1, pc[t] = "releasing-dead")
  <2>1. PICK old \in IF ref = count \/ torn THEN {ref} ELSE {ref, count, ref + 1} :
            /\ old > 0
            /\ ReleaseUnlocked(old - 1, pc[t] = "releasing-dead")
            /\ torn' = (torn \/ old # ref)
    BY DEF ReleaseEnd
  <2>2. old \in Nat
    BY <2>1 DEF Shapes
  <2> QED BY ZenonT(30), <2>1, <2>2
<1>2. PICK p \in {"loop", "idle"} : /\ pc' = [pc EXCEPT ![t] = p]
                                    /\ p = (IF t = "listener" THEN "loop" ELSE "idle")
  BY ZenonT(30) DEF ReleaseEnd
<1>3. /\ pc[t] \in {"releasing", "releasing-dead"} /\ live /\ ofi' = ofi
      /\ count' \in Nat /\ pc[t] \in Holding /\ p \notin Holding
  BY <1>2 DEF ReleaseEnd, kind, Holding
<1>4. t \in Holders /\ Holders' = Holders \ {t}
  BY ZenonT(30), <1>2, <1>3, HoldersMove DEF Holders
<1>5. ref' \in Nat
  BY <1>1 DEF ReleaseUnlocked, Free
<1>6. Shapes'
  BY <1>2, <1>3, <1>5 DEF Shapes, Positions
<1>7. /\ Cardinality(Holders) \in Nat /\ Cardinality(Holders) # 0
      /\ Cardinality(Holders') = Cardinality(Holders) - 1
      /\ Cardinality(Holders) = 1 => Holders' = {}
  BY ZenonT(30), <1>4, HoldersCount, HoldersFinite, FS_EmptySet
<1> DEFINE dead == pc[t] = "releasing-dead"
<1>8. \/ "DEAD" \in bits /\ old = 1 /\ ~live' /\ ~linked'
      \/ "DEAD" \in bits /\ old # 1 /\ ref' = old - 1
         /\ UNCHANGED <<live, linked, bits>>
      \/ "DEAD" \notin bits /\ old = 1 /\ ~live' /\ ~linked'
      \/ "DEAD" \notin bits /\ dead /\ old = 2 /\ ~live' /\ ~linked'
      \/ "DEAD" \notin bits /\ dead /\ old > 2 /\ ref' = old - 2
         /\ UNCHANGED live /\ ~linked' /\ "DEAD" \in bits'
      \/ "DEAD" \notin bits /\ ~dead /\ old # 1 /\ ref' = old - 1
         /\ UNCHANGED <<live, linked, bits>>
  BY <1>1 DEF ReleaseUnlocked, Free
<1>9. CountInv'
  <2> SUFFICES ASSUME ~torn' PROVE CountInv'
    BY DEF CountInv
  <2>1. /\ old = ref
        /\ ref = (IF "DEAD" \in bits THEN 0 ELSE 1) + Cardinality(Holders)
    BY <1>1, <1>3 DEF CountInv
  <2>2. PICK n \in Nat : n = Cardinality(Holders) /\ n # 0 /\ n - 1 = Cardinality(Holders')
    BY <1>7
  <2>3. old \in Nat /\ (IF "DEAD" \in bits THEN old = n ELSE old = 1 + n)
    BY <1>1, <2>2, <2>1
  <2>4. ASSUME ~live' PROVE Holders' = {}
    <3>1. \/ "DEAD" \in bits /\ old = 1
          \/ "DEAD" \notin bits /\ (old = 1 \/ old = 2)
      BY ZenonT(30), <1>3, <1>8, <2>4
    <3>2. n = 1
      BY <2>2, <2>3, <3>1
    <3> QED BY <1>7, <2>2, <3>2
  <2>5. ASSUME live'
        PROVE  ref' = (IF "DEAD" \in bits' THEN 0 ELSE 1) + Cardinality(Holders')
    <3>1. CASE "DEAD" \in bits
      <4>1. ref' = old - 1 /\ "DEAD" \in bits'
        BY ZenonT(30), <1>8, <2>5, <3>1
      <4> QED BY <2>2, <2>3, <3>1, <4>1
    <3>2. CASE "DEAD" \notin bits
      <4>1. \/ ref' = old - 1 /\ "DEAD" \notin bits'
            \/ ref' = old - 2 /\ "DEAD" \in bits'
        BY ZenonT(30), <1>8, <2>5, <3>2
      <4> QED BY <2>2, <2>3, <3>2, <4>1
    <3> QED BY <3>1, <3>2
  <2> QED BY <2>4, <2>5 DEF CountInv
<1>10. FoundLives'
  BY ZenonT(30), <1>3, <1>8 DEF FoundLives
<1>11. "listener" \in Threads /\ "connector" \in Threads /\ Senders \subseteq Threads
       /\ pc'["connector"] = pc["connector"]
  BY <1>2 DEF Threads, Shapes
<1>12. NotYetEntered'
  BY <1>3, <1>11 DEF NotYetEntered, Threads
<1>13. FoundStays'
  <2> SUFFICES ASSUME ~ofi PROVE FoundStays'
    BY <1>3 DEF FoundStays
  <2>1. ASSUME NEW s \in Senders
        PROVE  pc'[s] \notin {"release-dead", "releasing-dead"}
    BY <1>2, <1>11 DEF FoundStays, Shapes
  <2>2. ASSUME ~torn', pc'["listener"] = "have" PROVE linked'
    <3>1. t # "listener" /\ pc["listener"] = "have"
      BY <1>2, <1>11, <2>2 DEF Shapes
    <3>2. linked /\ ~dead
      BY <1>1, <1>3, <2>2, <3>1 DEF FoundStays, Threads
    <3>3. "DEAD" \notin bits /\ old # 1
      BY <1>1, <1>3, <1>7, <2>2, <3>2 DEF FoundLives, CountInv
    <3> QED BY ZenonT(30), <1>8, <3>2, <3>3
  <2> QED BY <2>1, <2>2 DEF FoundStays
<1>14. OwnPositions'
  BY <1>2, <1>11, AgentBlkAssumption DEF OwnPositions, Shapes
<1> QED BY <1>6, <1>9, <1>10, <1>12, <1>13, <1>14

\* Every step keeps the invariant.
LEMMA HolderInvNext == HolderInv /\ [Next]_vars => HolderInv'
<1> SUFFICES ASSUME HolderInv, [Next]_vars PROVE HolderInv'
  OBVIOUS
<1> USE DEF HolderInv
<1>0. /\ "listener" \in Threads \ {"connector"} /\ Senders \subseteq Threads
      /\ "listener" \notin Senders /\ "connector" \notin Senders
  BY AgentBlkAssumption DEF Threads
<1>1. ASSUME NEW t \in Threads \ {"connector"}, ReleaseStart(t) PROVE HolderInv'
  <2>1. CASE pc[t] = "release"
    BY ZenonT(30), <1>1, <2>1, Keeps DEF ReleaseStart, Shapes, Holding, blkVars, kind
  <2>2. CASE pc[t] = "release-dead"
    BY ZenonT(30), <1>0, <1>1, <2>2, Keeps DEF ReleaseStart, Shapes, Holding, blkVars, kind,
                                   FoundStays, Threads
  <2> QED BY <1>1, <2>1, <2>2 DEF ReleaseStart
<1>2. ASSUME NEW t \in Threads \ {"connector"}, Release(t) PROVE HolderInv'
  BY <1>1, <1>2, GivesBack DEF Release
<1>3. CASE ListenerFinds
  <2>1. pc' = [pc EXCEPT !["listener"] = "have"] /\ pc["listener"] = "loop" /\ linked
    BY <1>3 DEF ListenerFinds
  <2>2. UNCHANGED <<ofi, live, linked, ref, bits, torn, count>>
    BY <1>3 DEF ListenerFinds, blkVars, kind
  <2>3. Holders' = Holders
    BY <1>0, <2>1, HoldersMove, HoldersCount DEF Holders, Holding
  <2>4. Shapes'
    BY <1>0, <2>1, <2>2 DEF Shapes, Positions, Using
  <2>5. \A t \in Threads \ {"listener"} : pc'[t] = pc[t]
    BY <1>0, <2>1 DEF Shapes
  <2>6. CountInv' /\ FoundLives'
    BY <2>2, <2>3 DEF CountInv, FoundLives
  <2>7. NotYetEntered' /\ OwnPositions'
    BY <1>0, <2>1, <2>5 DEF NotYetEntered, OwnPositions, Threads
  <2>8. FoundStays'
    BY <1>0, <2>1, <2>2, <2>5 DEF FoundStays
  <2> QED BY <2>4, <2>6, <2>7, <2>8
<1>4. CASE ListenerAcquires
  BY ZenonT(30), <1>0, <1>4, Takes DEF ListenerAcquires, Holding, kind, NotYetEntered
<1>5. CASE ListenerReads
  BY ZenonT(30), <1>0, <1>5, Keeps DEF ListenerReads, Holding, kind, Shapes
<1>6. CASE ListenerReports
  BY ZenonT(30), <1>0, <1>6, Keeps DEF ListenerReports, ReportReady, Holding, kind, Shapes
<1>7. CASE ListenerIdle
  BY ZenonT(30), <1>0, <1>7, Keeps DEF ListenerIdle, Holding, kind, blkVars, Shapes
<1>8. CASE PeerCloses \/ UNCHANGED vars
  <2>1. UNCHANGED <<pc, ofi, live, linked, ref, bits, torn, count>>
    BY <1>8 DEF PeerCloses, vars, blkVars, kind
  <2> QED BY <2>1 DEF Shapes, FoundLives, NotYetEntered, FoundStays,
                      OwnPositions, CountInv, Holders
<1>9. ASSUME NEW t \in Senders, SenderFinds(t) PROVE HolderInv'
  BY ZenonT(30), <1>0, <1>9, Takes DEF SenderFinds, Holding, kind, NotYetEntered, FoundLives
<1>10. ASSUME NEW t \in Senders, SenderSends(t) PROVE HolderInv'
  <2>1. \/ pc' = [pc EXCEPT ![t] = "release"]
        \/ ofi /\ pc' = [pc EXCEPT ![t] = "release-dead"]
    BY <1>10 DEF SenderSends
  <2>2. /\ pc[t] \in Holding /\ t \in Threads \ {"connector"}
        /\ UNCHANGED <<ofi, live, linked, ref, torn>> /\ count' \in Nat
        /\ "DEAD" \in bits' <=> "DEAD" \in bits
    BY <1>0, <1>10 DEF SenderSends, Holding, kind, Shapes
  <2> QED BY <2>1, <2>2, Keeps DEF Holding
<1>11. CASE Connector
  BY <1>11, ConnectorKeeps
<1> QED
  BY <1>0, <1>2, <1>3, <1>4, <1>5, <1>6, <1>7, <1>8, <1>9, <1>10, <1>11
     DEF Next, Listener, Sender

-----------------------------------------------------------------------------

\* The reference count of a block is exact for any number of threads in
\* defw_send: one for the table and one per holder, and with TCP the listener
\* finds no freed block (acquire_agent_blk, defw_release_agent_blk).
THEOREM HoldersAreCounted == Spec => []CountsHolders
<1>1. HolderInv => CountsHolders
  BY DEF HolderInv, CountInv, CountsHolders, Holders, FoundStays, FoundLives
<1> QED BY <1>1, HolderInvInit, HolderInvNext, PTL DEF Spec
-----------------------------------------------------------------------------
(* Sequences of up to three elements. *)

\* Two sequences with the same elements are equal.
LEMMA SameSequence ==
    ASSUME NEW S, NEW s \in Seq(S), NEW u \in Seq(S), Len(s) = Len(u),
           \A i \in 1..Len(s) : s[i] = u[i]
    PROVE  s = u
OBVIOUS

\* Tuples are sequences.
LEMMA ShortSequences ==
    ASSUME NEW S, NEW a \in S, NEW b \in S, NEW c \in S
    PROVE  /\ <<>> \in Seq(S) /\ <<a>> \in Seq(S) /\ <<a, b>> \in Seq(S)
           /\ <<a, b, c>> \in Seq(S)
OBVIOUS

\* What appending an element gives.
LEMMA AppendIs ==
    ASSUME NEW S, NEW s \in Seq(S), NEW e \in S, NEW u \in Seq(S),
           Len(u) = Len(s) + 1, \A i \in 1..Len(s) : u[i] = s[i],
           u[Len(s) + 1] = e
    PROVE  Append(s, e) = u
<1>1. Append(s, e) \in Seq(S) /\ Len(Append(s, e)) = Len(u)
  OBVIOUS
<1>2. ASSUME NEW i \in 1..Len(u) PROVE Append(s, e)[i] = u[i]
  OBVIOUS
<1> QED BY <1>1, <1>2, SameSequence

\* Appending to a tuple gives the longer tuple, and the tuples of the first
\* elements are its prefixes.
LEMMA Grown ==
    ASSUME NEW S, NEW a \in S, NEW b \in S, NEW c \in S
    PROVE  /\ Append(<<>>, a) = <<a>> /\ Append(<<a>>, b) = <<a, b>>
           /\ Append(<<a, b>>, c) = <<a, b, c>>
           /\ SubSeq(<<a, b, c>>, 1, 1) = <<a>>
           /\ SubSeq(<<a, b, c>>, 1, 2) = <<a, b>>
           /\ SubSeq(<<a, b, c>>, 1, 3) = <<a, b, c>>
           /\ Len(<<>>) = 0 /\ Len(<<a>>) = 1 /\ Len(<<a, b>>) = 2
<1>1. PICK s \in Seq(S) : s = <<a>>
  BY ShortSequences
<1>2. PICK u \in Seq(S) : u = <<a, b>>
  BY ShortSequences
<1>3. PICK v \in Seq(S) : v = <<a, b, c>>
  BY ShortSequences
<1>4. /\ Len(s) = 1 /\ Len(u) = 2 /\ Len(v) = 3 /\ s[1] = a
      /\ u[1] = a /\ u[2] = b /\ v[1] = a /\ v[2] = b /\ v[3] = c
  BY <1>1, <1>2, <1>3
<1>5. Append(s, b) = u
  <2>1. Len(u) = Len(s) + 1 /\ \A i \in 1..Len(s) : u[i] = s[i]
    BY <1>4
  <2>2. u[Len(s) + 1] = b
    BY <1>4
  <2> QED BY <2>1, <2>2, AppendIs
<1>6. Append(u, c) = v
  <2>1. Len(v) = Len(u) + 1 /\ \A i \in 1..Len(u) : v[i] = u[i]
    BY <1>4
  <2>2. v[Len(u) + 1] = c
    BY <1>4
  <2> QED BY <2>1, <2>2, AppendIs
<1>7. ASSUME NEW n \in 1..3
      PROVE  /\ SubSeq(v, 1, n) \in Seq(S) /\ Len(SubSeq(v, 1, n)) = n
             /\ \A i \in 1..n : SubSeq(v, 1, n)[i] = v[i]
  BY <1>4
<1>8. SubSeq(v, 1, 1) = s /\ SubSeq(v, 1, 2) = u /\ SubSeq(v, 1, 3) = v
  BY <1>4, <1>7, SameSequence
<1>9. Append(<<>>, a) = <<a>>
  OBVIOUS
<1> QED BY <1>1, <1>2, <1>3, <1>4, <1>5, <1>6, <1>8, <1>9

-----------------------------------------------------------------------------
(* The events of a connection the peer made. *)

Kinds == {"READY", "LOST", "REMOVED"}

\* The values of the mapped variable of Contract.
Mapped == IF outbound THEN <<>>
          ELSE IF torn THEN <<"READY", "LOST", "REMOVED">>
          ELSE events

\* The event sequences of the contract, and how one comes from another.
LEMMA EventSequences ==
    /\ Append(<<>>, "READY") = <<"READY">>
    /\ Append(<<"READY">>, "LOST") = <<"READY", "LOST">>
    /\ Append(<<"READY", "LOST">>, "REMOVED") = <<"READY", "LOST", "REMOVED">>
    /\ SubSeq(<<"READY", "LOST", "REMOVED">>, 1, 1) = <<"READY">>
    /\ SubSeq(<<"READY", "LOST", "REMOVED">>, 1, 2) = <<"READY", "LOST">>
    /\ SubSeq(<<"READY", "LOST", "REMOVED">>, 1, 3) = <<"READY", "LOST", "REMOVED">>
    /\ Len(<<>>) = 0 /\ Len(<<"READY">>) = 1 /\ Len(<<"READY", "LOST">>) = 2
<1>1. "READY" \in Kinds /\ "LOST" \in Kinds /\ "REMOVED" \in Kinds
  BY DEF Kinds
<1>2. /\ Append(<<>>, "READY") = <<"READY">>
      /\ Append(<<"READY">>, "LOST") = <<"READY", "LOST">>
      /\ Append(<<"READY", "LOST">>, "REMOVED") = <<"READY", "LOST", "REMOVED">>
  BY ZenonT(30), <1>1, Grown
<1>3. SubSeq(<<"READY", "LOST", "REMOVED">>, 1, 1) = <<"READY">>
  BY Zenon, <1>1, Grown
<1>4. SubSeq(<<"READY", "LOST", "REMOVED">>, 1, 2) = <<"READY", "LOST">>
  BY Zenon, <1>1, Grown
<1>5. SubSeq(<<"READY", "LOST", "REMOVED">>, 1, 3) = <<"READY", "LOST", "REMOVED">>
  BY ZenonT(30), <1>1, Grown
<1>6. Len(<<>>) = 0 /\ Len(<<"READY">>) = 1 /\ Len(<<"READY", "LOST">>) = 2
  BY Zenon, <1>1, Grown
<1> QED BY Zenon, <1>2, <1>3, <1>4, <1>5, <1>6

\* A longer sequence of the contract is a step of it.
LEMMA StepOfContract ==
    ASSUME \/ Mapped = <<>> /\ Mapped' = <<"READY">>
           \/ Mapped = <<"READY">> /\ Mapped' = <<"READY", "LOST">>
           \/ /\ Mapped \in {<<>>, <<"READY">>, <<"READY", "LOST">>}
              /\ Mapped' = <<"READY", "LOST", "REMOVED">>
    PROVE  Contract!Next
<1>1. Len(<<>>) = 0 /\ Len(<<"READY">>) = 1 /\ Len(<<"READY", "LOST">>) = 2
  BY EventSequences
<1>2. CASE Mapped = <<>> /\ Mapped' = <<"READY">>
  <2>1. 1 \in 1..3 /\ 1 > Len(Mapped)
    BY <1>1, <1>2
  <2>2. Mapped' = SubSeq(<<"READY", "LOST", "REMOVED">>, 1, 1)
    BY <1>2, EventSequences
  <2> QED BY Zenon, <2>1, <2>2 DEF Mapped, Contract!Next, Contract!Order
<1>3. CASE Mapped = <<"READY">> /\ Mapped' = <<"READY", "LOST">>
  <2>1. 2 \in 1..3 /\ 2 > Len(Mapped)
    BY <1>1, <1>3
  <2>2. Mapped' = SubSeq(<<"READY", "LOST", "REMOVED">>, 1, 2)
    BY <1>3, EventSequences
  <2> QED BY Zenon, <2>1, <2>2 DEF Mapped, Contract!Next, Contract!Order
<1>4. CASE /\ Mapped \in {<<>>, <<"READY">>, <<"READY", "LOST">>}
           /\ Mapped' = <<"READY", "LOST", "REMOVED">>
  <2>1. 3 \in 1..3 /\ 3 > Len(Mapped)
    BY <1>1, <1>4
  <2>2. Mapped' = SubSeq(<<"READY", "LOST", "REMOVED">>, 1, 3)
    BY <1>4, EventSequences
  <2> QED BY Zenon, <2>1, <2>2 DEF Mapped, Contract!Next, Contract!Order
<1> QED BY <1>2, <1>3, <1>4

\* No event was reported when the block is made.
LEMMA EventsInvInit == Init => EventsInv /\ Mapped = <<>>
BY AgentBlkAssumption DEF Init, EventsInv, Mapped, Reported, Threads

\* A step that reports nothing and changes no more of the state bits than the
\* runtime id and the RPC channel.
LEMMA ReportsNothing ==
    ASSUME EventsInv, UNCHANGED <<outbound, torn, live, events>>,
           pc'["connector"] = pc["connector"],
           \A b \in Bits \ {"UUID", "RPC"} : b \in bits' <=> b \in bits
    PROVE  EventsInv' /\ Mapped' = Mapped
<1>1. \A b \in {"DEAD", "CTRL", "READY", "LOST", "REMOVED"} : b \in bits' <=> b \in bits
  BY DEF Bits
<1>2. Reported(bits') = Reported(bits)
  BY <1>1 DEF Reported
<1>3. EventsInv'
  BY <1>1, <1>2 DEF EventsInv
<1> QED BY <1>3 DEF Mapped

\* A release: the loss with the first dead one, the removal with the last.
LEMMA ReleaseReports ==
    ASSUME HolderInv, EventsInv, ~outbound,
           NEW t \in Threads \ {"connector"}, ReleaseEnd(t)
    PROVE  EventsInv' /\ (Mapped' = Mapped \/ Contract!Next)
<1>1. PICK old \in Nat :
          /\ old > 0 /\ (~torn' => ~torn /\ old = ref)
          /\ ReleaseUnlocked(old - 1, pc[t] = "releasing-dead")
          /\ torn' = (torn \/ old # ref)
  <2>1. PICK old \in IF ref = count \/ torn THEN {ref} ELSE {ref, count, ref + 1} :
            /\ old > 0
            /\ ReleaseUnlocked(old - 1, pc[t] = "releasing-dead")
            /\ torn' = (torn \/ old # ref)
    BY DEF ReleaseEnd
  <2>2. old \in Nat
    BY <2>1 DEF HolderInv, Shapes
  <2> QED BY ZenonT(30), <2>1, <2>2
<1>2. /\ live /\ outbound' = outbound /\ t \in Holders
      /\ pc'["connector"] = pc["connector"]
  BY DEF ReleaseEnd, kind, Holders, Holding, HolderInv, Shapes, Threads
<1>3. pc["connector"] = "idle" /\ ("DEAD" \in bits => "CTRL" \notin bits)
  BY DEF EventsInv
<1>4. "DEAD" \in bits' => "CTRL" \notin bits'
  BY <1>1, <1>3 DEF ReleaseUnlocked, Free, Marked
<1>5. CASE torn'
  <2>1. EventsInv'
    BY <1>2, <1>3, <1>4, <1>5 DEF EventsInv
  <2>2. Mapped' = <<"READY", "LOST", "REMOVED">>
    BY <1>2, <1>5 DEF Mapped
  <2>3. CASE torn
    BY <2>1, <2>2, <2>3 DEF Mapped
  <2>4. CASE ~torn
    <3>1. Mapped \in {<<>>, <<"READY">>, <<"READY", "LOST">>}
      BY <1>2, <2>4 DEF Mapped, EventsInv, Reported
    <3> QED BY <2>1, <2>2, <3>1, StepOfContract
  <2> QED BY <2>3, <2>4
<1>6. CASE ~torn'
  <2>1. /\ ~torn /\ old = ref /\ events = Reported(bits)
        /\ ("READY" \notin bits => "LOST" \notin bits /\ "REMOVED" \notin bits)
        /\ "REMOVED" \notin bits
        /\ ("READY" \in bits => ("LOST" \in bits <=> "DEAD" \in bits))
    BY <1>1, <1>2, <1>6 DEF EventsInv
  <2>2. "DEAD" \notin bits => old # 1
    <3>1. Cardinality(Holders) \in Nat /\ Cardinality(Holders) # 0
      BY <1>2, HoldersCount
    <3> QED BY <1>2, <2>1, <3>1 DEF HolderInv, CountInv
  <2>3. \/ UNCHANGED <<live, bits, events>>
        \/ /\ "DEAD" \in bits /\ ~live' /\ bits' = Marked({"REMOVED"})
           /\ events' = Reports({"REMOVED"})
        \/ /\ "DEAD" \notin bits /\ ~live' /\ bits' = Marked({"LOST", "REMOVED"})
           /\ events' = Reports({"LOST", "REMOVED"})
        \/ /\ "DEAD" \notin bits /\ live'
           /\ bits' = (Marked({"LOST"}) \ {"ALIVE", "RPC", "CTRL"}) \cup {"DEAD"}
           /\ events' = Reports({"LOST"})
    <3>1. PICK n : n = old - 1
      OBVIOUS
    <3>2. ReleaseUnlocked(n, pc[t] = "releasing-dead")
      BY <1>1, <3>1
    <3>3. "DEAD" \notin bits => n # 0
      BY <1>1, <2>2, <3>1
    <3> QED BY ZenonT(30), <1>2, <3>2, <3>3 DEF ReleaseUnlocked, Free
  <2>4. CASE "READY" \notin bits
    <3>1. events' = events
      BY <2>3, <2>4 DEF Reports, Report
    <3>2. "READY" \notin bits' /\ "LOST" \notin bits' /\ "REMOVED" \notin bits'
      BY <2>1, <2>3, <2>4 DEF Marked
    <3>3. EventsInv'
      BY <1>2, <1>3, <1>4, <2>1, <2>4, <3>1, <3>2 DEF EventsInv, Reported
    <3>4. Mapped' = Mapped
      BY <1>2, <1>6, <2>1, <3>1 DEF Mapped
    <3> QED BY <3>3, <3>4
  <2>5. CASE "READY" \in bits
    <3>1. CASE UNCHANGED <<live, bits, events>>
      <4>1. EventsInv'
        BY <1>2, <1>3, <1>4, <2>1, <3>1 DEF EventsInv
      <4> QED BY <1>2, <1>6, <2>1, <3>1, <4>1 DEF Mapped
    <3>2. CASE /\ "DEAD" \in bits /\ ~live' /\ bits' = Marked({"REMOVED"})
               /\ events' = Reports({"REMOVED"})
      <4>1. events = <<"READY", "LOST">>
        BY <2>1, <2>5, <3>2 DEF Reported
      <4>2. events' = <<"READY", "LOST", "REMOVED">>
        BY <2>1, <2>5, <3>2, <4>1, EventSequences DEF Reports, Report
      <4>3. "READY" \in bits' /\ "LOST" \in bits' /\ "REMOVED" \in bits'
        BY <2>1, <2>5, <3>2 DEF Marked
      <4>4. EventsInv'
        BY <1>2, <1>3, <1>4, <3>2, <4>2, <4>3 DEF EventsInv, Reported
      <4>5. Mapped = <<"READY", "LOST">> /\ Mapped' = <<"READY", "LOST", "REMOVED">>
        BY <1>2, <1>6, <2>1, <4>1, <4>2 DEF Mapped
      <4> QED BY <4>4, <4>5, StepOfContract
    <3>3. CASE /\ "DEAD" \notin bits /\ ~live' /\ bits' = Marked({"LOST", "REMOVED"})
               /\ events' = Reports({"LOST", "REMOVED"})
      <4>1. events = <<"READY">>
        BY <2>1, <2>5, <3>3 DEF Reported
      <4>2. events' = <<"READY", "LOST", "REMOVED">>
        BY <2>1, <2>5, <3>3, <4>1, EventSequences DEF Reports, Report
      <4>3. "READY" \in bits' /\ "LOST" \in bits' /\ "REMOVED" \in bits'
        BY <2>5, <3>3 DEF Marked
      <4>4. EventsInv'
        BY <1>2, <1>3, <1>4, <3>3, <4>2, <4>3 DEF EventsInv, Reported
      <4>5. Mapped = <<"READY">> /\ Mapped' = <<"READY", "LOST", "REMOVED">>
        BY <1>2, <1>6, <2>1, <4>1, <4>2 DEF Mapped
      <4> QED BY <4>4, <4>5, StepOfContract
    <3>4. CASE /\ "DEAD" \notin bits /\ live'
               /\ bits' = (Marked({"LOST"}) \ {"ALIVE", "RPC", "CTRL"}) \cup {"DEAD"}
               /\ events' = Reports({"LOST"})
      <4>1. events = <<"READY">>
        BY <2>1, <2>5, <3>4 DEF Reported
      <4>2. events' = <<"READY", "LOST">>
        BY <2>1, <2>5, <3>4, <4>1, EventSequences DEF Reports, Report
      <4>3. /\ "READY" \in bits' /\ "LOST" \in bits' /\ "REMOVED" \notin bits'
            /\ "DEAD" \in bits'
        BY <2>1, <2>5, <3>4 DEF Marked
      <4>4. EventsInv'
        BY <1>2, <1>3, <1>4, <4>2, <4>3 DEF EventsInv, Reported
      <4>5. Mapped = <<"READY">> /\ Mapped' = <<"READY", "LOST">>
        BY <1>2, <1>6, <2>1, <4>1, <4>2 DEF Mapped
      <4> QED BY <4>4, <4>5, StepOfContract
    <3> QED BY <2>3, <3>1, <3>2, <3>3, <3>4
  <2> QED BY <2>4, <2>5
<1> QED BY <1>5, <1>6

\* The listener reports the block ready, once.
LEMMA ListenerReportsOnce ==
    ASSUME HolderInv, EventsInv, ~outbound, ListenerReports
    PROVE  EventsInv' /\ (Mapped' = Mapped \/ Contract!Next)
<1>1. /\ live /\ live' = live /\ outbound' = outbound /\ torn' = torn
      /\ pc'["connector"] = pc["connector"]
  BY DEF ListenerReports, kind, HolderInv, Shapes, Threads
<1>2. CASE ~ReadyToReport
  <2>1. UNCHANGED <<bits, events>>
    BY <1>2 DEF ListenerReports, ReportReady
  <2> QED BY <1>1, <2>1, ReportsNothing
<1>3. CASE ReadyToReport
  <2>1. bits' = bits \cup {"READY"} /\ events' = Append(events, "READY")
    BY <1>3 DEF ListenerReports, ReportReady
  <2>2. "CTRL" \in bits /\ "READY" \notin bits /\ "DEAD" \notin bits
    BY <1>3 DEF ReadyToReport, EventsInv
  <2>3. CASE torn
    BY <1>1, <2>1, <2>2, <2>3 DEF EventsInv, Mapped
  <2>4. CASE ~torn
    <3>1. /\ events = <<>> /\ "LOST" \notin bits /\ "REMOVED" \notin bits
      BY <2>2, <2>4 DEF EventsInv, Reported
    <3>2. events' = <<"READY">>
      BY <2>1, <3>1, EventSequences
    <3>3. /\ "READY" \in bits' /\ "LOST" \notin bits' /\ "REMOVED" \notin bits'
          /\ "DEAD" \notin bits'
      BY <2>1, <2>2, <3>1
    <3>4. EventsInv'
      BY <1>1, <3>2, <3>3 DEF EventsInv, Reported
    <3>5. Mapped = <<>> /\ Mapped' = <<"READY">>
      BY <1>1, <2>4, <3>1, <3>2 DEF Mapped
    <3> QED BY <3>4, <3>5, StepOfContract
  <2> QED BY <2>3, <2>4
<1> QED BY <1>2, <1>3

\* Every step is a step of the contract on the events, or none.
LEMMA EventsStep ==
    HolderInv /\ EventsInv /\ [Next]_vars
        => EventsInv' /\ (Mapped' = Mapped \/ Contract!Next)
<1> SUFFICES ASSUME HolderInv, EventsInv, [Next]_vars
             PROVE  EventsInv' /\ (Mapped' = Mapped \/ Contract!Next)
  OBVIOUS
<1> DEFINE Goal == EventsInv' /\ (Mapped' = Mapped \/ Contract!Next)
<1> HIDE DEF Goal
<1>0. outbound' = outbound
  BY DEF Next, Listener, Connector, Sender, Release, ReleaseStart, ReleaseEnd,
         ListenerFinds, ListenerAcquires, ListenerReads, ListenerReports,
         ListenerIdle, PeerCloses, SenderFinds, SenderSends, ConnectorInserts,
         ConnectorMarks, ConnectorNotifies, ConnectorCompletes, vars, kind
<1>1. CASE outbound
  BY <1>0, <1>1 DEF EventsInv, Mapped, Goal
<1>2. CASE ~outbound
  <2>1. /\ "listener" \in Threads \ {"connector"} /\ Senders \subseteq Threads \ {"connector"}
        /\ pc \in [Threads -> Positions]
    BY AgentBlkAssumption DEF Threads, HolderInv, Shapes
  <2>2. ASSUME NEW t \in Threads \ {"connector"}, NEW p, pc' = [pc EXCEPT ![t] = p]
        PROVE  pc'["connector"] = pc["connector"]
    BY <2>1, <2>2
  <2>3. ASSUME NEW t \in Threads \ {"connector"}, Release(t) PROVE Goal
    <3>1. CASE ReleaseEnd(t)
      BY <1>2, <3>1, ReleaseReports DEF Goal
    <3>2. CASE ReleaseStart(t)
      <4>1. /\ UNCHANGED <<outbound, torn, live, events, bits>>
            /\ pc'["connector"] = pc["connector"]
        BY <2>2, <3>2 DEF ReleaseStart, blkVars, kind
      <4> QED BY <4>1, ReportsNothing DEF Goal
    <3> QED BY <2>3, <3>1, <3>2 DEF Release
  <2>4. CASE ListenerFinds \/ ListenerAcquires \/ ListenerIdle
    <3>1. /\ UNCHANGED <<outbound, torn, live, events, bits>>
          /\ pc'["connector"] = pc["connector"]
      BY <2>1, <2>2, <2>4 DEF ListenerFinds, ListenerAcquires, ListenerIdle, blkVars, kind
    <3> QED BY <3>1, ReportsNothing DEF Goal
  <2>5. CASE ListenerReads
    <3>1. /\ UNCHANGED <<outbound, torn, live, events>>
          /\ pc'["connector"] = pc["connector"]
          /\ bits' = bits \cup {"UUID"} \/ bits' = bits \cup {"RPC"}
      BY <2>1, <2>2, <2>5 DEF ListenerReads, kind
    <3> QED BY <3>1, ReportsNothing DEF Goal
  <2>6. CASE ListenerReports
    BY <1>2, <2>6, ListenerReportsOnce DEF Goal
  <2>7. CASE Connector
    BY <1>2, <2>7 DEF EventsInv, Connector, ConnectorInserts, ConnectorMarks,
                      ConnectorNotifies, ConnectorCompletes
  <2>8. CASE PeerCloses \/ UNCHANGED vars
    <3>1. UNCHANGED <<outbound, torn, live, events, bits, pc>>
      BY SMTT(30), <2>8 DEF PeerCloses, vars, blkVars, kind
    <3> QED BY <3>1, ReportsNothing DEF Goal
  <2>9. ASSUME NEW t \in Senders, SenderFinds(t) \/ SenderSends(t) PROVE Goal
    <3>1. /\ UNCHANGED <<outbound, torn, live, events>>
          /\ bits' = bits \/ bits' = bits \cup {"RPC"}
      BY <2>9 DEF SenderFinds, SenderSends, kind
    <3>2. pc'["connector"] = pc["connector"]
      BY <2>1, <2>2, <2>9 DEF SenderFinds, SenderSends
    <3> QED BY <3>1, <3>2, ReportsNothing DEF Goal
  <2> QED BY <2>1, <2>3, <2>4, <2>5, <2>6, <2>7, <2>8, <2>9
          DEF Next, Listener, Sender, Goal
<1> QED BY <1>1, <1>2 DEF Goal

\* The events of a connection the peer made are those of LifecycleContract, for
\* any number of threads in defw_send: ready, then lost, then removed, each once
\* (defw_agent_report_peer_ready, report_peer_lost, report_peer_removed).
THEOREM EventsKeepContract == Spec => ImplementsLifecycle
<1>1. Init => Contract!Init
  BY EventsInvInit DEF Mapped, Contract!Init
<1>2. HolderInv /\ EventsInv /\ [Next]_vars
        => EventsInv' /\ [Contract!Next]_(IF outbound THEN <<>>
                            ELSE IF torn THEN <<"READY", "LOST", "REMOVED">>
                            ELSE events)
  BY EventsStep DEF Mapped
<1> QED BY <1>1, <1>2, EventsInvInit, HolderInvInit, HolderInvNext, PTL
        DEF Spec, ImplementsLifecycle, Contract!Spec
=============================================================================
