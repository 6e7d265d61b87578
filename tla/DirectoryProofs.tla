-------------------------- MODULE DirectoryProofs --------------------------
(***************************************************************************)
(* The types of the Directory model, the facts about its records, that no  *)
(* loss is missed, that subscribers agree with the table and that records  *)
(* are true, for every set of services, runtimes and handles, every Owner, *)
(* Retention, ReadyPerHandle and MaxTime.                                  *)
(***************************************************************************)
EXTENDS Directory, TLAPS

\* What the proofs use of the constants.
LEMMA ConstantFacts ==
    /\ Owner \in [Handles -> Runtimes] /\ Subscribers \subseteq Runtimes
    /\ Retention \in Nat /\ Retention > 0 /\ MaxTime \in Nat
BY SMTT(30), DirectoryAssumption

\* A retention deadline is never mistaken for the absence of one.
LEMMA DeadlinePositive == \A n \in Nat : n + Retention # 0
BY SMTT(30), ConstantFacts

\* An applied record is a record, bound to the same peer, seen at the event.
LEMMA AppliedRecordType ==
    ASSUME NEW r \in Record, NEW e \in PeerEvent
    PROVE  /\ AppliedRecord(r, e) \in Record
           /\ AppliedRecord(r, e).peer_handle = r.peer_handle
           /\ AppliedRecord(r, e).runtime_id = r.runtime_id
           /\ AppliedRecord(r, e).generation = r.generation
           /\ AppliedRecord(r, e).last_seen = e.timestamp
           /\ IsLoss(e) => AppliedRecord(r, e).state # STATE_UP
           /\ AppliedRecord(r, e).state_changed_at \in
                 {r.state_changed_at, e.timestamp}
<1>1. CASE IsLoss(e)
  <2>1. LossState(e) \in States \ {STATE_UP}
    BY Zenon DEF LossState, States, STATE_UP, STATE_DOWN, STATE_TIMED_OUT
  <2>2. e.timestamp \in Nat /\ e.timestamp + Retention \in Nat
    <3>1. e.timestamp \in Nat
      BY Zenon DEF PeerEvent
    <3> QED BY SMTT(30), <3>1, ConstantFacts
  <2>3. AppliedRecord(r, e) = LostRecord(r, e)
    BY Zenon, <1>1 DEF AppliedRecord
  <2> QED BY ZenonT(30), <2>1, <2>2, <2>3 DEF LostRecord, Record
<1>2. CASE ~IsLoss(e) /\ Revives(r, e)
  BY ZenonT(30), <1>2 DEF AppliedRecord, RevivedRecord, Record, PeerEvent, States, NoDeadline
<1>3. CASE ~IsLoss(e) /\ ~Revives(r, e)
  BY Zenon, <1>3 DEF AppliedRecord, Record, PeerEvent, States
<1> QED BY Zenon, <1>1, <1>2, <1>3

\* NoRecord is not a record: it has no field of one.
LEMMA NoRecordNotRecord == NoRecord \notin Record
BY Zenon DEF NoRecord, Record, States, STATE_UP, STATE_DOWN, STATE_TIMED_OUT,
       STATE_DEREGISTERED

\* Registering a service yields a record.
LEMMA RegisteredRecordType ==
    ASSUME NEW r \in Record \cup {NoRecord}, NEW h \in Handles, NEW n \in Nat
    PROVE  RegisteredRecord(r, h, n) \in Record
<1>1. NextGeneration(r) \in Nat
  BY SMTT(30), NoRecordNotRecord DEF NextGeneration, Record
<1> QED
  BY Zenon, <1>1, ConstantFacts DEF RegisteredRecord, Record, States, NoDeadline

\* Deregistering a service yields a record.
LEMMA DeregisteredRecordType ==
    ASSUME NEW r \in Record, NEW n \in Nat
    PROVE  DeregisteredRecord(r, n) \in Record
<1>1. n + Retention \in Nat
  BY SMTT(30), ConstantFacts
<1>2. STATE_DEREGISTERED \in States
  BY Zenon DEF States
<1> QED BY ZenonT(30), <1>1, <1>2 DEF DeregisteredRecord, Record

\* The event a worker hands to its temporary thread is a peer event.
LEMMA SpawnApplyType ==
    ASSUME TypeOK, NEW h \in Handles, clock' \in Nat,
           NEW type \in {"PEER_READY", "PEER_LOST", "PEER_REMOVED"},
           NEW why \in Reasons \cup {"none"},
           SpawnApply(type, h, why)
    PROVE  threads' \subseteq PeerEvent
<1> DEFINE e == [event_type |-> type, peer_handle |-> h,
                 runtime_id |-> Owner[h], reason |-> why, timestamp |-> clock']
<1>1. Owner[h] \in Runtimes
  BY Zenon, ConstantFacts
<1>2. e \in PeerEvent
  BY Zenon, <1>1 DEF PeerEvent
<1>3. threads' = threads \cup {e}
  BY Zenon DEF SpawnApply
<1> QED BY Zenon, <1>2, <1>3 DEF TypeOK

\* A reading of the clock is a positive number, later than the last.
LEMMA ClockStep ==
    ASSUME TypeOK, ReadClock
    PROVE  clock' \in Nat \ {0} /\ clock' = clock + 1 /\ clock < clock'
BY SMTT(30) DEF TypeOK, ReadClock

\* The callback of a subscriber keeps the type of the subscribers' views.
LEMMA ViewType ==
    ASSUME TypeOK, NEW r \in Runtimes, NEW s \in Services,
           NEW v \in SERVICE_EVENT_TYPES \cup {NoView}
    PROVE  [view EXCEPT ![r][s] = v] \in
              [Runtimes -> [Services -> SERVICE_EVENT_TYPES \cup {NoView}]]
BY Zenon DEF TypeOK

\* A subscriber's view is forgotten when its registrations change.
LEMMA ViewReset ==
    ASSUME TypeOK, NEW r \in Runtimes
    PROVE  [view EXCEPT ![r] = [s \in Services |-> NoView]] \in
              [Runtimes -> [Services -> SERVICE_EVENT_TYPES \cup {NoView}]]
BY Zenon DEF TypeOK

\* Every step keeps the types.
LEMMA TypeStep == TypeOK /\ [Next]_vars => TypeOK'
<1> SUFFICES ASSUME TypeOK, [Next]_vars PROVE TypeOK'
  BY Zenon
<1>1. ASSUME NEW h \in Handles, PeerReady(h) PROVE TypeOK'
  <2>1. clock' \in Nat \ {0}
    BY Zenon, <1>1, ClockStep DEF PeerReady
  <2>2. threads' \subseteq PeerEvent
    BY Zenon, <1>1, <2>1, SpawnApplyType DEF PeerReady
  <2>3. readies' \in [Handles -> Nat]
    <3>1. readies[h] + 1 \in Nat
      BY SMTT(30) DEF TypeOK
    <3> QED BY Zenon, <1>1, <3>1 DEF PeerReady, TypeOK
  <2>4. peer' \in [Handles -> {"unknown", "ready", "lost", "removed"}]
    BY Zenon, <1>1 DEF PeerReady, TypeOK
  <2> QED BY Zenon, <1>1, <2>1, <2>2, <2>3, <2>4 DEF PeerReady, TypeOK, dirVars
<1>2. ASSUME NEW h \in Handles, PeerRemoved(h) PROVE TypeOK'
  <2>1. clock' \in Nat \ {0}
    BY Zenon, <1>2, ClockStep DEF PeerRemoved
  <2>2. threads' \subseteq PeerEvent
    BY Zenon, <1>2, <2>1, SpawnApplyType DEF PeerRemoved, Reasons
  <2> QED BY Zenon, <1>2, <2>1, <2>2 DEF PeerRemoved, TypeOK, dirVars
<1>3. ASSUME NEW h \in Handles,
             NEW why \in {"heartbeat-timeout", "transport-failure"},
             PeerLost(h, why)
      PROVE  TypeOK'
  <2>1. clock' \in Nat \ {0}
    BY Zenon, <1>3, ClockStep DEF PeerLost
  <2>2. threads' \subseteq PeerEvent
    BY Zenon, <1>3, <2>1, SpawnApplyType DEF PeerLost, Reasons
  <2> QED BY Zenon, <1>3, <2>1, <2>2 DEF PeerLost, TypeOK, dirVars
<1>4. ASSUME NEW s \in Services, NEW h \in Handles,
             RegisterCheck(s, h) \/ RegisterFails(s, h)
      PROVE  TypeOK'
  BY SMTT(30), <1>4 DEF RegisterCheck, RegisterFails, TypeOK, dirVars
<1>5. ASSUME NEW s \in Services, NEW h \in Handles, RegisterService(s, h)
      PROVE  TypeOK'
  <2>1. clock' \in Nat \ {0}
    BY Zenon, <1>5, ClockStep DEF RegisterService
  <2>2. records' \in [Services -> Record \cup {NoRecord}]
    BY ZenonT(30), <1>5, <2>1, RegisteredRecordType DEF RegisterService, TypeOK
  <2>3. outbox' \subseteq ServiceEvent
    BY SMTT(30), <1>5 DEF RegisterService, ServiceEventOf, ServiceEvent,
                SERVICE_EVENT_TYPES
  <2> QED BY Zenon, <1>5, <2>1, <2>2, <2>3 DEF RegisterService, TypeOK
<1>6. ASSUME NEW s \in Services, NEW r \in Runtimes, NEW g \in 1..MaxTime,
             DeregisterService(s, r, g)
      PROVE  TypeOK'
  <2>1. clock' \in Nat \ {0}
    BY Zenon, <1>6, ClockStep DEF DeregisterService
  <2>2. records' \in [Services -> Record \cup {NoRecord}]
    <3>1. records[s] \in Record
      BY Zenon, <1>6 DEF DeregisterService, TypeOK, Present
    <3>2. DeregisteredRecord(records[s], clock') \in Record
      BY Zenon, <3>1, <2>1, DeregisteredRecordType
    <3> QED BY Zenon, <1>6, <3>2 DEF DeregisterService, TypeOK
  <2>3. outbox' \subseteq ServiceEvent
    BY SMTT(30), <1>6 DEF DeregisterService, ServiceEventOf, ServiceEvent,
                SERVICE_EVENT_TYPES
  <2> QED BY Zenon, <1>6, <2>1, <2>2, <2>3 DEF DeregisterService, TypeOK, envVars
<1>7. ASSUME NEW e \in threads, ApplyPeerEvent(e) PROVE TypeOK'
  <2>1. e \in PeerEvent
    BY Zenon DEF TypeOK
  <2>2. records' \in [Services -> Record \cup {NoRecord}]
    BY Zenon, <1>7, <2>1, AppliedRecordType DEF ApplyPeerEvent, TypeOK, EventMatches
  <2>3. outbox' \subseteq ServiceEvent
    BY SMTT(30), <1>7 DEF ApplyPeerEvent, Notifications, ServiceEventOf, ServiceEvent,
                SERVICE_EVENT_TYPES
  <2>4. view' \in [Runtimes -> [Services -> SERVICE_EVENT_TYPES \cup {NoView}]]
    <3>1. e.runtime_id \in Runtimes
      BY Zenon, <2>1 DEF PeerEvent
    <3> QED BY Zenon, <1>7, <3>1, ViewReset DEF ApplyPeerEvent, TypeOK
  <2>5. registrations' \subseteq Registration
    BY Zenon, <1>7 DEF ApplyPeerEvent, Remaining, TypeOK
  <2> QED BY Zenon, <1>7, <2>2, <2>3, <2>4, <2>5 DEF ApplyPeerEvent, TypeOK
<1>8. ASSUME PurgeExpired PROVE TypeOK'
  <2>1. clock' \in Nat \ {0}
    BY Zenon, <1>8, ClockStep DEF PurgeExpired
  <2>2. records' \in [Services -> Record \cup {NoRecord}]
    BY Zenon, <1>8 DEF PurgeExpired, TypeOK
  <2> QED BY Zenon, <1>8, <2>1, <2>2 DEF PurgeExpired, TypeOK, envVars
<1>9. ASSUME NEW reg \in Registration,
             \/ RegisterEventNotification(reg)
             \/ UnregisterEventNotification(reg)
      PROVE  TypeOK'
  <2>1. reg.subscriber_runtime_id \in Runtimes
    BY Zenon, ConstantFacts DEF Registration
  <2>2. view' \in [Runtimes -> [Services -> SERVICE_EVENT_TYPES \cup {NoView}]]
    BY SMTT(30), <1>9, <2>1, ViewReset
       DEF RegisterEventNotification, UnregisterEventNotification
  <2> QED BY Zenon, <1>9, <2>2 DEF RegisterEventNotification,
             UnregisterEventNotification, TypeOK, envVars
<1>10. ASSUME NEW ev \in outbox, PublishBegin(ev) PROVE TypeOK'
  BY Zenon, <1>10 DEF PublishBegin, TypeOK, envVars
<1>11. ASSUME NEW reg \in calls, CallbackReturns(reg) \/ CallbackFails(reg)
       PROVE  TypeOK'
  <2>1. reg.subscriber_runtime_id \in Runtimes
    BY Zenon, ConstantFacts DEF Registration, TypeOK
  <2>2. /\ current.service_id \in Services
        /\ current.event \in SERVICE_EVENT_TYPES
    BY Zenon, <1>11 DEF TypeOK, ServiceEvent
  <2>3. view' \in [Runtimes -> [Services -> SERVICE_EVENT_TYPES \cup {NoView}]]
    <3>1. current.event \in SERVICE_EVENT_TYPES \cup {NoView}
      BY Zenon, <2>2
    <3>2. CASE CallbackReturns(reg)
      BY Zenon, <3>2, <2>1, <2>2, <3>1, ViewType DEF CallbackReturns
    <3>3. CASE CallbackFails(reg)
      BY Zenon, <3>3, <2>1, <2>2, ViewType DEF CallbackFails
    <3> QED BY Zenon, <1>11, <3>2, <3>3
  <2> QED BY Zenon, <1>11, <2>3 DEF CallbackReturns, CallbackFails, TypeOK, envVars
<1>12. ASSUME UNCHANGED vars PROVE TypeOK'
  BY Zenon, <1>12 DEF vars, dirVars, envVars, TypeOK
<1> QED BY Zenon, <1>1, <1>2, <1>3, <1>4, <1>5, <1>6, <1>7, <1>8, <1>9, <1>10,
           <1>11, <1>12 DEF Next, Publish

\* The type invariant holds in every reachable state, for all constants.
THEOREM TypeCorrect == Spec => []TypeOK
<1>1. Init => TypeOK
  BY SMTT(30) DEF Init, TypeOK
<1> QED BY <1>1, TypeStep, PTL DEF Spec

\* The numbers LossInv compares are natural numbers.
LEMMA Numbers ==
    ASSUME TypeOK
    PROVE  /\ clock \in Nat
           /\ \A e \in threads : e \in PeerEvent /\ e.timestamp \in Nat
                                 /\ e.peer_handle \in Handles
           /\ \A h \in Handles : lostAt[h] \in Nat
           /\ \A s \in Services : Present(s) =>
                 /\ records[s] \in Record /\ records[s].peer_handle \in Handles
                 /\ records[s].last_seen \in Nat
                 /\ records[s].state_changed_at \in Nat
                 /\ records[s].retention_deadline \in Nat
BY Zenon DEF TypeOK, PeerEvent, Present, Record

-----------------------------------------------------------------------------
(* Retention deadlines and generations. *)


\* A resolvable record has no retention deadline and every other record has
\* one: the purge never drops a live service and never keeps a dead one.
THEOREM LiveServicesNeverExpire == Spec => []LiveNeverExpires
<1>1. Init => LiveNeverExpires
  <2>1. Init => records = [s \in Services |-> NoRecord]
    BY Zenon DEF Init
  <2> QED BY Zenon, <2>1 DEF LiveNeverExpires, Present
<1>2. TypeOK /\ TypeOK' /\ LiveNeverExpires /\ [Next]_vars => LiveNeverExpires'
  <2> SUFFICES ASSUME TypeOK, TypeOK', LiveNeverExpires, [Next]_vars,
                      NEW s \in Services, Present(s)'
               PROVE  records'[s].state = STATE_UP
                      <=> records'[s].retention_deadline = NoDeadline
    BY Zenon DEF LiveNeverExpires
  <2>1. ASSUME NEW x \in Services, NEW h \in Handles, RegisterService(x, h),
               s = x
        PROVE  records'[s].state = STATE_UP
               /\ records'[s].retention_deadline = NoDeadline
    BY Zenon, <2>1 DEF RegisterService, RegisteredRecord, TypeOK
  <2>2. ASSUME NEW x \in Services, NEW rt, NEW g, DeregisterService(x, rt, g),
               s = x
        PROVE  records'[s].state # STATE_UP
               /\ records'[s].retention_deadline # NoDeadline
    <3>1. records'[s] = DeregisteredRecord(records[s], clock')
          /\ records[s] \in Record /\ clock' \in Nat
      BY Zenon, <2>2, Numbers, ClockStep DEF DeregisterService, TypeOK, Present
    <3>2. clock' + Retention # 0
      <4>1. clock' \in Nat
        BY Zenon, <3>1
      <4> QED BY Zenon, <4>1, DeadlinePositive
    <3> QED BY Zenon, <3>1, <3>2 DEF DeregisteredRecord, Record, NoDeadline,
               STATE_UP, STATE_DEREGISTERED
  <2>3. ASSUME NEW e \in threads, ApplyPeerEvent(e), EventMatches(records[s], e)
        PROVE  records'[s].state = STATE_UP
               <=> records'[s].retention_deadline = NoDeadline
    <3>1. /\ records'[s] = AppliedRecord(records[s], e) /\ records[s] \in Record
          /\ Present(s) /\ e.timestamp \in Nat /\ e.timestamp + Retention # 0
      BY SMTT(30), <2>3, Numbers, ConstantFacts DEF ApplyPeerEvent, EventMatches, Present
    <3>2. LossState(e) # STATE_UP
      BY Zenon DEF LossState, STATE_UP, STATE_DOWN, STATE_TIMED_OUT
    <3>3. CASE IsLoss(e)
      BY Zenon, <3>1, <3>2, <3>3 DEF AppliedRecord, LostRecord, Record, NoDeadline
    <3>4. CASE ~IsLoss(e) /\ Revives(records[s], e)
      BY Zenon, <3>1, <3>4 DEF AppliedRecord, RevivedRecord, Record
    <3>5. CASE ~IsLoss(e) /\ ~Revives(records[s], e)
      BY Zenon, <3>1, <3>5 DEF AppliedRecord, Record, LiveNeverExpires
    <3> QED BY Zenon, <3>3, <3>4, <3>5
  <2>4. ASSUME records'[s] = records[s]
        PROVE  records'[s].state = STATE_UP
               <=> records'[s].retention_deadline = NoDeadline
    BY Zenon, <2>4 DEF LiveNeverExpires, Present
  <2>5. CASE \E x \in Services, h \in Handles : RegisterService(x, h)
    BY ZenonT(30), <2>5, <2>1, <2>4 DEF RegisterService, TypeOK
  <2>6. CASE \E x \in Services, r \in Runtimes, g \in 1..MaxTime :
                 DeregisterService(x, r, g)
    BY ZenonT(30), <2>6, <2>2, <2>4 DEF DeregisterService, TypeOK
  <2>7. CASE \E e \in threads : ApplyPeerEvent(e)
    BY Zenon, <2>7, <2>3, <2>4 DEF ApplyPeerEvent
  <2>8. CASE PurgeExpired
    BY Zenon, <2>8, <2>4 DEF PurgeExpired, Present
  <2>9. ASSUME records' = records
        PROVE  records'[s].state = STATE_UP
               <=> records'[s].retention_deadline = NoDeadline
    BY Zenon, <2>9, <2>4
  <2> QED BY ZenonT(30), <2>5, <2>6, <2>7, <2>8, <2>9
       DEF Next, PeerReady, PeerRemoved, PeerLost, RegisterCheck,
           RegisterFails, RegisterEventNotification,
           UnregisterEventNotification, Publish, PublishBegin,
           CallbackReturns, CallbackFails, vars, dirVars, envVars
<1> QED BY <1>1, <1>2, TypeCorrect, PTL DEF Spec

\* A generation names one runtime: a service changes hands only when it is not
\* UP and only with a larger generation (Directory.register_service).
THEOREM GenerationsFence == Spec => GenerationFencing
<1> DEFINE Fence(s) == (Present(s) /\ Present(s)') =>
          /\ records'[s].generation >= records[s].generation
          /\ (records'[s].runtime_id # records[s].runtime_id) =>
                /\ records[s].state # STATE_UP
                /\ records'[s].generation > records[s].generation
<1>1. TypeOK /\ [Next]_vars => [\A s \in Services : Fence(s)]_vars
  <2> SUFFICES ASSUME TypeOK, Next, NEW s \in Services, Present(s), Present(s)'
               PROVE  /\ records'[s].generation >= records[s].generation
                      /\ (records'[s].runtime_id # records[s].runtime_id) =>
                            /\ records[s].state # STATE_UP
                            /\ records'[s].generation > records[s].generation
    BY Zenon
  <2>1. records[s] \in Record /\ records[s].generation \in Nat
    BY Zenon DEF Present, TypeOK, Record
  <2>2. ASSUME records'[s].generation = records[s].generation,
               records'[s].runtime_id = records[s].runtime_id
        PROVE  /\ records'[s].generation >= records[s].generation
               /\ (records'[s].runtime_id # records[s].runtime_id) =>
                     /\ records[s].state # STATE_UP
                     /\ records'[s].generation > records[s].generation
    BY SMTT(30), <2>1, <2>2
  <2>3. ASSUME NEW x \in Services, NEW h \in Handles, RegisterService(x, h)
        PROVE  /\ records'[s].generation >= records[s].generation
               /\ (records'[s].runtime_id # records[s].runtime_id) =>
                     /\ records[s].state # STATE_UP
                     /\ records'[s].generation > records[s].generation
    <3>1. CASE x # s
      BY Zenon, <3>1, <2>2, <2>3 DEF RegisterService, TypeOK
    <3>2. CASE x = s
      <4>1. /\ records'[s].generation = NextGeneration(records[s])
            /\ records'[s].runtime_id = Owner[h]
            /\ ~Conflict(records[s], h)
        BY Zenon, <2>3, <3>2 DEF RegisterService, RegisteredRecord, TypeOK
      <4>2. CASE records[s].state = STATE_UP
        BY SMTT(30), <4>1, <4>2, <2>1, NoRecordNotRecord DEF NextGeneration, Conflict
      <4>3. CASE records[s].state # STATE_UP
        BY SMTT(30), <4>1, <4>3, <2>1, NoRecordNotRecord DEF NextGeneration
      <4> QED BY Zenon, <4>2, <4>3
    <3> QED BY Zenon, <3>1, <3>2
  <2>4. ASSUME NEW x \in Services, NEW rt, NEW g, DeregisterService(x, rt, g)
        PROVE  /\ records'[s].generation = records[s].generation
               /\ records'[s].runtime_id = records[s].runtime_id
    BY Zenon, <2>1, <2>4 DEF DeregisterService, DeregisteredRecord, TypeOK, Record
  <2>5. ASSUME NEW e \in threads, ApplyPeerEvent(e)
        PROVE  /\ records'[s].generation = records[s].generation
               /\ records'[s].runtime_id = records[s].runtime_id
    BY Zenon, <2>1, <2>5, Numbers, AppliedRecordType DEF ApplyPeerEvent
  <2>6. ASSUME PurgeExpired PROVE records'[s] = records[s]
    BY Zenon, <2>6 DEF PurgeExpired, Present
  <2> QED BY ZenonT(30), <2>2, <2>3, <2>4, <2>5, <2>6
       DEF Next, PeerReady, PeerRemoved, PeerLost, RegisterCheck,
           RegisterFails, RegisterEventNotification,
           UnregisterEventNotification, Publish, PublishBegin,
           CallbackReturns, CallbackFails, dirVars, envVars
<1> QED BY <1>1, TypeCorrect, PTL DEF Spec, GenerationFencing

-----------------------------------------------------------------------------
(* What subscribers are told.  While the lock holder publishes, the events  *)
(* it still has to publish make up the difference between the records and   *)
(* what a subscriber was told last.                                         *)

Up(s) == Present(s) /\ records[s].state = STATE_UP

\* What an event says of the record of its service.
Says(s, type) == IF type = SERVICE_CONNECTED THEN Up(s) ELSE ~Up(s)
Opposite(type) == IF type = SERVICE_CONNECTED THEN SERVICE_DISCONNECTED
                                              ELSE SERVICE_CONNECTED

\* The subscriber has yet to be called for the event.
PendingFor(r, ev) ==
    \/ ev \in outbox
    \/ current = ev /\ \E reg \in calls : reg.subscriber_runtime_id = r

\* What is published is true until the lock is free again.
EventsTrue ==
    /\ \A ev \in outbox : Says(ev.service_id, ev.event)
    /\ calls # {} => Says(current.service_id, current.event)

Told(r, s, type) ==
    view[r][s] = type /\ Subscribed(r, s, Opposite(type)) =>
        Says(s, type) \/ PendingFor(r, ServiceEventOf(s, Opposite(type)))

ViewInv ==
    EventsTrue /\ \A r \in Runtimes, s \in Services, type \in SERVICE_EVENT_TYPES :
                      Told(r, s, type)

\* Up and down are the two things that can be said of a service.
LEMMA OneOfTwo ==
    ASSUME NEW s, NEW type \in SERVICE_EVENT_TYPES
    PROVE  /\ Opposite(type) \in SERVICE_EVENT_TYPES /\ Opposite(type) # type
           /\ Says(s, type) \/ Says(s, Opposite(type))
           /\ \A t \in SERVICE_EVENT_TYPES : t = type \/ t = Opposite(type)
  BY Zenon DEF Opposite, Says, SERVICE_EVENT_TYPES, SERVICE_CONNECTED, SERVICE_DISCONNECTED

\* The purge drops no record that is UP.
LEMMA PurgeKeepsUp ==
    ASSUME TypeOK, LiveNeverExpires, PurgeExpired, NEW s \in Services
    PROVE  Up(s)' <=> Up(s)
<1>1. Expired(records[s], clock') => ~Up(s)
  BY Zenon DEF LiveNeverExpires, Expired, Up
<1>2. records'[s] = IF Expired(records[s], clock') THEN NoRecord ELSE records[s]
  BY Zenon DEF PurgeExpired
<1> QED BY Zenon, <1>1, <1>2 DEF Up, Present

\* Steps that neither change what is UP nor publish.
LEMMA ViewFrame ==
    ASSUME ViewInv, TypeOK, UNCHANGED <<registrations, outbox, current, calls, view>>,
           \A s \in Services : Up(s)' <=> Up(s)
    PROVE  ViewInv'
<1>1. \A s \in Services : \A type : Says(s, type)' <=> Says(s, type)
  BY Zenon DEF Says
<1>2. /\ \A ev \in outbox : ev.service_id \in Services
      /\ calls # {} => current.service_id \in Services
  BY Zenon DEF TypeOK, ServiceEvent
<1>3. EventsTrue'
  BY Zenon, <1>1, <1>2 DEF ViewInv, EventsTrue
<1>4. ASSUME NEW r \in Runtimes, NEW s \in Services, NEW type \in SERVICE_EVENT_TYPES
      PROVE  Told(r, s, type)'
  BY Zenon, <1>1 DEF ViewInv, Told, PendingFor, Subscribed
<1> QED BY Zenon, <1>3, <1>4 DEF ViewInv

\* A transition under the lock: the events it leaves to be published are the
\* services that changed.
LEMMA ViewTransition ==
    ASSUME ViewInv, TypeOK, TypeOK', LockFree, UNCHANGED <<current, calls>>,
           \A s \in Services : (Up(s)' <=> Up(s)) \/ \E type \in SERVICE_EVENT_TYPES :
                                     /\ ServiceEventOf(s, type) \in outbox'
                                     /\ Says(s, type)',
           \A ev \in outbox' : Says(ev.service_id, ev.event)',
           \A r \in Runtimes : \/ /\ view'[r] = view[r]
                                  /\ \A reg : reg \in registrations'
                                              /\ reg.subscriber_runtime_id = r
                                              => reg \in registrations
                               \/ \A s \in Services : view'[r][s] = NoView
    PROVE  ViewInv'
<1>1. outbox = {} /\ calls = {} /\ calls' = {}
  BY Zenon DEF LockFree, Busy
<1>2. EventsTrue'
  BY Zenon, <1>1 DEF EventsTrue
<1>3. ASSUME NEW r \in Runtimes, NEW s \in Services, NEW type \in SERVICE_EVENT_TYPES,
             view'[r][s] = type, Subscribed(r, s, Opposite(type))'
      PROVE  Says(s, type)' \/ PendingFor(r, ServiceEventOf(s, Opposite(type)))'
  <2>1. view'[r][s] # NoView
    BY Zenon, <1>3 DEF SERVICE_EVENT_TYPES, SERVICE_CONNECTED, SERVICE_DISCONNECTED, NoView
  <2>2. view[r][s] = type /\ Subscribed(r, s, Opposite(type))
    BY Zenon, <1>3, <2>1 DEF Subscribed
  <2>3. Says(s, type)
    BY Zenon, <1>1, <2>2 DEF ViewInv, Told, PendingFor
  <2>4. CASE Up(s)' <=> Up(s)
    BY Zenon, <2>3, <2>4 DEF Says
  <2>5. ASSUME NEW t \in SERVICE_EVENT_TYPES, ServiceEventOf(s, t) \in outbox', Says(s, t)'
        PROVE  Says(s, type)' \/ PendingFor(r, ServiceEventOf(s, Opposite(type)))'
    <3>1. t = type \/ t = Opposite(type)
      BY Zenon, OneOfTwo
    <3> QED BY Zenon, <2>5, <3>1 DEF PendingFor
  <2> QED BY Zenon, <2>4, <2>5
<1> QED BY Zenon, <1>2, <1>3 DEF ViewInv, Told

\* register_service queues the announcement that its change of state calls for.
LEMMA ViewRegister ==
    ASSUME ViewInv, TypeOK, TypeOK', NEW x \in Services, NEW h \in Handles,
           RegisterService(x, h)
    PROVE  ViewInv'
<1>1. /\ LockFree /\ UNCHANGED <<current, calls, view, registrations>>
      /\ outbox' = IF Up(x) THEN {} ELSE {ServiceEventOf(x, SERVICE_CONNECTED)}
      /\ records' = [records EXCEPT ![x] = RegisteredRecord(@, h, clock')]
  BY Zenon DEF RegisterService, Up
<1>2. Up(x)' /\ \A s \in Services \ {x} : Up(s)' <=> Up(s)
  <2>1. records'[x] = RegisteredRecord(records[x], h, clock')
    BY Zenon, <1>1 DEF TypeOK
  <2>2. records'[x].state = STATE_UP /\ records'[x] # NoRecord
    BY SMTT(30), <2>1 DEF RegisteredRecord, NoRecord, STATE_UP
  <2>3. \A s \in Services \ {x} : records'[s] = records[s]
    BY Zenon, <1>1 DEF TypeOK
  <2> QED BY Zenon, <2>2, <2>3 DEF Up, Present
<1>3. Says(x, SERVICE_CONNECTED)'
  BY Zenon, <1>2 DEF Says
<1>4. \A s \in Services : (Up(s)' <=> Up(s)) \/ \E type \in SERVICE_EVENT_TYPES :
                                /\ ServiceEventOf(s, type) \in outbox'
                                /\ Says(s, type)'
  BY Zenon, <1>1, <1>2, <1>3 DEF SERVICE_EVENT_TYPES
<1>5. \A ev \in outbox' : Says(ev.service_id, ev.event)'
  BY SMTT(30), <1>1, <1>3 DEF ServiceEventOf
<1> QED BY Zenon, <1>1, <1>4, <1>5, ViewTransition

\* deregister_service does, too.
LEMMA ViewDeregister ==
    ASSUME ViewInv, TypeOK, TypeOK', NEW x \in Services, NEW rt, NEW g,
           DeregisterService(x, rt, g)
    PROVE  ViewInv'
<1>1. /\ LockFree /\ UNCHANGED <<current, calls, view, registrations>>
      /\ outbox' = {ServiceEventOf(x, SERVICE_DISCONNECTED)}
      /\ records' = [records EXCEPT ![x] = DeregisteredRecord(@, clock')]
      /\ records[x] \in Record
  BY Zenon DEF DeregisterService, Present, TypeOK
<1>2. ~Up(x)' /\ \A s \in Services \ {x} : Up(s)' <=> Up(s)
  <2>1. records'[x] = DeregisteredRecord(records[x], clock')
    BY Zenon, <1>1 DEF TypeOK
  <2>2. records'[x].state # STATE_UP
    <3>1. \A r \in Record : \A n : DeregisteredRecord(r, n).state = STATE_DEREGISTERED
      BY Zenon DEF DeregisteredRecord, Record
    <3> QED BY Zenon, <1>1, <2>1, <3>1 DEF STATE_UP, STATE_DEREGISTERED
  <2>3. \A s \in Services \ {x} : records'[s] = records[s]
    BY Zenon, <1>1 DEF TypeOK
  <2> QED BY Zenon, <2>2, <2>3 DEF Up, Present
<1>3. Says(x, SERVICE_DISCONNECTED)'
  BY Zenon, <1>2 DEF Says, SERVICE_CONNECTED, SERVICE_DISCONNECTED
<1>4. \A s \in Services : (Up(s)' <=> Up(s)) \/ \E type \in SERVICE_EVENT_TYPES :
                                /\ ServiceEventOf(s, type) \in outbox'
                                /\ Says(s, type)'
  BY Zenon, <1>1, <1>2, <1>3 DEF SERVICE_EVENT_TYPES
<1>5. \A ev \in outbox' : Says(ev.service_id, ev.event)'
  BY SMTT(30), <1>1, <1>3 DEF ServiceEventOf
<1> QED BY Zenon, <1>1, <1>4, <1>5, ViewTransition

\* What a peer event makes of a record that it matches.
LEMMA AppliedState ==
    ASSUME NEW r \in Record, NEW e \in PeerEvent
    PROVE  /\ IsLoss(e) => AppliedRecord(r, e).state \in {STATE_DOWN, STATE_TIMED_OUT}
           /\ ~IsLoss(e) /\ Revives(r, e) => AppliedRecord(r, e).state = STATE_UP
           /\ ~IsLoss(e) /\ ~Revives(r, e) => AppliedRecord(r, e).state = r.state
<1>1. CASE IsLoss(e)
  BY Zenon, <1>1 DEF AppliedRecord, LostRecord, LossState, Record
<1>2. CASE ~IsLoss(e)
  BY Zenon, <1>2 DEF AppliedRecord, RevivedRecord, Record
<1> QED BY Zenon, <1>1, <1>2

\* Applying a peer event queues the announcement of every record it changes.
LEMMA ViewApply ==
    ASSUME ViewInv, TypeOK, TypeOK', NEW e \in threads, ApplyPeerEvent(e)
    PROVE  ViewInv'
<1> DEFINE kind == IF IsLoss(e) THEN SERVICE_DISCONNECTED ELSE SERVICE_CONNECTED
           Hit(s) == EventMatches(records[s], e) /\ (IsLoss(e) \/ Revives(records[s], e))
<1>1. /\ LockFree /\ UNCHANGED <<current, calls>> /\ e \in PeerEvent
      /\ outbox' = {ServiceEventOf(s, kind) : s \in {x \in Services : Hit(x)}}
  BY Zenon DEF ApplyPeerEvent, Notifications, TypeOK
<1>2. kind \in SERVICE_EVENT_TYPES
  BY Zenon DEF SERVICE_EVENT_TYPES
<1>3. ASSUME NEW s \in Services
      PROVE  /\ Hit(s) => Says(s, kind)'
             /\ ~Hit(s) => (Up(s)' <=> Up(s))
  <2>1. records'[s] = IF EventMatches(records[s], e)
                      THEN AppliedRecord(records[s], e) ELSE records[s]
    BY Zenon DEF ApplyPeerEvent
  <2>2. CASE EventMatches(records[s], e)
    <3>1. records[s] \in Record /\ records'[s] = AppliedRecord(records[s], e)
      BY Zenon, <2>1, <2>2 DEF EventMatches, TypeOK
    <3>2. Present(s) /\ Present(s)'
      BY Zenon, <1>1, <3>1, AppliedRecordType, NoRecordNotRecord DEF Present
    <3>3. CASE IsLoss(e)
      <4>1. ~Up(s)'
        BY Zenon, <1>1, <3>1, <3>3, AppliedState DEF Up, STATE_UP, STATE_DOWN, STATE_TIMED_OUT
      <4> QED BY Zenon, <4>1, <2>2, <3>3 DEF Says, SERVICE_CONNECTED, SERVICE_DISCONNECTED
    <3>4. CASE ~IsLoss(e) /\ Revives(records[s], e)
      <4>1. Up(s)'
        BY SMTT(30), <1>1, <3>1, <3>2, <3>4, AppliedState DEF Up
      <4> QED BY Zenon, <4>1, <2>2, <3>4 DEF Says
    <3>5. CASE ~IsLoss(e) /\ ~Revives(records[s], e)
      BY Zenon, <1>1, <3>1, <3>2, <3>5, AppliedState DEF Up
    <3> QED BY Zenon, <3>3, <3>4, <3>5
  <2>3. CASE ~EventMatches(records[s], e)
    BY Zenon, <2>1, <2>3 DEF Up, Present
  <2> QED BY Zenon, <2>2, <2>3
<1>4. \A s \in Services : (Up(s)' <=> Up(s)) \/ \E type \in SERVICE_EVENT_TYPES :
                                /\ ServiceEventOf(s, type) \in outbox'
                                /\ Says(s, type)'
  <2> SUFFICES ASSUME NEW s \in Services, Hit(s)
               PROVE  ServiceEventOf(s, kind) \in outbox' /\ Says(s, kind)'
    BY Zenon, <1>2, <1>3
  <2> HIDE DEF kind, Hit
  <2> QED BY Zenon, <1>1, <1>3
<1>5. \A ev \in outbox' : Says(ev.service_id, ev.event)'
  <2> SUFFICES ASSUME NEW ev \in outbox' PROVE Says(ev.service_id, ev.event)'
    BY Zenon
  <2> HIDE DEF kind, Hit
  <2>1. PICK s \in Services : Hit(s) /\ ev = ServiceEventOf(s, kind)
    BY Zenon, <1>1
  <2>2. ev.service_id = s /\ ev.event = kind
    BY Zenon, <2>1 DEF ServiceEventOf
  <2>3. Says(s, kind)'
    BY Zenon, <1>3, <2>1
  <2> QED BY Zenon, <2>2, <2>3
<1>6. ASSUME NEW r \in Runtimes
      PROVE  \/ /\ view'[r] = view[r]
                /\ \A reg : reg \in registrations' /\ reg.subscriber_runtime_id = r
                            => reg \in registrations
             \/ \A s \in Services : view'[r][s] = NoView
  BY Zenon DEF ApplyPeerEvent, Remaining, TypeOK
<1> QED BY Zenon, <1>1, <1>4, <1>5, <1>6, ViewTransition

\* A change of the registrations forgets what the subscriber was told.
LEMMA ViewRegistrations ==
    ASSUME ViewInv, TypeOK, NEW reg \in Registration,
           RegisterEventNotification(reg) \/ UnregisterEventNotification(reg)
    PROVE  ViewInv'
<1> DEFINE mine == reg.subscriber_runtime_id
<1>1. /\ UNCHANGED <<records, outbox, current, calls>> /\ mine \in Runtimes
      /\ view' = [view EXCEPT ![mine] = [s \in Services |-> NoView]]
      /\ \A x \in registrations' : x \in registrations \/ x = reg
  BY Zenon, ConstantFacts DEF RegisterEventNotification, UnregisterEventNotification, Registration
<1>2. EventsTrue'
  BY Zenon, <1>1 DEF ViewInv, EventsTrue, Says, Up, Present
<1>3. ASSUME NEW r \in Runtimes, NEW s \in Services, NEW type \in SERVICE_EVENT_TYPES
      PROVE  Told(r, s, type)'
  <2>1. CASE r = mine
    <3>1. view'[r][s] = NoView
      BY Zenon, <1>1, <2>1 DEF TypeOK
    <3> QED BY Zenon, <3>1 DEF Told, NoView, SERVICE_EVENT_TYPES, SERVICE_CONNECTED,
                        SERVICE_DISCONNECTED
  <2>2. CASE r # mine
    <3>1. view'[r] = view[r]
      BY Zenon, <1>1, <2>2 DEF TypeOK
    <3>2. Subscribed(r, s, Opposite(type))' => Subscribed(r, s, Opposite(type))
      BY Zenon, <1>1, <2>2 DEF Subscribed
    <3> QED BY Zenon, <1>1, <3>1, <3>2 DEF ViewInv, Told, PendingFor, Says, Up, Present
  <2> QED BY Zenon, <2>1, <2>2
<1> QED BY Zenon, <1>2, <1>3 DEF ViewInv

\* The registrations copied are those of every subscriber that wants the event.
LEMMA ViewPublish ==
    ASSUME ViewInv, TypeOK, NEW ev \in outbox, PublishBegin(ev)
    PROVE  ViewInv'
<1>1. /\ UNCHANGED <<records, registrations, view>> /\ calls = {}
      /\ outbox' = outbox \ {ev} /\ current' = ev
      /\ calls' = {r \in registrations : Wants(r, ev)}
  BY Zenon DEF PublishBegin
<1>2. EventsTrue'
  BY Zenon, <1>1 DEF ViewInv, EventsTrue, Says, Up, Present
<1>3. ASSUME NEW r \in Runtimes, NEW s \in Services, NEW type \in SERVICE_EVENT_TYPES,
             view[r][s] = type, Subscribed(r, s, Opposite(type))
      PROVE  Says(s, type) \/ PendingFor(r, ServiceEventOf(s, Opposite(type)))'
  <2>1. Says(s, type) \/ ServiceEventOf(s, Opposite(type)) \in outbox
    BY Zenon, <1>1, <1>3 DEF ViewInv, Told, PendingFor
  <2>2. ev = ServiceEventOf(s, Opposite(type)) =>
            \E reg \in calls' : reg.subscriber_runtime_id = r
    BY Zenon, <1>1, <1>3 DEF Subscribed
  <2> QED BY Zenon, <1>1, <2>1, <2>2 DEF PendingFor
<1>4. ASSUME NEW r \in Runtimes, NEW s \in Services, NEW type \in SERVICE_EVENT_TYPES
      PROVE  Told(r, s, type)'
  <2>1. Says(s, type)' <=> Says(s, type)
    BY Zenon, <1>1 DEF Says, Up, Present
  <2>2. Subscribed(r, s, Opposite(type))' <=> Subscribed(r, s, Opposite(type))
    BY Zenon, <1>1 DEF Subscribed
  <2> QED BY Zenon, <1>1, <1>3, <2>1, <2>2 DEF Told
<1> QED BY Zenon, <1>2, <1>4 DEF ViewInv

\* A callback tells its subscriber what is true, or leaves it in doubt.
LEMMA ViewCallback ==
    ASSUME ViewInv, TypeOK, NEW reg \in calls,
           CallbackReturns(reg) \/ CallbackFails(reg)
    PROVE  ViewInv'
<1> DEFINE mine == reg.subscriber_runtime_id
           x == current.service_id
<1>1. PICK told \in {current.event, NoView} :
          view' = [view EXCEPT ![mine][x] = told]
  BY Zenon DEF CallbackReturns, CallbackFails
<1>2. /\ UNCHANGED <<records, registrations, outbox, current>>
      /\ calls' = calls \ {reg}
  BY Zenon DEF CallbackReturns, CallbackFails
<1>3. mine \in Runtimes /\ x \in Services /\ current \in ServiceEvent
  BY Zenon, ConstantFacts DEF TypeOK, Registration, ServiceEvent
<1>4. /\ view'[mine][x] = told
      /\ \A r \in Runtimes, s \in Services :
            r # mine \/ s # x => view'[r][s] = view[r][s]
  BY Zenon, <1>1, <1>3 DEF TypeOK
<1>5. \A s, type : Says(s, type)' <=> Says(s, type)
  BY Zenon, <1>2 DEF Says, Up, Present
<1>6. EventsTrue'
  BY Zenon, <1>2, <1>5 DEF ViewInv, EventsTrue
<1>7. ASSUME NEW r \in Runtimes, NEW s \in Services, NEW type \in SERVICE_EVENT_TYPES
      PROVE  Told(r, s, type)'
  <2>1. CASE r = mine /\ s = x
    <3>1. told = type => Says(s, type)
      BY Zenon, <2>1 DEF ViewInv, EventsTrue, NoView, SERVICE_EVENT_TYPES, SERVICE_CONNECTED,
                  SERVICE_DISCONNECTED
    <3> QED BY Zenon, <1>4, <1>5, <2>1, <3>1 DEF Told
  <2>2. CASE r # mine \/ s # x
    <3>1. view'[r][s] = view[r][s]
      BY Zenon, <1>4, <2>2
    <3>2. PendingFor(r, ServiceEventOf(s, Opposite(type)))
          => PendingFor(r, ServiceEventOf(s, Opposite(type)))'
      BY SMTT(30), <1>2, <2>2 DEF PendingFor, ServiceEventOf
    <3> QED BY Zenon, <1>2, <1>5, <3>1, <3>2 DEF ViewInv, Told, Subscribed
  <2> QED BY Zenon, <2>1, <2>2
<1> QED BY Zenon, <1>6, <1>7 DEF ViewInv

\* The events published so far and those still to be published account for
\* what every subscriber was told, through every step.
LEMMA ViewStep ==
    ASSUME TypeOK, TypeOK', LiveNeverExpires, ViewInv, [Next]_vars
    PROVE  ViewInv'
<1>1. ASSUME UNCHANGED <<records, registrations, outbox, current, calls, view>>
      PROVE  ViewInv'
  <2>1. \A s \in Services : Up(s)' <=> Up(s)
    BY Zenon, <1>1 DEF Up, Present
  <2> QED BY Zenon, <1>1, <2>1, ViewFrame
<1>2. ASSUME NEW h \in Handles, PeerReady(h) \/ PeerRemoved(h) PROVE ViewInv'
  BY Zenon, <1>1, <1>2 DEF PeerReady, PeerRemoved, dirVars
<1>3. ASSUME NEW h \in Handles, NEW why, PeerLost(h, why) PROVE ViewInv'
  BY Zenon, <1>1, <1>3 DEF PeerLost, dirVars
<1>4. ASSUME NEW s \in Services, NEW h \in Handles,
             RegisterCheck(s, h) \/ RegisterFails(s, h)
      PROVE  ViewInv'
  BY Zenon, <1>1, <1>4 DEF RegisterCheck, RegisterFails, dirVars
<1>5. ASSUME PurgeExpired PROVE ViewInv'
  <2>1. UNCHANGED <<registrations, outbox, current, calls, view>>
    BY Zenon, <1>5 DEF PurgeExpired
  <2> QED BY Zenon, <1>5, <2>1, PurgeKeepsUp, ViewFrame
<1>6. CASE UNCHANGED vars
  BY Zenon, <1>1, <1>6 DEF vars, dirVars
<1> QED BY Zenon, <1>2, <1>3, <1>4, <1>5, <1>6, ViewRegister, ViewDeregister, ViewApply,
           ViewRegistrations, ViewPublish, ViewCallback DEF Next, Publish

\* Between two transitions no subscriber is left with an event that the
\* records contradict: the callbacks of __publish_service_event are made under
\* the transition lock, so nobody can see a late CONNECTED after a DISCONNECTED.
THEOREM SubscribersAgree == Spec => []SubscriberViewAgrees
<1>1. Init => ViewInv
  <2> SUFFICES ASSUME Init PROVE ViewInv
    BY Zenon
  <2>1. outbox = {} /\ calls = {}
    BY Zenon DEF Init
  <2>2. \A r \in Runtimes, s \in Services : view[r][s] = NoView
    BY Zenon DEF Init
  <2>3. NoView \notin SERVICE_EVENT_TYPES
    BY Zenon DEF NoView, SERVICE_EVENT_TYPES, SERVICE_CONNECTED, SERVICE_DISCONNECTED
  <2> QED BY Zenon, <2>1, <2>2, <2>3 DEF ViewInv, EventsTrue, Told
<1>2. ViewInv => SubscriberViewAgrees
  <2> SUFFICES ASSUME ViewInv, ~Busy, NEW r \in Runtimes, NEW s \in Services
               PROVE  \A type \in SERVICE_EVENT_TYPES :
                          view[r][s] = type /\ Subscribed(r, s, Opposite(type))
                          => Says(s, type)
    BY Zenon DEF SubscriberViewAgrees, SERVICE_EVENT_TYPES, Opposite, Says, Up,
           SERVICE_CONNECTED, SERVICE_DISCONNECTED
  <2>1. outbox = {} /\ calls = {}
    BY Zenon DEF Busy
  <2> QED BY Zenon, <2>1 DEF ViewInv, Told, PendingFor
<1> QED BY <1>1, <1>2, ViewStep, TypeCorrect, LiveServicesNeverExpire, PTL DEF Spec

-----------------------------------------------------------------------------
(***************************************************************************)
(* The inductive invariant.  Timestamps are clock readings of the past; a  *)
(* ready event still to be applied for a lost connection is older than the *)
(* loss; a record that has not seen the loss of its connection (its        *)
(* last_seen is older) has a thread pending that will apply it, and an UP  *)
(* record older than the loss has not seen it.                             *)
(***************************************************************************)
Gone(h) == peer[h] \in {"lost", "removed"}

PastInv ==
    /\ \A e \in threads : /\ e.runtime_id = Owner[e.peer_handle]
                          /\ e.timestamp <= clock
    /\ \A s \in Services : Present(s) =>
          /\ records[s].runtime_id = Owner[records[s].peer_handle]
          /\ records[s].last_seen <= clock /\ 0 < records[s].last_seen
          /\ 0 < records[s].state_changed_at
    /\ \A h \in Handles : /\ lostAt[h] <= clock
                          /\ peer[h] = "unknown" => lostAt[h] = 0

ReadyBeforeLoss ==
    \A e \in threads :
        (e.event_type = "PEER_READY" /\ Gone(e.peer_handle))
        => e.timestamp < lostAt[e.peer_handle]

LossPending(h) ==
    \E e \in threads : /\ IsLoss(e) /\ e.peer_handle = h
                       /\ e.timestamp >= lostAt[h]

UnseenLossPending ==
    \A s \in Services :
        (/\ Present(s) /\ Gone(records[s].peer_handle)
         /\ records[s].last_seen < lostAt[records[s].peer_handle])
        => LossPending(records[s].peer_handle)

UpHasNotSeenLoss ==
    \A s \in Services :
        (/\ Present(s) /\ Gone(records[s].peer_handle)
         /\ records[s].state = STATE_UP
         /\ records[s].state_changed_at <= lostAt[records[s].peer_handle])
        => records[s].last_seen < lostAt[records[s].peer_handle]

LossInv == PastInv /\ ReadyBeforeLoss /\ UnseenLossPending /\ UpHasNotSeenLoss

\* A step that touches none of the variables of LossInv but the clock, and
\* moves that forward, keeps it.
LEMMA LossFrame ==
    ASSUME TypeOK, TypeOK', LossInv, clock' >= clock,
           UNCHANGED <<records, threads, peer, lostAt>>
    PROVE  LossInv'
<1>1. PastInv'
  <2>1. \A e \in threads : e.timestamp \in Nat
    BY Zenon DEF TypeOK, PeerEvent
  <2>2. \A s \in Services : Present(s) => records[s].last_seen \in Nat
    BY Zenon DEF TypeOK, Present, Record
  <2>3. \A h \in Handles : lostAt[h] \in Nat
    BY Zenon DEF TypeOK
  <2>4. clock \in Nat /\ clock' \in Nat
    BY Zenon DEF TypeOK
  <2> QED BY SMTT(30), <2>1, <2>2, <2>3, <2>4 DEF LossInv, PastInv, Present
<1>2. ReadyBeforeLoss' /\ UnseenLossPending' /\ UpHasNotSeenLoss'
  BY Zenon DEF LossInv, ReadyBeforeLoss, UnseenLossPending, UpHasNotSeenLoss,
         LossPending, Gone, Present, IsLoss
<1> QED BY Zenon, <1>1, <1>2 DEF LossInv

\* Losing a connection: its loss is newer than every pending event and every
\* record, and its own thread is pending.
LEMMA LossPeerLost ==
    ASSUME TypeOK, TypeOK', LossInv, NEW h \in Handles, NEW why,
           PeerLost(h, why)
    PROVE  LossInv'
<1> DEFINE e == [event_type |-> "PEER_LOST", peer_handle |-> h,
                 runtime_id |-> Owner[h], reason |-> why, timestamp |-> clock']
<1>1. /\ clock' = clock + 1 /\ threads' = threads \cup {e}
      /\ lostAt' = [lostAt EXCEPT ![h] = clock']
      /\ peer' = [peer EXCEPT ![h] = "lost"] /\ records' = records
  BY Zenon, ClockStep DEF PeerLost, SpawnApply, dirVars
<1>2. \A g \in Handles : /\ g # h => lostAt'[g] = lostAt[g] /\ peer'[g] = peer[g]
                         /\ lostAt'[h] = clock + 1 /\ peer'[h] = "lost"
  BY Zenon, <1>1 DEF TypeOK
<1>3. PastInv'
  <2>1. \A x \in threads' : /\ x.runtime_id = Owner[x.peer_handle]
                            /\ x.timestamp <= clock'
    BY SMTT(30), <1>1, Numbers DEF LossInv, PastInv
  <2>2. \A s \in Services : Present(s)' =>
          /\ records'[s].runtime_id = Owner[records'[s].peer_handle]
          /\ records'[s].last_seen <= clock' /\ 0 < records'[s].last_seen
          /\ 0 < records'[s].state_changed_at
    BY SMTT(30), <1>1, Numbers DEF LossInv, PastInv, Present
  <2>3. \A g \in Handles : /\ lostAt'[g] <= clock'
                           /\ peer'[g] = "unknown" => lostAt'[g] = 0
    BY SMTT(30), <1>1, <1>2, Numbers DEF LossInv, PastInv
  <2> QED BY Zenon, <2>1, <2>2, <2>3 DEF PastInv
<1>4. ReadyBeforeLoss'
  <2> SUFFICES ASSUME NEW x \in threads', x.event_type = "PEER_READY",
                      Gone(x.peer_handle)'
               PROVE  x.timestamp < lostAt'[x.peer_handle]
    BY Zenon DEF ReadyBeforeLoss
  <2>1. x \in threads
    BY SMTT(30), <1>1
  <2>2. CASE x.peer_handle = h
    BY SMTT(30), <2>1, <2>2, <1>2, Numbers DEF LossInv, PastInv
  <2>3. CASE x.peer_handle # h
    BY Zenon, <2>1, <2>3, <1>2, Numbers DEF LossInv, ReadyBeforeLoss, Gone
  <2> QED BY Zenon, <2>2, <2>3
<1>5. UnseenLossPending'
  <2> SUFFICES ASSUME NEW s \in Services, Present(s)',
                      Gone(records[s].peer_handle)',
                      records[s].last_seen < lostAt'[records[s].peer_handle]
               PROVE  LossPending(records[s].peer_handle)'
    BY Zenon, <1>1 DEF UnseenLossPending, Gone, LossPending
  <2>1. Present(s) /\ records[s].peer_handle \in Handles
    BY Zenon, <1>1, Numbers DEF Present
  <2>2. CASE records[s].peer_handle = h
    <3>1. e \in threads' /\ IsLoss(e) /\ e.peer_handle = h
          /\ e.timestamp >= lostAt'[h]
      BY SMTT(30), <1>1, <1>2, Numbers DEF IsLoss
    <3>2. LossPending(h)'
      BY Zenon, <3>1 DEF LossPending, IsLoss
    <3> QED BY Zenon, <3>2, <2>2, <1>1 DEF LossPending
  <2>3. CASE records[s].peer_handle # h
    BY SMTT(30), <2>1, <2>3, <1>1, <1>2
       DEF LossInv, UnseenLossPending, LossPending, Gone, IsLoss
  <2> QED BY Zenon, <2>2, <2>3
<1>6. UpHasNotSeenLoss'
  <2> SUFFICES ASSUME NEW s \in Services, Present(s)',
                      Gone(records[s].peer_handle)',
                      records[s].state = STATE_UP,
                      records[s].state_changed_at
                         <= lostAt'[records[s].peer_handle]
               PROVE  records[s].last_seen < lostAt'[records[s].peer_handle]
    BY Zenon, <1>1 DEF UpHasNotSeenLoss, Gone
  <2>1. Present(s) /\ records[s].peer_handle \in Handles
    BY Zenon, <1>1, Numbers DEF Present
  <2>2. CASE records[s].peer_handle = h
    <3>1. records[s].last_seen <= clock /\ records[s].last_seen \in Nat
      BY Zenon, <2>1, Numbers DEF LossInv, PastInv
    <3>2. lostAt'[h] = clock + 1 /\ clock \in Nat
      BY Zenon, <1>2, Numbers
    <3> QED BY SMTT(30), <2>2, <3>1, <3>2
  <2>3. CASE records[s].peer_handle # h
    BY SMTT(30), <2>1, <2>3, <1>1, <1>2 DEF LossInv, UpHasNotSeenLoss, Gone
  <2> QED BY Zenon, <2>2, <2>3
<1> QED BY Zenon, <1>3, <1>4, <1>5, <1>6 DEF LossInv

\* A connection that becomes ready: no record or event of it is constrained.
LEMMA LossPeerReady ==
    ASSUME TypeOK, TypeOK', LossInv, NEW h \in Handles, PeerReady(h)
    PROVE  LossInv'
<1> DEFINE e == [event_type |-> "PEER_READY", peer_handle |-> h,
                 runtime_id |-> Owner[h], reason |-> "none", timestamp |-> clock']
<1>1. /\ clock' = clock + 1 /\ threads' = threads \cup {e}
      /\ lostAt' = lostAt /\ records' = records
      /\ peer' = [peer EXCEPT ![h] = "ready"]
  BY Zenon, ClockStep DEF PeerReady, SpawnApply, dirVars
<1>2. \A g \in Handles : peer'[g] = IF g = h THEN "ready" ELSE peer[g]
  BY Zenon, <1>1 DEF TypeOK
<1>3. \A g \in Handles : Gone(g)' => g # h /\ Gone(g)
  BY Zenon, <1>2 DEF Gone
<1>4. PastInv'
  BY SMTT(30), <1>1, <1>2, Numbers DEF LossInv, PastInv, Present
<1>5. ReadyBeforeLoss'
  BY SMTT(30), <1>1, <1>3, Numbers DEF LossInv, ReadyBeforeLoss
<1>6. \A g \in Handles : LossPending(g) => LossPending(g)'
  BY Zenon, <1>1 DEF LossPending, IsLoss
<1>7. \A s \in Services : Present(s)' =>
        /\ Present(s) /\ records[s].peer_handle \in Handles
        /\ Gone(records[s].peer_handle)' => Gone(records[s].peer_handle)
  BY SMTT(30), <1>1, <1>2, Numbers DEF Present, Gone
<1>8. UnseenLossPending' /\ UpHasNotSeenLoss'
  BY Zenon, <1>1, <1>6, <1>7
     DEF LossInv, UnseenLossPending, UpHasNotSeenLoss, LossPending, IsLoss
<1> QED BY Zenon, <1>4, <1>5, <1>8 DEF LossInv

\* Removing a connection that is lost already adds an event, newer still.
LEMMA LossPeerRemoved ==
    ASSUME TypeOK, TypeOK', LossInv, NEW h \in Handles, PeerRemoved(h)
    PROVE  LossInv'
<1> DEFINE e == [event_type |-> "PEER_REMOVED", peer_handle |-> h,
                 runtime_id |-> Owner[h], reason |-> "transport-cleanup",
                 timestamp |-> clock']
<1>1. /\ clock' = clock + 1 /\ threads' = threads \cup {e}
      /\ lostAt' = lostAt /\ records' = records
      /\ peer[h] = "lost" /\ peer' = [peer EXCEPT ![h] = "removed"]
  BY Zenon, ClockStep DEF PeerRemoved, SpawnApply, dirVars
<1>2. \A g \in Handles : peer'[g] = IF g = h THEN "removed" ELSE peer[g]
  BY Zenon, <1>1 DEF TypeOK
<1>3. \A g \in Handles : Gone(g)' <=> Gone(g)
  BY Zenon, <1>1, <1>2 DEF Gone
<1>4. PastInv'
  BY SMTT(30), <1>1, <1>2, Numbers DEF LossInv, PastInv, Present
<1>5. ReadyBeforeLoss'
  BY SMTT(30), <1>1, <1>3, Numbers DEF LossInv, ReadyBeforeLoss
<1>6. \A g \in Handles : LossPending(g) => LossPending(g)'
  BY Zenon, <1>1 DEF LossPending, IsLoss
<1>7. \A s \in Services : Present(s)' =>
        /\ Present(s) /\ records[s].peer_handle \in Handles
        /\ Gone(records[s].peer_handle)' => Gone(records[s].peer_handle)
  BY Zenon, <1>1, <1>2, Numbers DEF Present, Gone
<1>8. UnseenLossPending' /\ UpHasNotSeenLoss'
  BY Zenon, <1>1, <1>6, <1>7
     DEF LossInv, UnseenLossPending, UpHasNotSeenLoss, LossPending, IsLoss
<1> QED BY Zenon, <1>4, <1>5, <1>8 DEF LossInv

\* A registration is newer than every loss so far.
LEMMA LossRegister ==
    ASSUME TypeOK, TypeOK', LossInv, NEW s \in Services, NEW h \in Handles,
           RegisterService(s, h)
    PROVE  LossInv'
<1> DEFINE r == RegisteredRecord(records[s], h, clock')
<1>1. /\ clock' = clock + 1 /\ clock' \in Nat
      /\ UNCHANGED <<threads, peer, lostAt>>
      /\ records' = [records EXCEPT ![s] = r]
  BY Zenon, ClockStep DEF RegisterService
<1>2. /\ r.runtime_id = Owner[h] /\ r.peer_handle = h
      /\ r.last_seen = clock' /\ r.state_changed_at = clock'
  BY Zenon DEF RegisteredRecord
<1>3. \A x \in Services : records'[x] = IF x = s THEN r ELSE records[x]
  BY Zenon, <1>1 DEF TypeOK
<1>4. PastInv'
  <2>1. \A x \in Services : Present(x)' =>
          /\ records'[x].runtime_id = Owner[records'[x].peer_handle]
          /\ records'[x].last_seen <= clock' /\ 0 < records'[x].last_seen
          /\ 0 < records'[x].state_changed_at
    BY SMTT(30), <1>1, <1>2, <1>3, Numbers DEF LossInv, PastInv, Present
  <2> QED BY SMTT(30), <2>1, <1>1, Numbers DEF LossInv, PastInv
<1>5. ReadyBeforeLoss'
  BY Zenon, <1>1 DEF LossInv, ReadyBeforeLoss, Gone
<1>6. \A g \in Handles : /\ Gone(g)' <=> Gone(g)
                         /\ LossPending(g)' <=> LossPending(g)
  BY Zenon, <1>1 DEF Gone, LossPending, IsLoss
<1>7. ASSUME NEW x \in Services, Present(x)'
      PROVE  /\ records'[x].last_seen < lostAt[records'[x].peer_handle]
                => x # s
             /\ records'[x].state_changed_at <= lostAt[records'[x].peer_handle]
                => x # s
  <2>1. lostAt[h] <= clock /\ lostAt[h] \in Nat /\ clock \in Nat
    BY Zenon, Numbers DEF LossInv, PastInv
  <2> QED BY SMTT(30), <2>1, <1>1, <1>2, <1>3
<1>8. ASSUME NEW x \in Services, Present(x)', x # s
      PROVE  /\ records'[x] = records[x] /\ Present(x)
             /\ records[x].peer_handle \in Handles
  BY Zenon, <1>3, <1>8, Numbers DEF Present
<1>9. UnseenLossPending'
  BY SMTT(30), <1>1, <1>6, <1>7, <1>8 DEF LossInv, UnseenLossPending, Gone, LossPending, IsLoss
<1>10. UpHasNotSeenLoss'
  BY Zenon, <1>1, <1>6, <1>7, <1>8 DEF LossInv, UpHasNotSeenLoss, Gone
<1> QED BY Zenon, <1>4, <1>5, <1>9, <1>10 DEF LossInv

\* Deregistering keeps last_seen and leaves UP.
LEMMA LossDeregister ==
    ASSUME TypeOK, TypeOK', LossInv, NEW s \in Services, NEW rt, NEW g,
           DeregisterService(s, rt, g)
    PROVE  LossInv'
<1> DEFINE r == DeregisteredRecord(records[s], clock')
<1>1. /\ clock' = clock + 1 /\ clock' \in Nat /\ Present(s)
      /\ UNCHANGED <<threads, peer, lostAt>>
      /\ records' = [records EXCEPT ![s] = r]
  BY Zenon, ClockStep DEF DeregisterService, envVars
<1>2. /\ r.runtime_id = records[s].runtime_id
      /\ r.peer_handle = records[s].peer_handle
      /\ r.last_seen = records[s].last_seen
      /\ r.state_changed_at = clock' /\ r.state # STATE_UP
  <2>1. records[s] \in Record
    BY Zenon, <1>1, Numbers
  <2> QED BY Zenon, <2>1 DEF DeregisteredRecord, Record, STATE_UP, STATE_DEREGISTERED
<1>3. \A x \in Services : records'[x] = IF x = s THEN r ELSE records[x]
  BY Zenon, <1>1 DEF TypeOK
<1>4. \A x \in Services : Present(x)' =>
        /\ Present(x) /\ records[x].peer_handle \in Handles
        /\ records'[x].peer_handle = records[x].peer_handle
        /\ records'[x].runtime_id = records[x].runtime_id
        /\ records'[x].last_seen = records[x].last_seen
        /\ records'[x].state = STATE_UP => records'[x] = records[x]
        /\ records'[x].state_changed_at \in
              {records[x].state_changed_at, clock'}
  BY Zenon, <1>1, <1>2, <1>3, Numbers DEF Present
<1>5. PastInv'
  <2>1. \A x \in Services : Present(x)' =>
          /\ records'[x].runtime_id = Owner[records'[x].peer_handle]
          /\ records'[x].last_seen <= clock' /\ 0 < records'[x].last_seen
          /\ 0 < records'[x].state_changed_at
    BY SMTT(30), <1>1, <1>4, Numbers DEF LossInv, PastInv
  <2> QED BY SMTT(30), <2>1, <1>1, Numbers DEF LossInv, PastInv
<1>6. ReadyBeforeLoss'
  BY Zenon, <1>1 DEF LossInv, ReadyBeforeLoss, Gone
<1>7. \A k \in Handles : /\ Gone(k)' <=> Gone(k)
                         /\ LossPending(k)' <=> LossPending(k)
  BY Zenon, <1>1 DEF Gone, LossPending, IsLoss
<1>8. UnseenLossPending'
  BY SMTT(30), <1>1, <1>4, <1>7 DEF LossInv, UnseenLossPending, Gone, LossPending, IsLoss
<1>9. UpHasNotSeenLoss'
  BY Zenon, <1>1, <1>4, <1>7 DEF LossInv, UpHasNotSeenLoss, Gone
<1> QED BY Zenon, <1>5, <1>6, <1>8, <1>9 DEF LossInv

\* Applying an event: a loss it takes off the pending ones is seen by every
\* record that waited for it, and a ready event never hides a later loss.
LEMMA LossApply ==
    ASSUME TypeOK, TypeOK', LossInv, NEW e \in threads, ApplyPeerEvent(e)
    PROVE  LossInv'
<1>1. /\ UNCHANGED <<clock, peer, lostAt>> /\ threads' = threads \ {e}
      /\ e \in PeerEvent /\ e.peer_handle \in Handles /\ e.timestamp \in Nat
      /\ e.timestamp <= clock /\ e.runtime_id = Owner[e.peer_handle]
  BY Zenon, Numbers DEF ApplyPeerEvent, LossInv, PastInv
<1>2. ASSUME NEW s \in Services, EventMatches(records[s], e)
      PROVE  /\ Present(s) /\ records[s] \in Record
             /\ records[s].peer_handle = e.peer_handle
             /\ records[s].last_seen <= e.timestamp
             /\ records'[s] = AppliedRecord(records[s], e)
  BY Zenon, <1>2, Numbers DEF EventMatches, Present, ApplyPeerEvent
<1>3. ASSUME NEW s \in Services, ~EventMatches(records[s], e)
      PROVE  records'[s] = records[s]
  BY Zenon, <1>3 DEF ApplyPeerEvent
<1>4. ASSUME NEW s \in Services, Present(s)'
      PROVE  /\ Present(s) /\ records[s].peer_handle \in Handles
             /\ records'[s].peer_handle = records[s].peer_handle
             /\ records'[s].runtime_id = records[s].runtime_id
             /\ records'[s].last_seen \in Nat
             /\ records[s].last_seen <= records'[s].last_seen
             /\ records'[s].last_seen <= clock' /\ 0 < records'[s].last_seen
  <2>1. CASE EventMatches(records[s], e)
    BY SMTT(30), <2>1, <1>1, <1>2, AppliedRecordType, Numbers DEF LossInv, PastInv
  <2>2. CASE ~EventMatches(records[s], e)
    BY SMTT(30), <2>2, <1>1, <1>3, <1>4, Numbers DEF Present, LossInv, PastInv
  <2> QED BY Zenon, <2>1, <2>2
<1>5. PastInv'
  <2>1. ASSUME NEW s \in Services, Present(s)'
        PROVE  0 < records'[s].state_changed_at
    <3>1. CASE EventMatches(records[s], e)
      <4>1. 0 < records[s].state_changed_at
        BY Zenon, <1>2, <3>1 DEF LossInv, PastInv
      <4>2. CASE records'[s].state_changed_at = records[s].state_changed_at
        BY Zenon, <4>1, <4>2
      <4>3. CASE records'[s].state_changed_at = e.timestamp
        <5>1. 0 < records[s].last_seen
          BY Zenon, <1>2, <3>1 DEF LossInv, PastInv
        <5> QED BY SMTT(30), <5>1, <4>3, <1>1, <1>2, <3>1, Numbers
      <4> QED BY SMTT(30), <4>2, <4>3, <3>1, <1>1, <1>2, AppliedRecordType
    <3>2. CASE ~EventMatches(records[s], e)
      BY Zenon, <3>2, <1>3, <1>4, <2>1 DEF LossInv, PastInv
    <3> QED BY Zenon, <3>1, <3>2
  <2> QED BY Zenon, <2>1, <1>1, <1>4 DEF LossInv, PastInv
<1>6. ReadyBeforeLoss'
  BY Zenon, <1>1 DEF LossInv, ReadyBeforeLoss, Gone
<1>7. UnseenLossPending'
  <2> SUFFICES ASSUME NEW s \in Services, Present(s)',
                      Gone(records[s].peer_handle)',
                      records'[s].last_seen < lostAt'[records'[s].peer_handle]
               PROVE  LossPending(records[s].peer_handle)'
    BY Zenon DEF UnseenLossPending, Gone, LossPending
  <2> DEFINE h == records[s].peer_handle
  <2>1. /\ Gone(h) /\ h \in Handles /\ lostAt[h] \in Nat
        /\ records[s].last_seen < lostAt[h] /\ Present(s)
        /\ records'[s].last_seen < lostAt[h]
    BY SMTT(30), <1>1, <1>4, Numbers DEF Gone
  <2>2. PICK w \in threads : /\ IsLoss(w) /\ w.peer_handle = h
                             /\ w.timestamp >= lostAt[h]
    BY Zenon, <2>1 DEF LossInv, UnseenLossPending, LossPending
  <2>3. w # e
    <3>1. SUFFICES ASSUME w = e PROVE FALSE
      BY Zenon
    <3>2. EventMatches(records[s], e)
      BY SMTT(30), <3>1, <2>1, <2>2, <1>1, Numbers
         DEF EventMatches, LossInv, PastInv, Present
    <3>3. records'[s].last_seen = e.timestamp
      BY SMTT(30), <3>2, <1>1, <1>2, AppliedRecordType
    <3> QED BY SMTT(30), <3>1, <3>3, <2>1, <2>2, <1>1
  <2>4. w \in threads' /\ lostAt' = lostAt /\ records'[s].peer_handle = h
    BY Zenon, <2>2, <2>3, <1>1, <1>4
  <2> QED BY Zenon, <2>2, <2>4 DEF LossPending, IsLoss
<1>8. UpHasNotSeenLoss'
  <2> SUFFICES ASSUME NEW s \in Services, Present(s)',
                      Gone(records[s].peer_handle)',
                      records'[s].state = STATE_UP,
                      records'[s].state_changed_at
                         <= lostAt'[records'[s].peer_handle]
               PROVE  records'[s].last_seen < lostAt'[records'[s].peer_handle]
    BY Zenon DEF UpHasNotSeenLoss, Gone
  <2>1. CASE EventMatches(records[s], e)
    <3>1. ~IsLoss(e) /\ records'[s].last_seen = e.timestamp
      BY SMTT(30), <2>1, <1>1, <1>2, AppliedRecordType
    <3>2. e.event_type = "PEER_READY"
      BY Zenon, <3>1, <1>1 DEF PeerEvent, IsLoss
    <3>3. Gone(e.peer_handle) /\ records'[s].peer_handle = e.peer_handle
      BY Zenon, <2>1, <1>1, <1>2, <1>4 DEF Gone
    <3> QED BY Zenon, <3>1, <3>2, <3>3, <1>1 DEF LossInv, ReadyBeforeLoss
  <2>2. CASE ~EventMatches(records[s], e)
    BY Zenon, <2>2, <1>1, <1>3, <1>4 DEF LossInv, UpHasNotSeenLoss, Gone
  <2> QED BY Zenon, <2>1, <2>2
<1> QED BY Zenon, <1>5, <1>6, <1>7, <1>8 DEF LossInv

\* The purge only removes records.
LEMMA LossPurge ==
    ASSUME TypeOK, TypeOK', LossInv, PurgeExpired
    PROVE  LossInv'
<1>1. /\ clock' = clock + 1 /\ UNCHANGED <<threads, peer, lostAt>>
      /\ \A s \in Services : records'[s] \in {records[s], NoRecord}
  BY Zenon, ClockStep DEF PurgeExpired, envVars
<1>2. \A s \in Services : Present(s)' => records'[s] = records[s] /\ Present(s)
  BY Zenon, <1>1 DEF Present
<1>3. PastInv'
  BY SMTT(30), <1>1, <1>2, Numbers DEF LossInv, PastInv
<1>4. ReadyBeforeLoss'
  BY Zenon, <1>1 DEF LossInv, ReadyBeforeLoss, Gone
<1>5. UnseenLossPending' /\ UpHasNotSeenLoss'
  BY Zenon, <1>1, <1>2 DEF LossInv, UnseenLossPending, UpHasNotSeenLoss, Gone,
                    LossPending, IsLoss
<1> QED BY Zenon, <1>3, <1>4, <1>5 DEF LossInv

\* Every step keeps the inductive invariant.
LEMMA LossStep == TypeOK /\ TypeOK' /\ LossInv /\ [Next]_vars => LossInv'
<1> SUFFICES ASSUME TypeOK, TypeOK', LossInv, [Next]_vars PROVE LossInv'
  BY Zenon
<1>1. ASSUME NEW h \in Handles, PeerReady(h) \/ PeerRemoved(h) PROVE LossInv'
  BY Zenon, <1>1, LossPeerReady, LossPeerRemoved
<1>2. ASSUME NEW h \in Handles,
             NEW why \in {"heartbeat-timeout", "transport-failure"},
             PeerLost(h, why)
      PROVE  LossInv'
  BY Zenon, <1>2, LossPeerLost
<1>3. ASSUME NEW s \in Services, NEW h \in Handles, RegisterService(s, h)
      PROVE  LossInv'
  BY Zenon, <1>3, LossRegister
<1>4. ASSUME NEW s \in Services, NEW r \in Runtimes, NEW g \in 1..MaxTime,
             DeregisterService(s, r, g)
      PROVE  LossInv'
  BY Zenon, <1>4, LossDeregister
<1>5. ASSUME NEW e \in threads, ApplyPeerEvent(e) PROVE LossInv'
  BY Zenon, <1>5, LossApply
<1>6. ASSUME PurgeExpired PROVE LossInv'
  BY Zenon, <1>6, LossPurge
<1>7. ASSUME \/ \E s \in Services, h \in Handles :
                  RegisterCheck(s, h) \/ RegisterFails(s, h)
             \/ \E reg \in Registration :
                  \/ RegisterEventNotification(reg)
                  \/ UnregisterEventNotification(reg)
             \/ Publish
             \/ UNCHANGED vars
      PROVE  LossInv'
  <2>1. UNCHANGED <<clock, records, threads, peer, lostAt>>
    BY ZenonT(30), <1>7 DEF RegisterCheck, RegisterFails, RegisterEventNotification,
       UnregisterEventNotification, Publish, PublishBegin, CallbackReturns,
       CallbackFails, vars, dirVars, envVars
  <2>2. clock' >= clock
    BY SMTT(30), <2>1, Numbers
  <2> QED BY Zenon, <2>1, <2>2, LossFrame
<1> QED BY Zenon, <1>1, <1>2, <1>3, <1>4, <1>5, <1>6, <1>7 DEF Next

\* No record and no event exists at the start.
LEMMA LossInit == Init => LossInv
<1> SUFFICES ASSUME Init PROVE LossInv
  BY Zenon
<1>1. threads = {} /\ clock = 1 /\ lostAt = [h \in Handles |-> 0]
  BY Zenon DEF Init
<1>2. \A s \in Services : ~Present(s)
  <2>1. records = [s \in Services |-> NoRecord]
    BY Zenon DEF Init
  <2> QED BY Zenon, <2>1 DEF Present
<1>3. \A h \in Handles : lostAt[h] <= clock /\ lostAt[h] = 0
  <2>1. TAKE h \in Handles
  <2>2. lostAt[h] = 0
    BY Zenon, <1>1
  <2> QED BY SMTT(30), <1>1, <2>2
<1>4. PastInv
  BY Zenon, <1>1, <1>2, <1>3 DEF PastInv
<1>5. ReadyBeforeLoss
  BY Zenon, <1>1 DEF ReadyBeforeLoss
<1>6. UnseenLossPending /\ UpHasNotSeenLoss
  BY Zenon, <1>2 DEF UnseenLossPending, UpHasNotSeenLoss
<1> QED BY Zenon, <1>4, <1>5, <1>6 DEF LossInv

\* No order in which the temporary threads run makes the directory miss a loss
\* that happened after the service became UP (Directory.apply_peer_event).
THEOREM LossesAreNotMissed == Spec => []LossNotMissed
<1>1. Init => LossInv
  BY Zenon, LossInit
<1>2. TypeOK /\ LossInv => LossNotMissed
  <2> SUFFICES ASSUME TypeOK, LossInv, NEW s \in Services, Present(s),
                      records[s].state = STATE_UP,
                      peer[records[s].peer_handle] # "ready",
                      records[s].state_changed_at
                         <= lostAt[records[s].peer_handle]
               PROVE  HasLossThread(records[s].peer_handle)
    BY Zenon DEF LossNotMissed
  <2>1. records[s].peer_handle \in Handles
    BY Zenon, Numbers
  <2>2. Gone(records[s].peer_handle)
    <3>1. 0 < lostAt[records[s].peer_handle]
      BY SMTT(30), <2>1, Numbers DEF LossInv, PastInv
    <3> QED BY SMTT(30), <2>1, <3>1 DEF LossInv, PastInv, Gone, TypeOK
  <2> QED BY Zenon, <2>1, <2>2 DEF LossInv, UpHasNotSeenLoss, UnseenLossPending,
             LossPending, HasLossThread
<1> QED BY <1>1, <1>2, LossStep, TypeCorrect, PTL DEF Spec

-----------------------------------------------------------------------------
(* The state of a record is true of its connection.  A record bound to a    *)
(* ready connection either has seen the newest ready event and every loss   *)
(* still to be applied is older, or that event is still to be applied.      *)

IsReady(e) == e.event_type = "PEER_READY"

Newest(e) ==
    \A f \in threads : f.peer_handle = e.peer_handle =>
        f.timestamp <= e.timestamp /\ (IsLoss(f) => f.timestamp < e.timestamp)

ReadyPending(s) ==
    \E e \in threads : /\ IsReady(e) /\ e.peer_handle = records[s].peer_handle
                       /\ e.timestamp >= records[s].last_seen /\ Newest(e)

ReadySeen(s) ==
    /\ records[s].state \notin {STATE_DOWN, STATE_TIMED_OUT}
    /\ \A l \in threads : IsLoss(l) /\ l.peer_handle = records[s].peer_handle
                          => l.timestamp < records[s].last_seen

ReadyInv ==
    \A s \in Services : Present(s) /\ peer[records[s].peer_handle] = "ready" =>
        ReadyPending(s) \/ ReadySeen(s)

(* With one ready event per connection, it is older than every loss of the  *)
(* connection, so a record that lost its endpoint is not revived.           *)

Once == \A h \in Handles : readies[h] <= 1

Unused(h) == /\ peer[h] \notin {"ready", "lost"}
             /\ \A e \in threads : e.peer_handle # h
             /\ \A s \in Services : /\ <<s, h>> \notin handlers
                                    /\ Present(s) => records[s].peer_handle # h

ReadyFirst ==
    \A e, l \in threads :
        IsReady(e) /\ IsLoss(l) /\ e.peer_handle = l.peer_handle
        => e.timestamp < l.timestamp

Unresolvable(s) ==
    /\ records[s].state # STATE_UP
    /\ records[s].state # STATE_DEREGISTERED =>
          \A e \in threads : IsReady(e) /\ e.peer_handle = records[s].peer_handle
                             => e.timestamp < records[s].last_seen

OnceInv ==
    Once => /\ \A h \in Handles : readies[h] = 0 => Unused(h)
            /\ ReadyFirst
            /\ \A s \in Services : Present(s) /\ ~records[s].endpoint
                                   => Unresolvable(s)

\* Records that change in nothing but these fields, and threads that are
\* not added to, keep both.
LEMMA TruthFrame ==
    ASSUME TypeOK, ReadyInv, OnceInv, peer' = peer, readies' = readies,
           threads' = threads, handlers' \subseteq handlers,
           \A s \in Services : Present(s)' => records'[s] = records[s] /\ Present(s)
    PROVE  ReadyInv' /\ OnceInv'
<1>1. ReadyInv'
  <2> SUFFICES ASSUME NEW s \in Services, Present(s)',
                      peer'[records'[s].peer_handle] = "ready"
               PROVE  ReadyPending(s)' \/ ReadySeen(s)'
    BY Zenon DEF ReadyInv
  <2>1. records'[s] = records[s] /\ (ReadyPending(s) \/ ReadySeen(s))
    BY Zenon DEF ReadyInv
  <2> QED BY SMTT(30), <2>1 DEF ReadyPending, ReadySeen, Newest, IsReady, IsLoss
<1>2. OnceInv'
  <2> SUFFICES ASSUME Once' PROVE  /\ \A h \in Handles : readies'[h] = 0 => Unused(h)'
                                   /\ ReadyFirst'
                                   /\ \A s \in Services : Present(s)' /\ ~records'[s].endpoint
                                                          => Unresolvable(s)'
    BY Zenon DEF OnceInv
  <2>1. Once
    BY Zenon DEF Once
  <2>2. ASSUME NEW h \in Handles, readies'[h] = 0 PROVE Unused(h)'
    BY Zenon, <2>1, <2>2 DEF OnceInv, Unused
  <2>3. ReadyFirst'
    BY Zenon, <2>1 DEF OnceInv, ReadyFirst, IsReady, IsLoss
  <2>4. ASSUME NEW s \in Services, Present(s)', ~records'[s].endpoint
        PROVE  Unresolvable(s)'
    BY Zenon, <2>1, <2>4 DEF OnceInv, Unresolvable, IsReady
  <2> QED BY Zenon, <2>2, <2>3, <2>4
<1> QED BY Zenon, <1>1, <1>2

\* A peer event joins the pending ones; it is newer than all of them.
LEMMA TruthPeer ==
    ASSUME TypeOK, TypeOK', PastInv, ReadyInv, OnceInv, NEW h \in Handles,
           NEW e, e \in PeerEvent, e.peer_handle = h, e.timestamp = clock',
           clock' = clock + 1, threads' = threads \cup {e},
           UNCHANGED <<records, handlers>>,
           NEW now \in {"ready", "lost", "removed"}, peer' = [peer EXCEPT ![h] = now],
           \/ /\ now = "ready" /\ IsReady(e) /\ ~IsLoss(e)
              /\ readies' = [readies EXCEPT ![h] = @ + 1]
           \/ /\ now # "ready" /\ IsLoss(e) /\ ~IsReady(e)
              /\ peer[h] \in {"ready", "lost"} /\ readies' = readies
    PROVE  ReadyInv' /\ OnceInv'
<1>1. /\ peer'[h] = now /\ \A g \in Handles \ {h} : peer'[g] = peer[g]
      /\ \A f \in threads : f.timestamp < e.timestamp
      /\ \A s \in Services : Present(s) => records[s].last_seen < e.timestamp
      /\ \A s \in Services : Present(s)' <=> Present(s)
  BY SMTT(30), Numbers DEF TypeOK, PastInv, Present
<1>2. ReadyInv'
  <2> SUFFICES ASSUME NEW s \in Services, Present(s),
                      peer'[records[s].peer_handle] = "ready"
               PROVE  ReadyPending(s)' \/ ReadySeen(s)'
    BY Zenon, <1>1 DEF ReadyInv
  <2>0. records[s].peer_handle \in Handles /\ records[s].last_seen \in Nat
        /\ e.timestamp \in Nat
    BY Zenon, Numbers DEF PeerEvent
  <2>1. CASE records[s].peer_handle = h
    <3>1. IsReady(e) /\ ~IsLoss(e)
      BY Zenon, <1>1, <2>1
    <3>2. \A f \in threads' : f.timestamp <= e.timestamp /\ (IsLoss(f) => f.timestamp < e.timestamp)
      BY SMTT(30), <1>1, <2>0, <3>1, Numbers
    <3>3. Newest(e)'
      BY Zenon, <3>2 DEF Newest, IsLoss
    <3>4. e.timestamp >= records[s].last_seen
      BY SMTT(30), <1>1, <2>0
    <3> QED BY Zenon, <2>1, <3>1, <3>3, <3>4 DEF ReadyPending, IsReady
  <2>2. CASE records[s].peer_handle # h
    <3>1. ReadyPending(s) \/ ReadySeen(s)
      BY Zenon, <1>1, <2>0, <2>2 DEF ReadyInv
    <3>2. ReadySeen(s) => ReadySeen(s)'
      BY Zenon, <2>2 DEF ReadySeen, IsLoss
    <3>3. ASSUME NEW w \in threads, w.peer_handle # h, Newest(w) PROVE Newest(w)'
      BY Zenon, <3>3 DEF Newest, IsLoss
    <3>4. ReadyPending(s) => ReadyPending(s)'
      BY Zenon, <2>2, <3>3 DEF ReadyPending, IsReady
    <3> QED BY Zenon, <3>1, <3>2, <3>4
  <2> QED BY Zenon, <2>1, <2>2
<1>3. OnceInv'
  <2> SUFFICES ASSUME Once' PROVE  /\ \A g \in Handles : readies'[g] = 0 => Unused(g)'
                                   /\ ReadyFirst'
                                   /\ \A s \in Services : Present(s)' /\ ~records'[s].endpoint
                                                          => Unresolvable(s)'
    BY Zenon DEF OnceInv
  <2>1. /\ \A g \in Handles : readies[g] \in Nat /\ readies'[g] \in Nat
        /\ \A g \in Handles : readies[g] <= readies'[g]
        /\ now = "ready" => readies'[h] = readies[h] + 1
    BY SMTT(30) DEF TypeOK
  <2>2. Once
    BY SMTT(30), <2>1 DEF Once
  <2>3. now = "ready" => Unused(h)
    <3>1. now = "ready" => readies[h] = 0
      BY SMTT(30), <2>1 DEF Once
    <3> QED BY Zenon, <2>2, <3>1 DEF OnceInv
  <2>4. readies'[h] # 0
    <3>1. now # "ready" => readies[h] # 0
      BY Zenon, <2>2 DEF OnceInv, Unused
    <3> QED BY SMTT(30), <2>1, <3>1
  <2>5. ASSUME NEW g \in Handles, readies'[g] = 0 PROVE Unused(g)'
    <3>1. g # h /\ readies[g] = 0
      BY SMTT(30), <2>1, <2>4, <2>5
    <3> QED BY Zenon, <1>1, <2>2, <3>1 DEF OnceInv, Unused
  <2>6. ReadyFirst'
    <3> SUFFICES ASSUME NEW x \in threads', NEW l \in threads', IsReady(x), IsLoss(l),
                        x.peer_handle = l.peer_handle
                 PROVE  x.timestamp < l.timestamp
      BY Zenon DEF ReadyFirst, IsReady, IsLoss
    <3>1. CASE x \in threads /\ l \in threads
      BY Zenon, <2>2, <3>1 DEF OnceInv, ReadyFirst
    <3>2. CASE x = e /\ l \in threads
      BY Zenon, <2>3, <3>2 DEF Unused
    <3>3. CASE l = e /\ x \in threads
      BY Zenon, <1>1, <3>3
    <3> QED BY Zenon, <3>1, <3>2, <3>3
  <2>7. ASSUME NEW s \in Services, Present(s)', ~records'[s].endpoint
        PROVE  Unresolvable(s)'
    <3>1. Present(s) /\ Unresolvable(s)
      BY Zenon, <1>1, <2>2, <2>7 DEF OnceInv
    <3>2. IsReady(e) => records[s].peer_handle # h
      BY ZenonT(30), <2>3, <3>1 DEF Unused
    <3> QED BY Zenon, <3>1, <3>2 DEF Unresolvable, IsReady
  <2> QED BY Zenon, <2>5, <2>6, <2>7
<1> QED BY Zenon, <1>2, <1>3

\* Only a peer that is ready is registered for.
LEMMA TruthCheck ==
    ASSUME TypeOK, ReadyInv, OnceInv, NEW x \in Services, NEW h \in Handles,
           RegisterCheck(x, h)
    PROVE  ReadyInv' /\ OnceInv'
<1>1. /\ peer[h] = "ready" /\ handlers' = handlers \cup {<<x, h>>}
      /\ UNCHANGED <<records, threads, peer, readies>>
  BY Zenon DEF RegisterCheck, dirVars
<1>2. ReadyInv'
  BY Zenon, <1>1 DEF ReadyInv, ReadyPending, ReadySeen, Newest, IsReady, IsLoss, Present
<1>3. ASSUME Once, NEW g \in Handles, readies[g] = 0 PROVE Unused(g)'
  <2>1. Unused(g)
    BY Zenon, <1>3 DEF OnceInv
  <2> QED BY Zenon, <1>1, <2>1 DEF Unused, Present
<1>4. OnceInv'
  BY Zenon, <1>1, <1>3 DEF OnceInv, Once, ReadyFirst, Unresolvable, IsReady, IsLoss, Present
<1> QED BY Zenon, <1>2, <1>4

\* A registration is newer than every pending event, and gives an endpoint.
LEMMA TruthRegister ==
    ASSUME TypeOK, TypeOK', PastInv, ReadyInv, OnceInv, NEW x \in Services,
           NEW h \in Handles, RegisterService(x, h)
    PROVE  ReadyInv' /\ OnceInv'
<1> DEFINE r == RegisteredRecord(records[x], h, clock')
<1>1. /\ UNCHANGED <<threads, peer, readies>> /\ <<x, h>> \in handlers
      /\ handlers' \subseteq handlers /\ clock' = clock + 1
      /\ records'[x] = r /\ \A s \in Services \ {x} : records'[s] = records[s]
  BY Zenon, ClockStep DEF RegisterService, TypeOK
<1>2. /\ r.peer_handle = h /\ r.last_seen = clock' /\ r.endpoint
      /\ r.state \notin {STATE_DOWN, STATE_TIMED_OUT}
  BY Zenon DEF RegisteredRecord, STATE_UP, STATE_DOWN, STATE_TIMED_OUT
<1>3. ReadyInv'
  <2> SUFFICES ASSUME NEW s \in Services, Present(s)',
                      peer'[records'[s].peer_handle] = "ready"
               PROVE  ReadyPending(s)' \/ ReadySeen(s)'
    BY Zenon DEF ReadyInv
  <2>1. CASE s = x
    <3>1. clock \in Nat /\ records'[x].last_seen = clock + 1
      BY Zenon, <1>1, <1>2, Numbers
    <3>2. ASSUME NEW l \in threads PROVE l.timestamp < records'[x].last_seen
      <4>1. l.timestamp \in Nat /\ l.timestamp <= clock
        BY ZenonT(30), Numbers DEF PastInv
      <4> QED BY SMTT(30), <3>1, <4>1
    <3> QED BY Zenon, <1>1, <1>2, <2>1, <3>2 DEF ReadySeen
  <2>2. CASE s # x
    <3>1. ReadyPending(s) \/ ReadySeen(s)
      BY Zenon, <1>1, <2>2 DEF ReadyInv, Present
    <3>2. records'[s] = records[s] /\ threads' = threads
      BY Zenon, <1>1, <2>2
    <3>3. ReadySeen(s) => ReadySeen(s)'
      BY Zenon, <3>2 DEF ReadySeen
    <3>4. ReadyPending(s) => ReadyPending(s)'
      BY Zenon, <3>2 DEF ReadyPending, Newest
    <3> QED BY Zenon, <3>1, <3>3, <3>4
  <2> QED BY Zenon, <2>1, <2>2
<1>4. ASSUME Once
      PROVE  /\ \A g \in Handles : readies[g] = 0 => Unused(g)'
             /\ ReadyFirst'
             /\ \A s \in Services : Present(s)' /\ ~records'[s].endpoint => Unresolvable(s)'
  <2>1. ASSUME NEW g \in Handles, readies[g] = 0 PROVE Unused(g)'
    <3>1. Unused(g)
      BY Zenon, <1>4, <2>1 DEF OnceInv
    <3>2. g # h
      BY Zenon, <1>1, <3>1 DEF Unused
    <3> QED BY Zenon, <1>1, <1>2, <3>1, <3>2 DEF Unused, Present
  <2>2. ReadyFirst'
    BY Zenon, <1>1, <1>4 DEF OnceInv, ReadyFirst, IsReady, IsLoss
  <2>3. ASSUME NEW s \in Services, Present(s)', ~records'[s].endpoint PROVE Unresolvable(s)'
    <3>1. s # x /\ records'[s] = records[s] /\ Unresolvable(s)
      BY Zenon, <1>1, <1>2, <1>4, <2>3 DEF OnceInv, Present
    <3> QED BY Zenon, <1>1, <3>1 DEF Unresolvable, IsReady
  <2> QED BY Zenon, <2>1, <2>2, <2>3
<1>5. OnceInv'
  BY ZenonT(30), <1>1, <1>4 DEF OnceInv, Once
<1> QED BY Zenon, <1>3, <1>5

\* Deregistering leaves last_seen and the connection of the record alone.
LEMMA TruthDeregister ==
    ASSUME TypeOK, TypeOK', ReadyInv, OnceInv, NEW x \in Services, NEW rt, NEW g,
           DeregisterService(x, rt, g)
    PROVE  ReadyInv' /\ OnceInv'
<1> DEFINE r == DeregisteredRecord(records[x], clock')
<1>1. /\ UNCHANGED <<threads, peer, readies, handlers>> /\ Present(x)
      /\ records[x] \in Record
      /\ records'[x] = r /\ \A s \in Services \ {x} : records'[s] = records[s]
  BY ZenonT(30), Numbers DEF DeregisterService, TypeOK, envVars
<1>2. /\ r.peer_handle = records[x].peer_handle /\ r.last_seen = records[x].last_seen
      /\ r.state = STATE_DEREGISTERED
  BY Zenon, <1>1 DEF DeregisteredRecord, Record
<1>3. r.state \notin {STATE_DOWN, STATE_TIMED_OUT, STATE_UP}
  BY ZenonT(30), <1>2 DEF STATE_UP, STATE_DOWN, STATE_TIMED_OUT, STATE_DEREGISTERED
<1>4. \A s \in Services : Present(s)' =>
        /\ Present(s) /\ records'[s].peer_handle = records[s].peer_handle
        /\ records'[s].last_seen = records[s].last_seen
        /\ s # x => records'[s] = records[s]
  BY Zenon, <1>1, <1>2 DEF Present
<1>5. ReadyInv'
  <2> SUFFICES ASSUME NEW s \in Services, Present(s)',
                      peer'[records'[s].peer_handle] = "ready"
               PROVE  ReadyPending(s)' \/ ReadySeen(s)'
    BY Zenon DEF ReadyInv
  <2>1. ReadyPending(s) \/ ReadySeen(s)
    BY Zenon, <1>1, <1>4 DEF ReadyInv
  <2>2. records[s].state \notin {STATE_DOWN, STATE_TIMED_OUT}
        => records'[s].state \notin {STATE_DOWN, STATE_TIMED_OUT}
    BY Zenon, <1>1, <1>3, <1>4
  <2>3. ReadyPending(s) => ReadyPending(s)'
    BY SMTT(30), <1>1, <1>4 DEF ReadyPending, Newest, IsReady, IsLoss
  <2>4. ReadySeen(s) => ReadySeen(s)'
    BY Zenon, <1>1, <1>4, <2>2 DEF ReadySeen, IsLoss
  <2> QED BY Zenon, <2>1, <2>3, <2>4
<1>6. ASSUME Once
      PROVE  /\ \A k \in Handles : readies[k] = 0 => Unused(k)'
             /\ ReadyFirst'
             /\ \A s \in Services : Present(s)' /\ ~records'[s].endpoint => Unresolvable(s)'
  <2>1. ASSUME NEW k \in Handles, readies[k] = 0 PROVE Unused(k)'
    BY ZenonT(30), <1>1, <1>4, <1>6, <2>1 DEF OnceInv, Unused
  <2>2. ReadyFirst'
    BY Zenon, <1>1, <1>6 DEF OnceInv, ReadyFirst, IsReady, IsLoss
  <2>3. ASSUME NEW s \in Services, Present(s)', ~records'[s].endpoint PROVE Unresolvable(s)'
    <3>1. CASE s = x
      BY Zenon, <1>1, <1>2, <1>3, <3>1 DEF Unresolvable
    <3>2. CASE s # x
      <4>1. records'[s] = records[s] /\ Unresolvable(s)
        BY Zenon, <1>4, <1>6, <2>3, <3>2 DEF OnceInv
      <4> QED BY Zenon, <1>1, <4>1 DEF Unresolvable, IsReady
    <3> QED BY Zenon, <3>1, <3>2
  <2> QED BY Zenon, <2>1, <2>2, <2>3
<1>7. OnceInv'
  BY Zenon, <1>1, <1>6 DEF OnceInv, Once
<1> QED BY Zenon, <1>5, <1>7

\* Applying an event leaves the endpoint of a record alone.
LEMMA AppliedEndpoint ==
    ASSUME NEW r \in Record, NEW e \in PeerEvent
    PROVE  AppliedRecord(r, e).endpoint = r.endpoint
  BY Zenon DEF AppliedRecord, LostRecord, RevivedRecord, Record

\* Applying an event: a loss does not reach a record that has seen a newer
\* ready event, the ready event that a record waits for makes it UP, and a
\* record without an endpoint has no ready event left that it would match.
LEMMA TruthApply ==
    ASSUME TypeOK, TypeOK', PastInv, ReadyInv, OnceInv, NEW e \in threads,
           ApplyPeerEvent(e)
    PROVE  ReadyInv' /\ OnceInv'
<1>1. /\ UNCHANGED <<peer, readies, handlers>> /\ threads' = threads \ {e}
      /\ e \in PeerEvent /\ e.timestamp \in Nat /\ e.runtime_id = Owner[e.peer_handle]
      /\ IsLoss(e) \/ IsReady(e)
  <2>1. e \in PeerEvent
    BY Zenon, Numbers
  <2>2. IsLoss(e) \/ IsReady(e)
    BY Zenon, <2>1 DEF PeerEvent, IsLoss, IsReady
  <2> QED BY ZenonT(30), <2>1, <2>2, Numbers DEF ApplyPeerEvent, PastInv
<1>2. ASSUME NEW s \in Services, EventMatches(records[s], e)
      PROVE  /\ Present(s) /\ records[s] \in Record
             /\ records[s].peer_handle = e.peer_handle
             /\ records[s].last_seen <= e.timestamp
             /\ records'[s] = AppliedRecord(records[s], e)
             /\ records'[s].peer_handle = records[s].peer_handle
             /\ records'[s].endpoint = records[s].endpoint
             /\ records'[s].last_seen = e.timestamp
  <2>1. /\ Present(s) /\ records[s] \in Record
        /\ records[s].peer_handle = e.peer_handle
        /\ records[s].last_seen <= e.timestamp
        /\ records'[s] = AppliedRecord(records[s], e)
    BY Zenon, <1>2, Numbers DEF EventMatches, Present, ApplyPeerEvent
  <2> QED BY SMTT(30), <1>1, <2>1, AppliedRecordType, AppliedEndpoint
<1>3. ASSUME NEW s \in Services, ~EventMatches(records[s], e)
      PROVE  records'[s] = records[s]
  BY Zenon, <1>3 DEF ApplyPeerEvent
<1>4. ASSUME NEW s \in Services, Present(s)'
      PROVE  /\ Present(s) /\ records[s].last_seen \in Nat
             /\ records'[s].peer_handle = records[s].peer_handle
             /\ records'[s].endpoint = records[s].endpoint
             /\ records[s].runtime_id = Owner[records[s].peer_handle]
  <2>1. CASE EventMatches(records[s], e)
    BY Zenon, <1>2, <2>1, Numbers DEF PastInv
  <2>2. CASE ~EventMatches(records[s], e)
    BY Zenon, <1>3, <1>4, <2>2, Numbers DEF PastInv, Present
  <2> QED BY Zenon, <2>1, <2>2
<1>5. ReadyInv'
  <2> SUFFICES ASSUME NEW s \in Services, Present(s)',
                      peer'[records'[s].peer_handle] = "ready"
               PROVE  ReadyPending(s)' \/ ReadySeen(s)'
    BY Zenon DEF ReadyInv
  <2>1. ReadyPending(s) \/ ReadySeen(s)
    BY Zenon, <1>1, <1>4 DEF ReadyInv
  <2>2. CASE ReadyPending(s)
    <3>1. PICK w \in threads : /\ IsReady(w) /\ w.peer_handle = records[s].peer_handle
                               /\ w.timestamp >= records[s].last_seen /\ Newest(w)
      BY Zenon, <2>2 DEF ReadyPending
    <3>2. w.timestamp \in Nat
      BY Zenon, <3>1, Numbers
    <3>3. CASE w = e
      <4>1. EventMatches(records[s], e)
        BY Zenon, <1>1, <1>4, <3>1, <3>3 DEF EventMatches, Present
      <4>2. ~IsLoss(e)
        BY Zenon, <3>1, <3>3 DEF IsLoss, IsReady
      <4>3. records'[s].state \notin {STATE_DOWN, STATE_TIMED_OUT}
        <5>1. Revives(records[s], e) => records'[s].state = STATE_UP
          BY Zenon, <1>1, <1>2, <4>1, <4>2, AppliedState
        <5>2. ~Revives(records[s], e) => records'[s].state = records[s].state
          BY Zenon, <1>1, <1>2, <4>1, <4>2, AppliedState
        <5>3. ~Revives(records[s], e)
              => records[s].state \notin {STATE_DOWN, STATE_TIMED_OUT}
          BY Zenon, <3>1, <3>3 DEF Revives, IsReady
        <5> QED BY Zenon, <5>1, <5>2, <5>3 DEF STATE_UP, STATE_DOWN, STATE_TIMED_OUT
      <4>4. \A l \in threads' : IsLoss(l) /\ l.peer_handle = records'[s].peer_handle
                                => l.timestamp < records'[s].last_seen
        BY Zenon, <1>1, <1>2, <3>1, <3>3, <4>1 DEF Newest
      <4> QED BY Zenon, <4>3, <4>4 DEF ReadySeen, IsLoss
    <3>4. CASE w # e
      <4>1. w \in threads' /\ Newest(w)'
        BY Zenon, <1>1, <3>1, <3>4 DEF Newest, IsLoss
      <4>2. w.timestamp >= records'[s].last_seen
        BY Zenon, <1>1, <1>2, <1>3, <3>1, <3>2 DEF Newest
      <4> QED BY Zenon, <1>4, <3>1, <4>1, <4>2 DEF ReadyPending, IsReady
    <3> QED BY Zenon, <3>3, <3>4
  <2>3. CASE ReadySeen(s)
    <3>1. CASE EventMatches(records[s], e)
      <4>1. ~IsLoss(e)
        BY SMTT(30), <1>1, <1>2, <1>4, <2>3, <3>1 DEF ReadySeen
      <4>2. records'[s].state = records[s].state
        BY ZenonT(30), <1>1, <1>2, <2>3, <3>1, <4>1, AppliedState DEF ReadySeen, Revives
      <4>3. \A l \in threads : l.timestamp \in Nat
        BY Zenon, Numbers
      <4>4. ASSUME NEW l \in threads', IsLoss(l), l.peer_handle = records'[s].peer_handle
            PROVE  l.timestamp < records'[s].last_seen
        <5>1. l \in threads /\ l.peer_handle = records[s].peer_handle
          BY Zenon, <1>1, <1>4, <4>4
        <5>2. l.timestamp < records[s].last_seen
          BY ZenonT(30), <2>3, <4>4, <5>1 DEF ReadySeen
        <5>3. records[s].last_seen <= records'[s].last_seen
          BY Zenon, <1>2, <3>1
        <5>4. records[s].last_seen \in Nat /\ records'[s].last_seen \in Nat
          BY Zenon, <1>1, <1>2, <1>4, <3>1, Numbers
        <5> QED BY SMTT(30), <4>3, <5>1, <5>2, <5>3, <5>4
      <4> QED BY Zenon, <2>3, <4>2, <4>4 DEF ReadySeen, IsLoss
    <3>2. CASE ~EventMatches(records[s], e)
      BY Zenon, <1>1, <1>3, <2>3, <3>2 DEF ReadySeen, IsLoss
    <3> QED BY Zenon, <3>1, <3>2
  <2> QED BY Zenon, <2>1, <2>2, <2>3
<1>6. ASSUME Once
      PROVE  /\ \A g \in Handles : readies[g] = 0 => Unused(g)'
             /\ ReadyFirst'
             /\ \A s \in Services : Present(s)' /\ ~records'[s].endpoint => Unresolvable(s)'
  <2>1. ASSUME NEW g \in Handles, readies[g] = 0 PROVE Unused(g)'
    <3>1. Unused(g)
      BY Zenon, <1>6, <2>1 DEF OnceInv
    <3> QED BY Zenon, <1>1, <1>4, <3>1 DEF Unused
  <2>2. ReadyFirst'
    BY ZenonT(30), <1>1, <1>6 DEF OnceInv, ReadyFirst, IsReady, IsLoss
  <2>3. ASSUME NEW s \in Services, Present(s)', ~records'[s].endpoint
        PROVE  Unresolvable(s)'
    <3>1. Present(s) /\ Unresolvable(s)
      BY Zenon, <1>4, <1>6, <2>3 DEF OnceInv
    <3>2. CASE EventMatches(records[s], e) /\ IsLoss(e)
      <4>1. records'[s].state # STATE_UP
        BY SMTT(30), <1>1, <1>2, <3>2, AppliedRecordType
      <4>2. \A x \in threads' : IsReady(x) /\ x.peer_handle = records'[s].peer_handle
                                => x.timestamp < records'[s].last_seen
        BY ZenonT(30), <1>1, <1>2, <1>6, <3>2 DEF OnceInv, ReadyFirst
      <4> QED BY Zenon, <4>1, <4>2 DEF Unresolvable, IsReady
    <3>3. CASE EventMatches(records[s], e) /\ ~IsLoss(e)
      <4>1. records[s].state = STATE_DEREGISTERED
        <5>1. records[s].last_seen <= e.timestamp /\ records[s].last_seen \in Nat
              /\ e.peer_handle = records[s].peer_handle
          BY Zenon, <1>2, <1>4, <2>3, <3>3
        <5>2. ~(e.timestamp < records[s].last_seen)
          BY SMTT(30), <1>1, <5>1
        <5> QED BY Zenon, <1>1, <3>1, <3>3, <5>1, <5>2 DEF Unresolvable
      <4>2. ~Revives(records[s], e)
        BY Zenon, <4>1 DEF Revives, STATE_DEREGISTERED, STATE_DOWN, STATE_TIMED_OUT
      <4>3. records'[s].state = STATE_DEREGISTERED
        BY ZenonT(30), <1>1, <1>2, <3>3, <4>1, <4>2, AppliedState
      <4> QED BY Zenon, <4>3 DEF Unresolvable, STATE_DEREGISTERED, STATE_UP
    <3>4. CASE ~EventMatches(records[s], e)
      BY ZenonT(30), <1>1, <1>3, <3>1, <3>4 DEF Unresolvable, IsReady
    <3> QED BY Zenon, <3>2, <3>3, <3>4
  <2> QED BY Zenon, <2>1, <2>2, <2>3
<1>7. OnceInv'
  BY Zenon, <1>1, <1>6 DEF OnceInv, Once
<1> QED BY Zenon, <1>5, <1>7

\* Every step preserves what makes the states true.
LEMMA TruthStep ==
    ASSUME TypeOK, TypeOK', PastInv, ReadyInv, OnceInv, [Next]_vars
    PROVE  ReadyInv' /\ OnceInv'
<1>1. ASSUME NEW h \in Handles, PeerReady(h) PROVE ReadyInv' /\ OnceInv'
  <2> DEFINE e == [event_type |-> "PEER_READY", peer_handle |-> h,
                   runtime_id |-> Owner[h], reason |-> "none", timestamp |-> clock']
  <2>1. /\ clock' = clock + 1 /\ threads' = threads \cup {e}
        /\ UNCHANGED <<records, handlers>> /\ peer' = [peer EXCEPT ![h] = "ready"]
        /\ readies' = [readies EXCEPT ![h] = @ + 1]
    BY Zenon, <1>1, ClockStep DEF PeerReady, SpawnApply, dirVars
  <2>2. e \in PeerEvent
    BY SMTT(30), <2>1, Numbers, ConstantFacts DEF PeerEvent
  <2>3. IsReady(e) /\ ~IsLoss(e) /\ e.peer_handle = h /\ e.timestamp = clock'
    BY Zenon DEF IsReady, IsLoss
  <2> HIDE DEF e
  <2> QED BY ZenonT(30), <2>1, <2>2, <2>3, TruthPeer
<1>2. ASSUME NEW h \in Handles, NEW why \in {"heartbeat-timeout", "transport-failure"},
             PeerLost(h, why)
      PROVE  ReadyInv' /\ OnceInv'
  <2> DEFINE e == [event_type |-> "PEER_LOST", peer_handle |-> h,
                   runtime_id |-> Owner[h], reason |-> why, timestamp |-> clock']
  <2>1. /\ clock' = clock + 1 /\ threads' = threads \cup {e} /\ peer[h] = "ready"
        /\ UNCHANGED <<records, handlers, readies>> /\ peer' = [peer EXCEPT ![h] = "lost"]
    BY Zenon, <1>2, ClockStep DEF PeerLost, SpawnApply, dirVars
  <2>2. e \in PeerEvent
    BY SMTT(30), <2>1, Numbers, ConstantFacts DEF PeerEvent, Reasons
  <2>3. ~IsReady(e) /\ IsLoss(e) /\ e.peer_handle = h /\ e.timestamp = clock'
    BY Zenon DEF IsReady, IsLoss
  <2> HIDE DEF e
  <2> QED BY ZenonT(30), <2>1, <2>2, <2>3, TruthPeer
<1>3. ASSUME NEW h \in Handles, PeerRemoved(h) PROVE ReadyInv' /\ OnceInv'
  <2> DEFINE e == [event_type |-> "PEER_REMOVED", peer_handle |-> h,
                   runtime_id |-> Owner[h], reason |-> "transport-cleanup",
                   timestamp |-> clock']
  <2>1. /\ clock' = clock + 1 /\ threads' = threads \cup {e} /\ peer[h] = "lost"
        /\ UNCHANGED <<records, handlers, readies>>
        /\ peer' = [peer EXCEPT ![h] = "removed"]
    BY Zenon, <1>3, ClockStep DEF PeerRemoved, SpawnApply, dirVars
  <2>2. e \in PeerEvent
    BY SMTT(30), <2>1, Numbers, ConstantFacts DEF PeerEvent, Reasons
  <2>3. ~IsReady(e) /\ IsLoss(e) /\ e.peer_handle = h /\ e.timestamp = clock'
    BY Zenon DEF IsReady, IsLoss
  <2> HIDE DEF e
  <2> QED BY ZenonT(30), <2>1, <2>2, <2>3, TruthPeer
<1>4. ASSUME PurgeExpired PROVE ReadyInv' /\ OnceInv'
  <2>1. /\ UNCHANGED <<threads, peer, readies, handlers>>
        /\ \A s \in Services : records'[s] \in {records[s], NoRecord}
    BY Zenon, <1>4 DEF PurgeExpired, envVars
  <2>2. \A s \in Services : Present(s)' => records'[s] = records[s] /\ Present(s)
    BY Zenon, <2>1 DEF Present
  <2> QED BY Zenon, <2>1, <2>2, TruthFrame
<1>5. ASSUME \/ \E s \in Services, h \in Handles : RegisterFails(s, h)
             \/ \E reg \in Registration :
                  \/ RegisterEventNotification(reg)
                  \/ UnregisterEventNotification(reg)
             \/ Publish
             \/ UNCHANGED vars
      PROVE  ReadyInv' /\ OnceInv'
  <2>1. UNCHANGED <<records, threads, peer, readies>> /\ handlers' \subseteq handlers
    BY ZenonT(30), <1>5 DEF RegisterFails, RegisterEventNotification,
       UnregisterEventNotification, Publish, PublishBegin, CallbackReturns,
       CallbackFails, vars, dirVars, envVars
  <2> QED BY Zenon, <2>1, TruthFrame DEF Present
<1> QED BY Zenon, <1>1, <1>2, <1>3, <1>4, <1>5, TruthCheck, TruthRegister, TruthDeregister,
           TruthApply DEF Next

\* No late event takes down a service whose own connection is ready, and what
\* resolve_services returns can be connected to as long as every connection
\* becomes ready once (Directory.apply_peer_event, deregister_service).
THEOREM RecordsAreTrue == Spec => []StateIsTrue
<1>1. Init => ReadyInv /\ OnceInv
  <2> SUFFICES ASSUME Init PROVE ReadyInv /\ OnceInv
    BY Zenon
  <2>1. threads = {} /\ handlers = {}
    BY Zenon DEF Init
  <2>2. \A s \in Services : ~Present(s)
    BY Zenon DEF Init, Present
  <2>3. \A h \in Handles : peer[h] \notin {"ready", "lost"}
    BY Zenon DEF Init
  <2> QED BY Zenon, <2>1, <2>2, <2>3 DEF ReadyInv, OnceInv, Unused, ReadyFirst
<1>2. LiveNeverExpires /\ ReadyInv /\ OnceInv => StateIsTrue
  <2> SUFFICES ASSUME LiveNeverExpires, ReadyInv, OnceInv PROVE StateIsTrue
    BY Zenon
  <2>1. ASSUME NEW s \in Services, Present(s),
               records[s].state \in {STATE_DOWN, STATE_TIMED_OUT},
               peer[records[s].peer_handle] = "ready"
        PROVE  \E e \in threads : /\ e.event_type = "PEER_READY"
                                  /\ e.peer_handle = records[s].peer_handle
                                  /\ e.timestamp >= records[s].last_seen
    BY Zenon, <2>1 DEF ReadyInv, ReadySeen, ReadyPending, IsReady
  <2>2. ASSUME Once, NEW s \in ResolveServices PROVE records[s].endpoint
    BY Zenon, <2>2 DEF OnceInv, Unresolvable, ResolveServices
  <2> QED BY Zenon, <2>1, <2>2 DEF StateIsTrue, Once
<1>3. Spec => []PastInv
  <2>1. Init => LossInv
    BY Zenon, LossInit
  <2>2. LossInv => PastInv
    BY Zenon DEF LossInv
  <2> QED BY <2>1, <2>2, LossStep, TypeCorrect, PTL DEF Spec
<1> QED BY <1>1, <1>2, <1>3, TruthStep, TypeCorrect, LiveServicesNeverExpire, PTL DEF Spec
=============================================================================
