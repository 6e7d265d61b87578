------------------------------ MODULE Directory ------------------------------
(***************************************************************************)
(* The directory service: the record table of python/infra/defw_directory, *)
(* the RPC handlers of services/svc_dirsvc that feed it, and the threads   *)
(* that hand it peer lifecycle events.                                     *)
(*                                                                         *)
(* A peer handle names one connection (the block uuid of the C agent       *)
(* table); Owner[h] is the runtime (process) at its other end.  The worker *)
(* thread starts one temporary thread per peer event, so the events reach  *)
(* the directory in any order (`threads`).  register_service, deregister_  *)
(* service and apply_peer_event run under the transition lock and hold it  *)
(* while they call the subscribers back one by one; `outbox` and `calls`   *)
(* are what the holder of the lock still has to publish.                   *)
(***************************************************************************)
EXTENDS Integers, FiniteSets

CONSTANTS Services, Runtimes, Handles,
          Owner,         \* [Handles -> Runtimes]
          Groups,        \* the sets of handles that may be used together
          Subscribers,   \* the runtimes that ask for service events
          Filters,       \* the service filters they use
          AnyService,    \* the empty filter
          Retention,     \* DEFAULT_RETENTION_SECONDS
          ReadyPerHandle,\* how often a handle may become ready
          MaxTime        \* bound on the number of clock readings

ASSUME DirectoryAssumption ==
    /\ Owner \in [Handles -> Runtimes] /\ Groups \subseteq SUBSET Handles
    /\ Retention \in Nat \ {0} /\ MaxTime \in Nat
    /\ ReadyPerHandle \in Nat /\ Subscribers \subseteq Runtimes
    /\ AnyService \notin Services /\ Filters \subseteq Services \cup {AnyService}

VARIABLES
    clock,          \* the last time.time() or gettimeofday() reading
    records,        \* Directory.__records
    registrations,  \* Directory.__event_registrations
    outbox,         \* events the lock holder still has to publish
    current,        \* the event whose callbacks are being made
    calls,          \* registrations not yet called for `current`
    threads,        \* temporary threads about to run apply_peer_event
    handlers,       \* register RPCs that passed get_agent, not yet registered
    peer,           \* worker's view of each connection
    readies,        \* how often each handle became ready
    lostAt,         \* time of the first loss event of the handle's last life
    view            \* last event about a service that a subscriber received
                    \* since its registrations last changed

dirVars == <<records, registrations, outbox, current, calls>>
envVars == <<threads, handlers, peer, readies, lostAt>>
vars == <<clock, dirVars, envVars, view>>

STATE_UP == "UP"
STATE_DOWN == "DOWN"
STATE_TIMED_OUT == "TIMED_OUT"
STATE_DEREGISTERED == "DEREGISTERED"
States == {STATE_UP, STATE_DOWN, STATE_TIMED_OUT, STATE_DEREGISTERED}
SERVICE_CONNECTED == "SERVICE_CONNECTED"
SERVICE_DISCONNECTED == "SERVICE_DISCONNECTED"
SERVICE_EVENT_TYPES == {SERVICE_CONNECTED, SERVICE_DISCONNECTED}
Reasons == {"heartbeat-timeout", "transport-failure", "transport-cleanup"}

NoRecord == [state |-> "absent"]
NoDeadline == 0
NoEvent == [event |-> "none"]
NoView == "unknown"

Record == [runtime_id : Runtimes, peer_handle : Handles, generation : Nat,
           endpoint : BOOLEAN, state : States, last_seen : Nat,
           state_changed_at : Nat, retention_deadline : Nat]
PeerEvent == [event_type : {"PEER_READY", "PEER_LOST", "PEER_REMOVED"},
              peer_handle : Handles, runtime_id : Runtimes,
              reason : Reasons \cup {"none"}, timestamp : Nat]
ServiceEvent == [event : SERVICE_EVENT_TYPES, service_id : Services]
Registration == [event_type : SERVICE_EVENT_TYPES,
                 subscriber_runtime_id : Subscribers, filter : Filters]

Present(s) == records[s] # NoRecord

\* The services resolve_services selects from
ResolveServices == {s \in Services : Present(s) /\ records[s].state = STATE_UP}

\* The transition lock is held exactly while something is left to publish.
Busy == outbox # {} \/ calls # {}

\* Mutant: transitions do not wait for the lock.
MutLockFree == TRUE

LockFree == ~Busy

-----------------------------------------------------------------------------
(* What the handlers do to one record. *)

\* Mutant: an inactive record is taken over under its old generation.
MutNextGeneration(r) == IF r = NoRecord THEN 1 ELSE r.generation

\* The generation register_service gives: kept while the same runtime is UP,
\* one more than the inactive record's, 1 for a service never seen.
NextGeneration(r) ==
    IF r = NoRecord THEN 1
    ELSE IF r.state = STATE_UP THEN r.generation ELSE r.generation + 1

RegisteredRecord(r, h, now) ==
    [runtime_id |-> Owner[h], peer_handle |-> h,
     generation |-> NextGeneration(r), endpoint |-> TRUE,
     state |-> STATE_UP, last_seen |-> now, state_changed_at |-> now,
     retention_deadline |-> NoDeadline]

\* deregister_service accepts a record in any state and clears its endpoint.
DeregisteredRecord(r, now) ==
    [r EXCEPT !.state = STATE_DEREGISTERED, !.endpoint = FALSE,
              !.state_changed_at = now,
              !.retention_deadline = now + Retention]

\* Mutants: events are not compared with last_seen, or not with the handle.
MutEventMatchesStale(r, e) ==
    /\ r # NoRecord /\ r.peer_handle = e.peer_handle
    /\ r.runtime_id = e.runtime_id
MutEventMatchesRuntime(r, e) ==
    /\ r # NoRecord /\ r.runtime_id = e.runtime_id
    /\ e.timestamp >= r.last_seen
\* The three filters of the loop in apply_peer_event.
EventMatches(r, e) ==
    /\ r # NoRecord
    /\ r.peer_handle = e.peer_handle
    /\ r.runtime_id = e.runtime_id
    /\ e.timestamp >= r.last_seen

IsLoss(e) == e.event_type \in {"PEER_LOST", "PEER_REMOVED"}

Revives(r, e) == /\ e.event_type = "PEER_READY"
                 /\ r.state \in {STATE_DOWN, STATE_TIMED_OUT}

LossState(e) == IF e.reason = "heartbeat-timeout" THEN STATE_TIMED_OUT
                                                  ELSE STATE_DOWN

LostRecord(r, e) ==
    [r EXCEPT !.state = LossState(e), !.last_seen = e.timestamp,
              !.state_changed_at = e.timestamp,
              !.retention_deadline = e.timestamp + Retention]

RevivedRecord(r, e) ==
    [r EXCEPT !.state = STATE_UP, !.last_seen = e.timestamp,
              !.state_changed_at = e.timestamp,
              !.retention_deadline = NoDeadline]

\* A loss is applied whatever the state, a DEREGISTERED record included.
AppliedRecord(r, e) ==
    IF IsLoss(e) THEN LostRecord(r, e)
    ELSE IF Revives(r, e) THEN RevivedRecord(r, e)
    ELSE [r EXCEPT !.last_seen = e.timestamp]

ServiceEventOf(s, type) == [event |-> type, service_id |-> s]

\* The notifications apply_peer_event collects under the record lock.
Notifications(e) ==
    {ServiceEventOf(s, IF IsLoss(e) THEN SERVICE_DISCONNECTED
                                    ELSE SERVICE_CONNECTED) :
        s \in {x \in Services : /\ EventMatches(records[x], e)
                                /\ IsLoss(e) \/ Revives(records[x], e)}}

\* __event_matches, and the choice of registrations in __publish.
Wants(reg, ev) == /\ reg.event_type = ev.event
                  /\ reg.filter \in {AnyService, ev.service_id}

Expired(r, now) == /\ r # NoRecord
                   /\ r.retention_deadline # NoDeadline
                   /\ r.retention_deadline <= now
-----------------------------------------------------------------------------
Init ==
    /\ clock = 1
    /\ records = [s \in Services |-> NoRecord]
    /\ registrations = {} /\ outbox = {} /\ current = NoEvent /\ calls = {}
    /\ threads = {} /\ handlers = {}
    /\ \E g \in Groups :
          peer = [h \in Handles |-> IF h \in g THEN "unknown" ELSE "removed"]
    /\ readies = [h \in Handles |-> 0]
    /\ lostAt = [h \in Handles |-> 0]
    /\ view = [r \in Runtimes |-> [s \in Services |-> NoView]]

\* Every reading of the clock is later than the one before.
ReadClock == clock < MaxTime /\ clock' = clock + 1

(* The worker thread: apply_event makes the peer callable or not, and a     *)
(* temporary thread is started for Directory.apply_peer_event.              *)
SpawnApply(type, h, why) ==
    threads' = threads \cup
        {[event_type |-> type, peer_handle |-> h, runtime_id |-> Owner[h],
          reason |-> why, timestamp |-> clock']}

PeerReady(h) ==
    /\ peer[h] \in {"unknown", "lost"} /\ readies[h] < ReadyPerHandle
    /\ ReadClock /\ SpawnApply("PEER_READY", h, "none")
    /\ peer' = [peer EXCEPT ![h] = "ready"]
    /\ readies' = [readies EXCEPT ![h] = @ + 1]
    /\ UNCHANGED <<dirVars, handlers, lostAt, view>>

PeerLost(h, why) ==
    /\ peer[h] = "ready"
    /\ ReadClock /\ SpawnApply("PEER_LOST", h, why)
    /\ peer' = [peer EXCEPT ![h] = "lost"]
    /\ lostAt' = [lostAt EXCEPT ![h] = clock']
    /\ UNCHANGED <<dirVars, handlers, readies, view>>

PeerRemoved(h) ==
    /\ peer[h] = "lost"
    /\ ReadClock /\ SpawnApply("PEER_REMOVED", h, "transport-cleanup")
    /\ peer' = [peer EXCEPT ![h] = "removed"]
    /\ UNCHANGED <<dirVars, handlers, readies, lostAt, view>>

\* svc_dirsvc.__register: the caller must be a callable peer; its metadata is
\* then queried over RPC, so the connection may be lost before the next step.
RegisterCheck(s, h) ==
    /\ peer[h] = "ready"
    /\ handlers' = handlers \cup {<<s, h>>}
    /\ UNCHANGED <<clock, dirVars, threads, peer, readies, lostAt, view>>

\* register_service refuses a service that is UP under another runtime.
Conflict(r, h) == r # NoRecord /\ r.state = STATE_UP /\ r.runtime_id # Owner[h]

\* The query of the peer fails, its metadata is incomplete, or
\* register_service raises.
RegisterFails(s, h) ==
    /\ <<s, h>> \in handlers
    /\ handlers' = handlers \ {<<s, h>>}
    /\ UNCHANGED <<clock, dirVars, threads, peer, readies, lostAt, view>>

RegisterService(s, h) ==
    /\ <<s, h>> \in handlers /\ LockFree /\ ~Conflict(records[s], h)
    /\ ReadClock
    /\ handlers' = handlers \ {<<s, h>>}
    /\ records' = [records EXCEPT ![s] = RegisteredRecord(@, h, clock')]
    /\ outbox' = IF Present(s) /\ records[s].state = STATE_UP THEN {}
                 ELSE {ServiceEventOf(s, SERVICE_CONNECTED)}
    /\ UNCHANGED <<registrations, current, calls, threads, peer, readies,
                   lostAt, view>>

DeregisterService(s, runtime, generation) ==
    /\ LockFree /\ Present(s)
    /\ records[s].runtime_id = runtime /\ records[s].generation = generation
    /\ ReadClock
    /\ records' = [records EXCEPT ![s] = DeregisteredRecord(@, clock')]
    /\ outbox' = {ServiceEventOf(s, SERVICE_DISCONNECTED)}
    /\ UNCHANGED <<registrations, current, calls, envVars, view>>

\* __remove_subscriber, called for a loss only.
Remaining(e) == IF IsLoss(e)
                THEN {r \in registrations :
                        r.subscriber_runtime_id # e.runtime_id}
                ELSE registrations

ApplyPeerEvent(e) ==
    /\ e \in threads /\ LockFree
    /\ threads' = threads \ {e}
    /\ registrations' = Remaining(e)
    /\ view' = IF IsLoss(e)
               THEN [view EXCEPT ![e.runtime_id] = [s \in Services |-> NoView]]
               ELSE view
    /\ records' = [s \in Services |->
                     IF EventMatches(records[s], e)
                     THEN AppliedRecord(records[s], e) ELSE records[s]]
    /\ outbox' = Notifications(e)
    /\ UNCHANGED <<clock, current, calls, handlers, peer, readies, lostAt>>

\* resolve_services, query and get_service_generation begin by purging; they
\* take the record lock only, so this may happen during a publication.
PurgeExpired ==
    /\ ReadClock
    /\ \E s \in Services : Expired(records[s], clock')
    /\ records' = [s \in Services |-> IF Expired(records[s], clock')
                                      THEN NoRecord ELSE records[s]]
    /\ UNCHANGED <<registrations, outbox, current, calls, envVars, view>>

RegisterEventNotification(reg) ==
    /\ reg \notin registrations
    /\ \E h \in Handles : /\ Owner[h] = reg.subscriber_runtime_id
                          /\ readies[h] > 0
    /\ registrations' = registrations \cup {reg}
    /\ view' = [view EXCEPT ![reg.subscriber_runtime_id] =
                    [s \in Services |-> NoView]]
    /\ UNCHANGED <<clock, records, outbox, current, calls, envVars>>

UnregisterEventNotification(reg) ==
    /\ reg \in registrations
    /\ registrations' = registrations \ {reg}
    /\ view' = [view EXCEPT ![reg.subscriber_runtime_id] =
                    [s \in Services |-> NoView]]
    /\ UNCHANGED <<clock, records, outbox, current, calls, envVars>>

\* Mutant: the event being published is never finished.
MutPublishForever(ev) ==
    /\ ev \in outbox /\ calls = {}
    /\ current' = ev
    /\ calls' = {r \in registrations : Wants(r, ev)}
    /\ UNCHANGED <<clock, records, registrations, outbox, envVars, view>>

\* __publish_service_event: the registrations are copied, then called.
PublishBegin(ev) ==
    /\ ev \in outbox /\ calls = {}
    /\ outbox' = outbox \ {ev}
    /\ current' = ev
    /\ calls' = {r \in registrations : Wants(r, ev)}
    /\ UNCHANGED <<clock, records, registrations, envVars, view>>

CallbackReturns(reg) ==
    /\ reg \in calls
    /\ calls' = calls \ {reg}
    /\ view' = [view EXCEPT ![reg.subscriber_runtime_id][current.service_id] =
                    current.event]
    /\ UNCHANGED <<clock, records, registrations, outbox, current, envVars>>

\* An exception from callback.put (RPC timeout, peer lost) is only logged.
CallbackFails(reg) ==
    /\ reg \in calls
    /\ calls' = calls \ {reg}
    /\ view' = [view EXCEPT ![reg.subscriber_runtime_id][current.service_id] =
                    NoView]
    /\ UNCHANGED <<clock, records, registrations, outbox, current, envVars>>

Publish == \/ \E ev \in outbox : PublishBegin(ev)
           \/ \E reg \in calls : CallbackReturns(reg) \/ CallbackFails(reg)

Next ==
    \/ \E h \in Handles : PeerReady(h) \/ PeerRemoved(h)
    \/ \E h \in Handles, why \in {"heartbeat-timeout", "transport-failure"} :
            PeerLost(h, why)
    \/ \E s \in Services, h \in Handles :
            RegisterCheck(s, h) \/ RegisterService(s, h) \/ RegisterFails(s, h)
    \/ \E s \in Services, r \in Runtimes, g \in 1..MaxTime :
            DeregisterService(s, r, g)
    \/ \E e \in threads : ApplyPeerEvent(e)
    \/ PurgeExpired
    \/ \E reg \in Registration :
            RegisterEventNotification(reg) \/ UnregisterEventNotification(reg)
    \/ Publish

Spec == Init /\ [][Next]_vars

\* Threads run, and a callback returns or fails within the RPC timeout.
Fairness == /\ WF_vars(Publish)
            /\ WF_vars(\E e \in threads : ApplyPeerEvent(e))
FairSpec == Spec /\ Fairness
-----------------------------------------------------------------------------
(* Properties *)

\* Every variable has the shape the code gives it.
TypeOK ==
    /\ clock \in Nat \ {0}
    /\ records \in [Services -> Record \cup {NoRecord}]
    /\ registrations \subseteq Registration
    /\ outbox \subseteq ServiceEvent
    /\ current \in ServiceEvent \cup {NoEvent}
    /\ calls \subseteq Registration
    /\ calls # {} => current \in ServiceEvent
    /\ threads \subseteq PeerEvent
    /\ handlers \subseteq Services \X Handles
    /\ peer \in [Handles -> {"unknown", "ready", "lost", "removed"}]
    /\ readies \in [Handles -> Nat] /\ lostAt \in [Handles -> Nat]
    /\ view \in [Runtimes -> [Services -> SERVICE_EVENT_TYPES \cup {NoView}]]

\* A record that can be resolved is never dropped by the retention purge, and
\* every record that cannot be resolved is dropped in the end: it has no
\* retention deadline exactly when it is UP, through every order of
\* registrations, deregistrations and peer events.
LiveNeverExpires ==
    \A s \in Services : Present(s) =>
        (records[s].state = STATE_UP <=> records[s].retention_deadline = NoDeadline)

\* A service changes hands only after it stopped being UP and only under a new
\* generation, so (service, generation) names one runtime while the record
\* lasts: what a stale deregistration is recognised by.
GenerationFencing ==
    [][\A s \in Services : (Present(s) /\ Present(s)') =>
          /\ records'[s].generation >= records[s].generation
          /\ (records'[s].runtime_id # records[s].runtime_id) =>
                /\ records[s].state # STATE_UP
                /\ records'[s].generation > records[s].generation]_vars

HasLossThread(h) == \E e \in threads : IsLoss(e) /\ e.peer_handle = h

\* A loss that happened after the service became UP is never missed: while the
\* record is still UP, the thread that will take it down has yet to run, in
\* whatever order the temporary threads run.
LossNotMissed ==
    \A s \in Services :
        (/\ Present(s) /\ records[s].state = STATE_UP
         /\ peer[records[s].peer_handle] # "ready"
         /\ records[s].state_changed_at <= lostAt[records[s].peer_handle])
        => HasLossThread(records[s].peer_handle)

\* The state of a record is true of its connection.  It is taken down only by
\* the loss of the connection it is bound to: no late event of an earlier
\* connection or runtime takes down a service whose own connection is ready
\* (unless its ready event is still to be applied).  And what resolve_services
\* returns can be connected to: a deregistered record, whose endpoint was
\* cleared, never becomes UP again by late peer events.  The second rests on
\* the agent table, which reports READY once per connection: a loss turns a
\* DEREGISTERED record into a DOWN one, which a second READY revives.  And a
\* record that is UP is not up for the retention purge, all others are.
StateIsTrue ==
    /\ LiveNeverExpires
    /\ \A s \in Services :
          (/\ Present(s) /\ records[s].state \in {STATE_DOWN, STATE_TIMED_OUT}
           /\ peer[records[s].peer_handle] = "ready")
          => \E e \in threads : /\ e.event_type = "PEER_READY"
                                /\ e.peer_handle = records[s].peer_handle
                                /\ e.timestamp >= records[s].last_seen
    /\ (\A h \in Handles : readies[h] <= 1) =>
          \A s \in ResolveServices : records[s].endpoint

Subscribed(r, s, type) ==
    \E reg \in registrations : /\ reg.subscriber_runtime_id = r
                               /\ Wants(reg, ServiceEventOf(s, type))

\* Subscribers see transitions in the order they happened: between two
\* transitions, the last event a subscriber received about a service agrees
\* with its record, as long as it is subscribed to the opposite event.
SubscriberViewAgrees ==
    ~Busy => \A r \in Runtimes, s \in Services :
        /\ (view[r][s] = SERVICE_CONNECTED
              /\ Subscribed(r, s, SERVICE_DISCONNECTED))
           => (Present(s) /\ records[s].state = STATE_UP)
        /\ (view[r][s] = SERVICE_DISCONNECTED
              /\ Subscribed(r, s, SERVICE_CONNECTED))
           => ~(Present(s) /\ records[s].state = STATE_UP)

\* Every loss reaches the record table, although its thread competes for the
\* transition lock with registrations and publications.
LossApplied == \A h \in Handles : HasLossThread(h) ~> ~HasLossThread(h)
=============================================================================
