------------------------------ MODULE Discovery ------------------------------
(***************************************************************************)
(* How an application gets from the name of a service to a client of it    *)
(* (python/infra/defw.py, defw_app_util.py, defw_agent_baseapi.py,         *)
(* defw_directory.py and services/svc_dirsvc).                             *)
(*                                                                         *)
(* A service process reads its configuration, loads its service modules    *)
(* and connects to the directory.  A registration asks it over RPC what it *)
(* offers and enters a record per advertisement.  An application resolves  *)
(* filters to bindings, connects to the process of each binding, and makes *)
(* a client.  The process may end at any time and start again at the same  *)
(* address with a new runtime id; registrations and applications run       *)
(* concurrently.                                                           *)
(*                                                                         *)
(* Directory has the life of a record in full and Peers that of the peer   *)
(* table; here a loss takes its records and its peer away in one step.     *)
(***************************************************************************)
EXTENDS Integers, Sequences, SequencesExt, FiniteSets, TLC, Bitwise

CONSTANTS
    Dirs,       \* the directories of services found, in order: [dir, name,
                \* imports, ads: what its classes answer until one raises]
    Regs,       \* calls of register_service
    Apps,       \* applications that connect to a service by name
    Scenarios,  \* [env: the environment of the process, runs: its starts,
                \* context: of each registration, asks: the filters of each
                \* application]
    MaxRuns,    \* starts of the service process, at most
    Timeout     \* rounds of wait_dirsvc, and of the resolve loop

ASSUME DiscoveryAssumption == MaxRuns \in Nat /\ Timeout \in Nat \ {0}

VARIABLES
    scenario,
    proc,       \* the service process: down, up, or aborted
    run,        \* its runtime id: the number of its starts
    n,          \* services.n: where the one iterator over its services is
    dirPeer,    \* a runtime's connection, in the directory's peer table
    appPeer,    \* and in the applications'
    bound,      \* defw.dirsvc of the applications is set
    records,    \* the directory's records
    servicesDb, \* DEFwDirSvc.__services_db: runtime -> [by, info]
    reg,        \* the registrations
    app,        \* the applications
    disturbed   \* registrations whose query met another one, or whose entry
                \* was pruned with its peer connected

procVars == <<scenario, proc, run, n>>
peerVars == <<dirPeer, appPeer, bound>>
dirVars == <<records, servicesDb>>
vars == <<procVars, peerVars, dirVars, reg, app, disturbed>>

Runs == 1..MaxRuns
Empty == <<>>
env == scenario.env
Alive(r) == proc = "up" /\ run = r

-----------------------------------------------------------------------------
(* Configuration and loading                                               *)

\* setup_generic_config_defaults: without a parent in the environment the
\* directory service is disabled, unless the environment decides.
Disabled(e) ==
    \/ e.disable = "yes"
    \/ e.config = "generic" /\ e.disable = "unset" /\ ~e.parent

\* configure_defw finds no configuration, or no parent in it.
ConfigRaises(e) ==
    \/ e.config = "missing"
    \/ e.config = "custom" /\ ~Disabled(e) /\ ~e.parent

\* generate_test_db; this process is not the directory service.
Wanted(d, e) ==
    /\ d.dir \notin e.noinit_load
    /\ e.only_load = {} \/ d.dir \in e.only_load \/ d.dir = "svc_dirsvc"
    /\ d.dir # "svc_dirsvc"

Chosen(e) == SelectSeq(Dirs, LAMBDA d : Wanted(d, e))

\* test_db is a dictionary: a second module of a name takes the place of the
\* first.
AddModule(db, d) ==
    LET i == SelectInSeq(db, LAMBDA x : x.name = d.name)
    IN  IF i = 0 THEN Append(db, d) ELSE [db EXCEPT ![i] = d]

TestDb(e) == FoldLeft(AddModule, Empty, Chosen(e))

Init ==
    /\ scenario \in Scenarios /\ proc = "down" /\ run = 0 /\ n = 0
    /\ dirPeer = [r \in Runs |-> "none"] /\ appPeer = [r \in Runs |-> "none"]
    /\ bound = (scenario.asks = Empty) /\ records = Empty /\ servicesDb = Empty
    /\ reg = [x \in Regs |-> [pc |-> "idle", run |-> 0, by |-> x, live |-> {},
                              ads |-> Empty, again |-> FALSE]]
    /\ app = [a \in Apps |-> [pc |-> "dirsvc", wait |-> 0, todo |-> Empty,
                              conn |-> 0, got |-> Empty]]
    /\ disturbed = {}

\* The start-up of the process: the configuration is read and the modules are
\* imported, and either may raise.
Start ==
    /\ proc = "down" /\ run < scenario.runs
    /\ IF ConfigRaises(env) \/ \E d \in ToSet(Chosen(env)) : ~d.imports
       THEN proc' = "aborted" /\ UNCHANGED <<run, n>>
       ELSE proc' = "up" /\ run' = run + 1 /\ n' = 0
    /\ UNCHANGED <<scenario, peerVars, dirVars, reg, app, disturbed>>

\* The listener connects to the parent.
ConnectDirectory ==
    /\ proc = "up" /\ dirPeer[run] = "none"
    /\ ~Disabled(env) /\ env.parent
    /\ dirPeer' = [dirPeer EXCEPT ![run] = "ready"]
    /\ UNCHANGED <<procVars, appPeer, bound, dirVars, reg, app, disturbed>>

\* The process exits or is killed.
End ==
    /\ proc = "up"
    /\ proc' = "down"
    /\ UNCHANGED <<scenario, run, n, peerVars, dirVars, reg, app, disturbed>>

\* The directory notices: the peer is gone and its records go down.
DirectoryLoss(r) ==
    /\ dirPeer[r] = "ready" /\ ~Alive(r)
    /\ dirPeer' = [dirPeer EXCEPT ![r] = "lost"]
    /\ records' = [s \in DOMAIN records |->
                     [records[s] EXCEPT !.up = @ /\ records[s].runtime_id # r]]
    /\ UNCHANGED <<procVars, appPeer, bound, servicesDb, reg, app, disturbed>>

-----------------------------------------------------------------------------
(* DEFwDirSvc.register_service                                             *)

Move(x, pc) == reg' = [reg EXCEPT ![x].pc = pc]

\* The service asks the directory to register it, from a thread of its own.
Register(x) ==
    /\ x \in DOMAIN scenario.context
    /\ reg[x].pc = "idle" /\ proc = "up" /\ dirPeer[run] = "ready"
    /\ reg' = [reg EXCEPT ![x].pc = "prune", ![x].run = run]
    /\ UNCHANGED <<procVars, peerVars, dirVars, app, disturbed>>

\* __live_agent_ids takes a snapshot of the peer table.
LiveAgents(x) ==
    /\ reg[x].pc = "prune"
    /\ reg' = [reg EXCEPT ![x].pc = "check",
                          ![x].live = {r \in Runs : dirPeer[r] = "ready"}]
    /\ UNCHANGED <<procVars, peerVars, dirVars, app, disturbed>>

\* __prune_db deletes what the snapshot did not have; get_agent must know the
\* peer.
Prune(x) ==
    LET kept == DOMAIN servicesDb \cap reg[x].live IN
    /\ reg[x].pc = "check"
    /\ servicesDb' = [r \in kept |-> servicesDb[r]]
    /\ disturbed' = disturbed \cup
         {y \in Regs : /\ reg[y].pc = "entries" /\ dirPeer[reg[y].run] = "ready"
                       /\ reg[y].run \in DOMAIN servicesDb \ kept}
    /\ Move(x, IF dirPeer[reg[x].run] = "ready" THEN "query" ELSE "raised")
    /\ UNCHANGED <<procVars, peerVars, records, app>>

\* BaseAgentAPI.query in the service process: Suites.__iter__ is the object
\* itself, with its one position.
InQuery(x, r) == reg[x].pc \in {"next", "fetch"} /\ reg[x].run = r

\* Mutant: the position is left where the last query put it.
MutQueryBegin(x) ==
    /\ reg[x].pc = "query" /\ Alive(reg[x].run)
    /\ reg' = [reg EXCEPT ![x].pc = "next", ![x].ads = Empty]
    /\ UNCHANGED <<procVars, peerVars, dirVars, app, disturbed>>

QueryBegin(x) ==
    /\ reg[x].pc = "query" /\ Alive(reg[x].run)
    /\ n' = 0
    /\ reg' = [reg EXCEPT ![x].pc = "next", ![x].ads = Empty]
    /\ LET others == {y \in Regs \ {x} : InQuery(y, reg[x].run)}
       IN  disturbed' = disturbed \cup
                        (IF others = {} THEN {} ELSE others \cup {x})
    /\ UNCHANGED <<scenario, proc, run, peerVars, dirVars, app>>

\* __next__ compares the position with the number of services ...
QueryNext(x) ==
    /\ reg[x].pc = "next" /\ Alive(reg[x].run)
    /\ Move(x, IF n < Len(TestDb(env)) THEN "fetch"
               ELSE IF reg[x].again THEN "refill" ELSE "store")
    /\ UNCHANGED <<procVars, peerVars, dirVars, app, disturbed>>

\* ... and reads it again to index them; the answers of the classes follow.
QueryFetch(x) ==
    /\ reg[x].pc = "fetch" /\ Alive(reg[x].run)
    /\ IF n < Len(TestDb(env))
       THEN /\ n' = n + 1
            /\ reg' = [reg EXCEPT ![x].pc = "next",
                                  ![x].ads = @ \o TestDb(env)[n + 1].ads]
       ELSE Move(x, "raised") /\ UNCHANGED n
    /\ UNCHANGED <<scenario, proc, run, peerVars, dirVars, app, disturbed>>

QueryFails(x) ==
    /\ reg[x].pc \in {"query", "next", "fetch"} /\ ~Alive(reg[x].run)
    /\ Move(x, "raised")
    /\ UNCHANGED <<procVars, peerVars, dirVars, app, disturbed>>

\* __register enters what the query returned.
Store(x) ==
    LET r == reg[x].run
        by == IF r \in DOMAIN servicesDb THEN servicesDb[r].by ELSE x
    IN  /\ reg[x].pc = "store"
        /\ servicesDb' = (r :> [by |-> by, info |-> reg[x].ads]) @@ servicesDb
        /\ Move(x, "entries")
        /\ UNCHANGED <<procVars, peerVars, records, app, disturbed>>

\* __register_directory_entries: the entry may be gone, its information may be
\* another registration's, and an empty one is asked for once more.
Entries(x) ==
    LET r == reg[x].run IN
    /\ reg[x].pc = "entries"
    /\ IF r \notin DOMAIN servicesDb
       THEN Move(x, "returned")
       ELSE IF servicesDb[r].info = Empty
       THEN reg' = [reg EXCEPT ![x].pc = "query", ![x].again = TRUE,
                               ![x].by = servicesDb[r].by]
       ELSE reg' = [reg EXCEPT ![x].pc = "enter", ![x].ads = servicesDb[r].info]
    /\ UNCHANGED <<procVars, peerVars, dirVars, app, disturbed>>

Refill(x) ==
    LET r == reg[x].run IN
    /\ reg[x].pc = "refill"
    /\ servicesDb' = IF r \in DOMAIN servicesDb /\ servicesDb[r].by = reg[x].by
                     THEN [servicesDb EXCEPT ![r].info = reg[x].ads]
                     ELSE servicesDb
    /\ Move(x, "enter")
    /\ UNCHANGED <<procVars, peerVars, records, app, disturbed>>

\* The field, from the first of the dictionaries that has it.
Given(field, dicts, default) ==
    LET i == SelectInSeq(dicts, LAMBDA d : field \in DOMAIN d)
    IN  IF i = 0 THEN default ELSE dicts[i][field]

Properties(ad, context) ==
    Given("properties", <<ad>>, Empty) @@ Given("properties", <<context>>, Empty)

Registrable(ad, context) ==
    /\ Given("service_name", <<context, ad>>, "") # ""
    /\ Given("api_bindings", <<context, ad>>, Empty) # Empty

\* __directory_record, for a runtime on the one node of services.  The bits of
\* qpm_capabilities are treated as those of qpm_type.
DirectoryRecord(ad, context, r) ==
    LET props == Properties(ad, context)
        name == Given("service_name", <<context, ad>>, "")
        bits == Given("qpm_type", <<context, ad, props>>, -1)
    IN  [service_id |-> Given("service_id", <<context, ad, props>>, name),
         service_name |-> name,
         service_type |-> Given("service_type", <<context, ad, props>>, "defw.service"),
         api_bindings |-> Given("api_bindings", <<context, ad>>, Empty),
         selector |-> Given("selector", <<context, ad, props>>, {name}),
         properties |-> IF bits = -1 THEN props ELSE props @@ ("qpm_type" :> bits),
         qpm_type |-> bits, runtime_id |-> r, up |-> TRUE]

\* Directory.register_service for each advertisement in turn; a service_id
\* that another runtime has live is refused.
EnterRecord(x) ==
    /\ reg[x].pc = "enter"
    /\ IF reg[x].ads = Empty
       THEN Move(x, "returned") /\ UNCHANGED records
       ELSE LET ad == Head(reg[x].ads)
                record == DirectoryRecord(ad, scenario.context[x], reg[x].run)
                id == record.service_id
            IN  IF \/ ~Registrable(ad, scenario.context[x])
                   \/ /\ id \in DOMAIN records
                      /\ records[id].up /\ records[id].runtime_id # reg[x].run
                THEN Move(x, "raised") /\ UNCHANGED records
                ELSE /\ records' = (id :> record) @@ records
                     /\ reg' = [reg EXCEPT ![x].ads = Tail(@)]
    /\ UNCHANGED <<procVars, peerVars, servicesDb, app, disturbed>>

-----------------------------------------------------------------------------
(* Directory.resolve_services                                              *)

\* _record_value
RecordValue(record) ==
    IF record.qpm_type # -1 THEN record.qpm_type
    ELSE Given("qpm_type", <<record.properties>>, -1)

\* _bits_match
BitsMatch(bits, requested) ==
    \/ requested = -1
    \/ bits # -1 /\ requested = 0
    \/ bits # -1 /\ bits # 0 /\ (requested & bits) = requested

\* __record_matches; the names and aliases of a selector are compared as its
\* resources are.
RecordMatches(record, filters) ==
    /\ \A field \in {"service_id", "service_name", "service_type"} :
          Given(field, <<filters>>, record[field]) = record[field]
    /\ BitsMatch(RecordValue(record), Given("qpm_type", <<filters>>, -1))
    /\ LET props == Given("properties", <<filters>>, Empty)
       IN  \A key \in DOMAIN props :
              Given(key, <<record.properties>>, "") = props[key]
    /\ "selector_resource" \in DOMAIN filters =>
          filters.selector_resource \in record.selector

\* __binding_matches; the classes of a binding are compared as its name is.
BindingMatches(binding, filters) ==
    Given("binding_name", <<filters>>, binding) = binding

Resolved(filters) ==
    {[service_id |-> p[1], runtime_id |-> records[p[1]].runtime_id,
      binding |-> p[2]] :
        p \in {q \in UNION {{s} \X ToSet(records[s].api_bindings) :
                              s \in DOMAIN records} :
                 /\ records[q[1]].up
                 /\ RecordMatches(records[q[1]], filters)
                 /\ BindingMatches(q[2], filters)}}

-----------------------------------------------------------------------------
(* defw_get_directory_service and defw_connect_service_by_name             *)

Fail(a) == app' = [app EXCEPT ![a].pc = "raised", ![a].got = Empty]

\* bind_dirsvc_peer, once the applications are connected to the directory.
BindDirectory ==
    /\ ~bound /\ bound' = TRUE
    /\ UNCHANGED <<procVars, dirPeer, appPeer, dirVars, reg, app, disturbed>>

\* wait_dirsvc looks once a second.
WaitDirectory(a) ==
    /\ app[a].pc = "dirsvc" /\ a \in DOMAIN scenario.asks
    /\ \/ app[a].wait = Timeout /\ Fail(a)
       \/ /\ app[a].wait < Timeout /\ bound
          /\ app' = [app EXCEPT ![a].pc = "resolve", ![a].wait = 0]
       \/ /\ app[a].wait < Timeout /\ ~bound
          /\ app' = [app EXCEPT ![a].wait = @ + 1]
    /\ UNCHANGED <<procVars, peerVars, dirVars, reg, disturbed>>

\* The loop asks the directory until it has a binding, Timeout times.
Resolve(a) ==
    LET found == Resolved(scenario.asks[a]) IN
    /\ app[a].pc = "resolve"
    /\ \/ app[a].wait = Timeout /\ Fail(a)
       \/ /\ app[a].wait < Timeout /\ found # {}
          /\ app' = [app EXCEPT ![a].pc = "connect", ![a].todo = SetToSeq(found)]
       \/ /\ app[a].wait < Timeout /\ found = {}
          /\ app' = [app EXCEPT ![a].wait = @ + 1]
    /\ UNCHANGED <<procVars, peerVars, dirVars, reg, disturbed>>

\* Mutant: any connection to the endpoint will do.
MutFindBoundAgent(r) == {p \in Runs : appPeer[p] = "ready"}

\* _find_bound_agent, for an endpoint that names a runtime
FindBoundAgent(r) == {p \in Runs : appPeer[p] = "ready" /\ p = r}

Wants(a) == Head(app[a].todo).runtime_id

\* connect_to_binding: a connection to the runtime is used; otherwise the
\* address of the record is connected to, where whatever runs there answers.
Connect(a) ==
    /\ app[a].pc = "connect"
    /\ \/ \E p \in FindBoundAgent(Wants(a)) :
             /\ app' = [app EXCEPT ![a].pc = "client", ![a].conn = p]
             /\ UNCHANGED appPeer
       \/ /\ FindBoundAgent(Wants(a)) = {} /\ proc = "up"
          /\ appPeer' = [appPeer EXCEPT ![run] = IF @ = "none" THEN "pending" ELSE @]
          /\ app' = [app EXCEPT ![a].pc = "wait"]
       \/ /\ FindBoundAgent(Wants(a)) = {} /\ proc # "up"
          /\ Fail(a) /\ UNCHANGED appPeer
    /\ UNCHANGED <<procVars, dirPeer, bound, dirVars, reg, disturbed>>

\* The connection is reported, under the runtime id of who answered.
PeerReady(r) ==
    /\ appPeer[r] = "pending" /\ Alive(r)
    /\ appPeer' = [appPeer EXCEPT ![r] = "ready"]
    /\ UNCHANGED <<procVars, dirPeer, bound, dirVars, reg, app, disturbed>>

PeerLost(r) ==
    /\ appPeer[r] \in {"pending", "ready"} /\ ~Alive(r)
    /\ appPeer' = [appPeer EXCEPT ![r] = "lost"]
    /\ UNCHANGED <<procVars, dirPeer, bound, dirVars, reg, app, disturbed>>

\* _wait_for_bound_agent, with a timeout of five seconds.
WaitForAgent(a) ==
    /\ app[a].pc = "wait"
    /\ \/ \E p \in FindBoundAgent(Wants(a)) :
             app' = [app EXCEPT ![a].pc = "client", ![a].conn = p]
       \/ Fail(a)
    /\ UNCHANGED <<procVars, peerVars, dirVars, reg, disturbed>>

\* The class of the binding is instantiated over the connection, which is
\* looked up again, and the next binding is taken up.
Instantiate(a) ==
    LET p == app[a].conn
        rest == Tail(app[a].todo)
        client == [binding |-> Head(app[a].todo), conn |-> p]
    IN  /\ app[a].pc = "client"
        /\ IF appPeer[p] = "ready" /\ Alive(p)
           THEN app' = [app EXCEPT ![a].pc = IF rest = Empty THEN "returned"
                                             ELSE "connect",
                                   ![a].todo = rest, ![a].got = Append(@, client)]
           ELSE Fail(a)
        /\ UNCHANGED <<procVars, peerVars, dirVars, reg, disturbed>>

-----------------------------------------------------------------------------

RegisterStep(x) ==
    \/ LiveAgents(x) \/ Prune(x) \/ QueryBegin(x) \/ QueryNext(x)
    \/ QueryFetch(x) \/ QueryFails(x) \/ Store(x) \/ Entries(x) \/ Refill(x)
    \/ EnterRecord(x)

ClientStep(a) ==
    WaitDirectory(a) \/ Resolve(a) \/ Connect(a) \/ WaitForAgent(a) \/ Instantiate(a)

Next ==
    \/ Start \/ ConnectDirectory \/ End \/ BindDirectory
    \/ \E r \in Runs : DirectoryLoss(r) \/ PeerReady(r) \/ PeerLost(r)
    \/ \E x \in Regs : Register(x) \/ RegisterStep(x)
    \/ \E a \in Apps : ClientStep(a)

Spec == Init /\ [][Next]_vars

-----------------------------------------------------------------------------
(* Properties. *)

Advertised == UNION {ToSet(TestDb(env)[i].ads) : i \in DOMAIN TestDb(env)}

\* The service has what was asked for: an advertisement's own properties come
\* before those of a registration's context.
Offers(ad, context, filters, binding) ==
    LET asked == Given("properties", <<filters>>, Empty)
        own == Given("properties", <<ad>>, Empty)
        added == Given("properties", <<context>>, Empty)
    IN  /\ \E b \in {ad, context} : "api_bindings" \in DOMAIN b
                                    /\ binding \in ToSet(b.api_bindings)
        /\ filters.service_name \in {Given("service_name", <<b>>, "") :
                                        b \in {ad, context}}
        /\ \A key \in DOMAIN asked :
              \/ key \in DOMAIN own /\ own[key] = asked[key]
              \/ key \notin DOMAIN own /\ key \in DOMAIN added
                 /\ added[key] = asked[key]

\* The clients defw_connect_service_by_name returns are clients of the service
\* the directory named: each talks to the runtime of the record it was resolved
\* from, never to a later process at the same address, and that process loaded a
\* service that advertises the binding and has the properties asked for.
ClientIsRight ==
    \A a \in Apps : \A i \in DOMAIN app[a].got :
       LET client == app[a].got[i] IN
       /\ client.conn = client.binding.runtime_id
       /\ \E ad \in Advertised, x \in DOMAIN scenario.context :
             Offers(ad, scenario.context[x], scenario.asks[a],
                    client.binding.binding)

\* When register_service without a context has returned and the peer is still
\* connected, everything the process advertises is in the directory as a live
\* service of that runtime: unless queries of that process overlapped (they
\* share one iterator and skip services) or the entry was pruned with a stale
\* list of peers.
AdvertisedIsRegistered ==
    \A x \in Regs :
       LET r == reg[x].run IN
       /\ reg[x].pc = "returned" /\ scenario.context[x] = Empty
       /\ dirPeer[r] = "ready" /\ ~\E y \in disturbed : reg[y].run = r
       => \A ad \in Advertised : \E s \in DOMAIN records :
             /\ records[s].up /\ records[s].runtime_id = r
             /\ records[s].service_name = ad.service_name
             /\ ad.api_bindings = records[s].api_bindings
=============================================================================
