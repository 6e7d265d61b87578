------------------------------ MODULE Registry ------------------------------
(***************************************************************************)
(* The objects a process serves.  Every request runs on a thread of its    *)
(* own (handle_rpc_req).  A class_id names one caller's proxy; for a       *)
(* singleton service it is an alias of the one shared object.  The three   *)
(* registries are global_class_db, global_singleton_alias_db and           *)
(* global_singleton_db; each of their helpers holds a lock while it runs,  *)
(* and a request makes several calls to them.  One singleton service is    *)
(* modelled, so global_singleton_db is one entry.                          *)
(***************************************************************************)
EXTENDS Naturals, FiniteSets, Functions

CONSTANTS Shared,      \* class_ids of proxies of the singleton service
          Own,         \* class_ids of proxies of a per_connection service
          Dirsvc,      \* class_ids of proxies of the directory service
          Groups       \* sets of class_ids; a behaviour is about one

Ids == Shared \cup Own \cup Dirsvc
ASSUME IdsAssumption ==
    /\ Shared \cap Own = {} /\ Shared \cap Dirsvc = {} /\ Own \cap Dirsvc = {}
    /\ Groups \subseteq SUBSET Ids

None == 0
DirsvcObject == 1                    \* defw.dirsvc
MaxObjects == Cardinality(Shared \cup Own) + 1   \* at most one per proxy

VARIABLES
    proxy,       \* the caller's BaseRemote
    request,     \* the thread that serves a class_id's request
    held,        \* the object the thread has at hand
    classDb, aliases, singleton,
    objects,     \* objects made so far
    destroyed,   \* class_ids whose caller sent destroy_class
    evicted      \* the singleton service was shut down

dbVars == <<classDb, aliases, singleton, objects, destroyed, evicted>>
vars == <<proxy, request, held, dbVars>>

Init ==
    /\ \E group \in Groups :
          proxy = [i \in Ids |-> IF i \in group THEN "none" ELSE "failed"]
    /\ request = [i \in Ids |-> "none"]
    /\ held = [i \in Ids |-> None]
    /\ classDb = [i \in {} |-> 0] /\ aliases = {} /\ singleton = None
    /\ objects = DirsvcObject /\ destroyed = {} /\ evicted = FALSE

At(i, from, to) == request[i] = from /\ request' = [request EXCEPT ![i] = to]

-----------------------------------------------------------------------------
(* The callers. *)

\* BaseRemote.__init__ sends instantiate_class and waits.
NewProxy(i) ==
    /\ proxy[i] = "none"
    /\ proxy' = [proxy EXCEPT ![i] = "making"]
    /\ At(i, "none", "instantiate")
    /\ UNCHANGED <<held, dbVars>>

\* The response: the constructor returns, or raises what the service raised.
Response(i) ==
    /\ request[i] \in {"ok", "exception"}
    /\ proxy' = [proxy EXCEPT ![i] = IF @ = "making" /\ request[i] = "ok"
                                     THEN "live" ELSE IF @ = "making"
                                     THEN "failed" ELSE @]
    /\ request' = [request EXCEPT ![i] = "none"]
    /\ held' = [held EXCEPT ![i] = None]
    /\ UNCHANGED dbVars

Ask(i, what) ==
    /\ proxy[i] = "live" /\ At(i, "none", what)
    /\ UNCHANGED <<proxy, held, dbVars>>

\* A method; one of them is the service's shutdown.
Method(i) == Ask(i, "method")
Shutdown(i) == i \in Shared /\ Ask(i, "shutdown")
Destroy(i) == Ask(i, "destroy")

\* BaseRemote.__del__: its call of send_req lacks an argument, and the
\* TypeError is caught; nothing is sent.
Del(i) ==
    /\ proxy[i] = "live" /\ request[i] = "none"
    /\ proxy' = [proxy EXCEPT ![i] = "deleted"]
    /\ UNCHANGED <<request, held, dbVars>>

-----------------------------------------------------------------------------
(* handle_rpc_req, one call of a registry helper per step. *)

Made(i) == /\ objects' = objects + 1
           /\ held' = [held EXCEPT ![i] = objects + 1]

\* Mutant: looks the object up and makes it without the lock.
MutGetOrCreate(i) ==
    /\ i \in Shared /\ At(i, "instantiate", "have")
    /\ Made(i)
    /\ singleton' = objects + 1
    /\ UNCHANGED <<proxy, classDb, aliases, destroyed, evicted>>

\* get_or_create_singleton_instance, the factory included.
GetOrCreate(i) ==
    /\ i \in Shared /\ At(i, "instantiate", "have")
    /\ IF singleton # None
       THEN /\ held' = [held EXCEPT ![i] = singleton]
            /\ UNCHANGED <<singleton, objects>>
       ELSE Made(i) /\ singleton' = objects + 1
    /\ UNCHANGED <<proxy, classDb, aliases, destroyed, evicted>>

\* A class_id that is not known gets an object of its own.
Construct(i) ==
    /\ i \in Own /\ i \notin DOMAIN classDb
    /\ At(i, "instantiate", "have")
    /\ Made(i)
    /\ UNCHANGED <<proxy, classDb, aliases, singleton, destroyed, evicted>>

\* The constructor raises; the exception is the response.
FactoryRaises(i) ==
    /\ i \in Own \/ (i \in Shared /\ singleton = None)
    /\ At(i, "instantiate", "exception")
    /\ UNCHANGED <<proxy, held, dbVars>>

\* The directory service always serves defw.dirsvc.
UseDirsvc(i) ==
    /\ i \in Dirsvc /\ At(i, "instantiate", "have")
    /\ held' = [held EXCEPT ![i] = DirsvcObject]
    /\ UNCHANGED <<proxy, dbVars>>

\* add_to_class_db, after has_class_entry.  A caller makes up its class_id, so
\* nobody else binds it.
AddToClassDb(i) ==
    /\ i \notin DOMAIN classDb
    /\ classDb' = [j \in DOMAIN classDb \cup {i} |->
                       IF j = i THEN held[i] ELSE classDb[j]]

\* bind_singleton_alias for a singleton, else add_to_class_db alone.
Bind(i) ==
    /\ At(i, "have", "ok")
    /\ AddToClassDb(i)
    /\ aliases' = IF i \in Shared THEN aliases \cup {i} ELSE aliases
    /\ UNCHANGED <<proxy, held, singleton, objects, destroyed, evicted>>

\* The request once its object is found.
Running == [method |-> "in method", shutdown |-> "in shutdown",
            destroy |-> "in destroy"]

\* Mutant: the entry is popped, not read.
MutFind(i) ==
    /\ request[i] \in DOMAIN Running /\ i \in DOMAIN classDb
    /\ request' = [request EXCEPT ![i] = Running[@]]
    /\ held' = [held EXCEPT ![i] = classDb[i]]
    /\ classDb' = Restrict(classDb, DOMAIN classDb \ {i})
    /\ UNCHANGED <<proxy, aliases, singleton, objects, destroyed, evicted>>

\* get_class_from_db at the start of a method or of destroy_class; the
\* directory service destroys without looking.
Find(i) ==
    /\ request[i] \in DOMAIN Running
    /\ IF i \in DOMAIN classDb \/ (i \in Dirsvc /\ request[i] = "destroy")
       THEN /\ request' = [request EXCEPT ![i] = Running[@]]
            /\ held' = [held EXCEPT ![i] = IF i \in DOMAIN classDb
                                           THEN classDb[i] ELSE None]
       ELSE /\ request' = [request EXCEPT ![i] = "exception"]
            /\ UNCHANGED held
    /\ UNCHANGED <<proxy, dbVars>>

Return(i) ==
    /\ At(i, "in method", "ok")
    /\ UNCHANGED <<proxy, held, dbVars>>

\* del_entry_from_class_db: the class_id goes, a shared object stays.
DelEntry(i) ==
    /\ At(i, "in destroy", "ok")
    /\ classDb' = Restrict(classDb, DOMAIN classDb \ {i})
    /\ aliases' = aliases \ {i} /\ destroyed' = destroyed \cup {i}
    /\ UNCHANGED <<proxy, held, singleton, objects, evicted>>

\* shutdown_service_instance evicts what its class's name stands for.
Evict(i) ==
    /\ At(i, "in shutdown", "ok")
    /\ singleton' = None
    /\ classDb' = Restrict(classDb, DOMAIN classDb \ aliases)
    /\ aliases' = {} /\ evicted' = TRUE
    /\ UNCHANGED <<proxy, held, objects, destroyed>>

Serve(i) == \/ GetOrCreate(i) \/ Construct(i) \/ FactoryRaises(i) \/ UseDirsvc(i)
            \/ Bind(i) \/ Find(i) \/ Return(i) \/ DelEntry(i) \/ Evict(i)

Next == \E i \in Ids : \/ NewProxy(i) \/ Response(i) \/ Method(i) \/ Shutdown(i)
                       \/ Destroy(i) \/ Del(i) \/ Serve(i)

Spec == Init /\ [][Next]_vars

-----------------------------------------------------------------------------
(* Properties. *)

\* Shapes of the registries and of the requests.
TypeOK ==
    /\ proxy \in [Ids -> {"none", "making", "live", "failed", "deleted"}]
    /\ request \in [Ids -> {"none", "instantiate", "have", "ok", "exception",
                            "method", "shutdown", "destroy", "in method",
                            "in shutdown", "in destroy"}]
    /\ held \in [Ids -> 0 .. MaxObjects] /\ objects \in 1 .. MaxObjects
    /\ DOMAIN classDb \subseteq Ids /\ singleton \in 0 .. objects
    /\ \A i \in DOMAIN classDb : classDb[i] \in 1 .. objects
    /\ aliases \subseteq Shared /\ destroyed \subseteq Ids /\ evicted \in BOOLEAN

\* "all callers for the same service module and class share one server-side
\* Python object" (README, singleton): every alias stands for the object a new
\* caller would get, until the service is shut down, and the alias registry
\* names exactly the singleton's class_ids that are bound, whatever mix of
\* binds, destroys and evictions led there.
OneSharedObject ==
    /\ aliases = DOMAIN classDb \cap Shared
    /\ ~evicted => \A i \in aliases : classDb[i] = singleton

\* A caller whose constructor returned can call methods: the class_id it was
\* given is bound, unless it sent destroy_class itself or its service was shut
\* down, whatever the other callers do.
LiveIsBound ==
    \A i \in Ids : proxy[i] = "live" =>
        i \in DOMAIN classDb \/ i \in destroyed \/ (i \in Shared /\ evicted)

=============================================================================
