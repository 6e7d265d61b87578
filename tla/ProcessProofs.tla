--------------------------- MODULE ProcessProofs ----------------------------
(***************************************************************************)
(* The registries of served objects, for any number of proxies and of      *)
(* interleaved requests.                                                   *)
(*                                                                         *)
(* A request makes several calls to the registries, and what it holds      *)
(* between two of them is what the properties do not mention: SharedInv    *)
(* says that a request between get_or_create_singleton_instance and        *)
(* bind_singleton_alias holds the object of the singleton registry, and    *)
(* MakingInv that a constructor is answered "ok" only after its class_id   *)
(* was bound.                                                              *)
(*                                                                         *)
(* The services an application spawns, for any number of them: every step  *)
(* of a spawn and of a shutdown has to leave a running daemon to somebody  *)
(* (RunningIsOwned), for which ServicesInv says which services have a      *)
(* handle, which launcher has forked, and that a handle without a pid is   *)
(* the handle of a daemon that ends.                                       *)
(*                                                                         *)
(* The processes of a launcher service, for any number of them:            *)
(* EveryoneAccounted rests on what a pid stands for.  The system gives one *)
(* out again once its process was waited for, so that an entry of the      *)
(* table may be replaced; OwnPidInv says that this never happens to the    *)
(* entry of a process that still runs.                                     *)
(*                                                                         *)
(* The event queue, for any set of events: QueueInv says how many bytes of *)
(* the pipe are missing or left over while a call is inside the lock.      *)
(***************************************************************************)
EXTENDS Registry, EventsInstance, ServicesInstance, LauncherInstance, TLAPS

Requests == {"none", "instantiate", "have", "ok", "exception", "method", "shutdown",
             "destroy", "in method", "in shutdown", "in destroy"}

Shapes ==
    /\ proxy \in [Ids -> {"none", "making", "live", "failed", "deleted"}]
    /\ request \in [Ids -> Requests]
    /\ held \in [Ids -> Nat] /\ objects \in Nat \ {0} /\ singleton \in Nat
    /\ DOMAIN classDb \subseteq Ids /\ destroyed \subseteq Ids
    /\ \A i \in DOMAIN classDb : classDb[i] \in Nat

\* The class_ids of the singleton stand for one object, and so does what a
\* request that has yet to bind its class_id holds.
SharedInv ==
    /\ aliases = DOMAIN classDb \cap Shared
    /\ ~evicted => \A i \in Shared :
           i \in DOMAIN classDb \/ request[i] = "have" =>
               /\ singleton # None
               /\ i \in DOMAIN classDb => classDb[i] = singleton
               /\ request[i] = "have" => held[i] = singleton

\* The class_id is bound, or what unbound it is known.
Bound(i) == i \in DOMAIN classDb \/ i \in destroyed \/ (i \in Shared /\ evicted)

\* The constructor's request is the only one of its proxy.
Making == {"instantiate", "have"}
MakingInv ==
    \A i \in Ids :
        /\ request[i] \in Making => proxy[i] = "making"
        /\ proxy[i] = "making" => request[i] \in Making \cup {"ok", "exception"}
        /\ proxy[i] = "making" /\ request[i] = "ok" => Bound(i)

RegistryInv == Shapes /\ SharedInv /\ MakingInv /\ LiveIsBound

-----------------------------------------------------------------------------

\* What add_to_class_db does to the class_ids.
LEMMA Added ==
    ASSUME NEW i, AddToClassDb(i)
    PROVE  /\ i \notin DOMAIN classDb /\ DOMAIN classDb' = DOMAIN classDb \cup {i}
           /\ classDb'[i] = held[i]
           /\ \A j \in DOMAIN classDb : classDb'[j] = classDb[j]
  BY Zenon DEF AddToClassDb

\* The state of an object during each kind of call.
LEMMA RunningStates ==
    /\ Running["method"] = "in method" /\ Running["shutdown"] = "in shutdown"
    /\ Running["destroy"] = "in destroy"
  BY Zenon DEF Running

\* No class is registered and no proxy exists at the start.
LEMMA RegistryInit == ASSUME Init PROVE RegistryInv
<1>1. DOMAIN classDb = {} /\ aliases = {}
  BY Zenon DEF Init
<1>2. Shapes
  <2>1. PICK group \in Groups :
             proxy = [i \in Ids |-> IF i \in group THEN "none" ELSE "failed"]
    BY Zenon DEF Init
  <2> QED BY SMTT(30), <1>1, <2>1 DEF Init, Shapes, None, DirsvcObject, Requests
<1>3. \A i \in Ids : request[i] = "none" /\ proxy[i] \in {"none", "failed"}
  BY Zenon DEF Init
<1>4. SharedInv
  BY Zenon, <1>1, <1>3 DEF SharedInv, Ids
<1>5. MakingInv /\ LiveIsBound
  BY Zenon, <1>3 DEF MakingInv, LiveIsBound, Making
<1> QED BY Zenon, <1>2, <1>4, <1>5 DEF RegistryInv

\* Every step preserves the shapes.
LEMMA ShapesNext == ASSUME Shapes, [Next]_vars PROVE Shapes'
<1> USE DEF dbVars
<1>1. CASE UNCHANGED vars
  BY Zenon, <1>1 DEF vars, Shapes
<1>2. ASSUME NEW i \in Ids, NewProxy(i) \/ Method(i) \/ Shutdown(i) \/ Destroy(i) \/ Del(i)
      PROVE  Shapes'
  BY Zenon, <1>2 DEF NewProxy, Method, Shutdown, Destroy, Del, Ask, At, Shapes, Requests
<1>3. ASSUME NEW i \in Ids, Response(i) PROVE Shapes'
  BY Zenon, <1>3 DEF Response, Shapes, None, Requests
<1>4. ASSUME NEW i \in Ids, GetOrCreate(i) \/ Construct(i) PROVE Shapes'
  <2>1. /\ request' \in [Ids -> Requests]
        /\ proxy' = proxy /\ classDb' = classDb /\ destroyed' = destroyed
    BY Zenon, <1>4 DEF GetOrCreate, Construct, At, Shapes, Requests
  <2>2. objects \in Nat
    BY Zenon DEF Shapes
  <2>4. objects + 1 \in Nat /\ objects + 1 # 0
    BY SMTT(30), <2>2
  <2>3. held' \in [Ids -> Nat] /\ objects' \in Nat \ {0} /\ singleton' \in Nat
    BY SMTT(30), <1>4, <2>4 DEF GetOrCreate, Construct, Made, Shapes
  <2> QED BY Zenon, <2>1, <2>3 DEF Shapes
<1>5. ASSUME NEW i \in Ids, FactoryRaises(i) \/ UseDirsvc(i) \/ Return(i) PROVE Shapes'
  <2>1. request' \in [Ids -> Requests] /\ UNCHANGED <<proxy, dbVars>>
    BY Zenon, <1>5 DEF FactoryRaises, UseDirsvc, Return, At, Shapes, Requests
  <2>2. held' \in [Ids -> Nat]
    <3>1. held' = held \/ held' = [held EXCEPT ![i] = 1]
      BY Zenon, <1>5 DEF FactoryRaises, UseDirsvc, Return, DirsvcObject
    <3>2. held \in [Ids -> Nat]
      BY Zenon DEF Shapes
    <3> QED BY SMTT(30), <3>1, <3>2
  <2> QED BY Zenon, <2>1, <2>2 DEF Shapes
<1>6. ASSUME NEW i \in Ids, Bind(i) PROVE Shapes'
  <2>1. /\ DOMAIN classDb' \subseteq Ids
        /\ \A j \in DOMAIN classDb' : classDb'[j] \in Nat
    <3>1. /\ DOMAIN classDb' = DOMAIN classDb \cup {i} /\ classDb'[i] = held[i]
          /\ \A j \in DOMAIN classDb : classDb'[j] = classDb[j]
      BY Zenon, <1>6, Added DEF Bind
    <3>2. held[i] \in Nat
      BY Zenon DEF Shapes
    <3> QED BY Zenon, <3>1, <3>2 DEF Shapes
  <2> QED BY Zenon, <1>6, <2>1 DEF Bind, At, Shapes, Requests
<1>7. ASSUME NEW i \in Ids, Find(i) PROVE Shapes'
  <2>1. request' \in [Ids -> Requests]
    <3>1. request[i] \in {"method", "shutdown", "destroy"} => Running[request[i]] \in Requests
      BY Zenon, RunningStates DEF Requests
    <3>2. request[i] \in {"method", "shutdown", "destroy"}
      BY Zenon, <1>7 DEF Find, Running
    <3>3. \E r \in Requests : request' = [request EXCEPT ![i] = r]
      BY Zenon, <1>7, <3>1, <3>2 DEF Find, Requests
    <3> QED BY Zenon, <3>3 DEF Shapes
  <2>2. held' \in [Ids -> Nat]
    <3>1. \A j \in DOMAIN classDb : classDb[j] \in Nat
      BY Zenon DEF Shapes
    <3>2. held' = held \/ \E n \in Nat : held' = [held EXCEPT ![i] = n]
      BY Zenon, <1>7, <3>1 DEF Find, None
    <3> QED BY Zenon, <3>2 DEF Shapes
  <2> QED BY Zenon, <1>7, <2>1, <2>2 DEF Find, Shapes
<1>8. ASSUME NEW i \in Ids, DelEntry(i) \/ Evict(i) PROVE Shapes'
  <2>1. PICK gone : classDb' = Restrict(classDb, DOMAIN classDb \ gone)
    BY Zenon, <1>8 DEF DelEntry, Evict
  <2>2. DOMAIN classDb' \subseteq Ids /\ \A j \in DOMAIN classDb' : classDb'[j] \in Nat
    BY Zenon, <2>1 DEF Restrict, Shapes
  <2>3. request' = [request EXCEPT ![i] = "ok"] /\ singleton' \in {singleton, 0}
    BY Zenon, <1>8 DEF DelEntry, Evict, At, None
  <2>4. request' \in [Ids -> Requests]
    BY Zenon, <2>3 DEF Shapes, Requests
  <2>5. singleton' \in Nat
    BY SMTT(30), <2>3 DEF Shapes
  <2>6. destroyed' \subseteq Ids /\ UNCHANGED <<proxy, held, objects>>
    BY Zenon, <1>8 DEF DelEntry, Evict, Shapes
  <2> QED BY Zenon, <2>2, <2>4, <2>5, <2>6 DEF Shapes
<1> QED BY Zenon, <1>1, <1>2, <1>3, <1>4, <1>5, <1>6, <1>7, <1>8 DEF Next, Serve

\* Steps that leave the registries alone: no request gets an object of the
\* singleton and none is answered "ok" while its proxy is being made.
LEMMA RequestsKeep ==
    ASSUME RegistryInv, Shapes', NEW i \in Ids, UNCHANGED dbVars,
           \A j \in Ids \ {i} : /\ proxy'[j] = proxy[j] /\ request'[j] = request[j]
                                /\ held'[j] = held[j],
           i \in Shared => request'[i] # "have",
           \/ proxy[i] = "none" /\ proxy'[i] = "making" /\ request'[i] = "instantiate"
           \/ /\ proxy'[i] = proxy[i] \/ proxy'[i] \in {"failed", "deleted"}
                 \/ (proxy[i] = "making" /\ request[i] = "ok" /\ proxy'[i] = "live")
              /\ request'[i] \notin Making \/ (request[i] \in Making /\ proxy'[i] = "making")
              /\ proxy'[i] = "making" => request'[i] \in Making \cup {"exception"}
    PROVE  SharedInv' /\ MakingInv' /\ LiveIsBound'
<1> USE DEF dbVars
<1>1. Shared \subseteq Ids
  BY Zenon DEF Ids
<1>2. SharedInv'
  BY Zenon, <1>1 DEF RegistryInv, SharedInv
<1>3. \A j \in Ids : Bound(j)' <=> Bound(j)
  BY Zenon DEF Bound
<1>4. MakingInv'
  <2>1. ASSUME NEW j \in Ids, j # i
        PROVE  /\ request'[j] \in Making => proxy'[j] = "making"
               /\ proxy'[j] = "making" => request'[j] \in Making \cup {"ok", "exception"}
               /\ proxy'[j] = "making" /\ request'[j] = "ok" => Bound(j)'
    BY Zenon, <1>3, <2>1 DEF RegistryInv, MakingInv
  <2>2. /\ request'[i] \in Making => proxy'[i] = "making"
        /\ proxy'[i] = "making" => request'[i] \in Making \cup {"ok", "exception"}
        /\ proxy'[i] = "making" /\ request'[i] = "ok" => Bound(i)'
    BY Zenon DEF Making
  <2> QED BY Zenon, <2>1, <2>2 DEF MakingInv
<1>5. LiveIsBound'
  <2>1. \A j \in Ids : proxy[j] = "live" => Bound(j)
    BY Zenon DEF RegistryInv, LiveIsBound, Bound
  <2>2. proxy[i] = "making" /\ request[i] = "ok" => Bound(i)
    BY Zenon DEF RegistryInv, MakingInv
  <2>3. \A j \in Ids : proxy'[j] = "live" => Bound(j)'
    BY Zenon, <1>3, <2>1, <2>2
  <2> QED BY Zenon, <2>3 DEF LiveIsBound, Bound
<1> QED BY Zenon, <1>2, <1>4, <1>5

\* Steps of a request that change the registries and keep the class_ids of the
\* other proxies, or say why they are gone.
LEMMA DbKeeps ==
    ASSUME RegistryInv, Shapes', NEW i \in Ids, proxy' = proxy,
           \A j \in Ids \ {i} : request'[j] = request[j],
           \A j \in Ids : Bound(j) => Bound(j)',
           \/ request[i] \in Making /\ request'[i] \in Making
           \/ request[i] \in Making /\ request'[i] = "ok" /\ Bound(i)'
           \/ /\ request[i] \notin Making \cup {"ok", "exception"}
              /\ request'[i] \notin Making
    PROVE  MakingInv' /\ LiveIsBound'
<1>1. MakingInv'
  <2>1. ASSUME NEW j \in Ids, j # i
        PROVE  /\ request'[j] \in Making => proxy'[j] = "making"
               /\ proxy'[j] = "making" => request'[j] \in Making \cup {"ok", "exception"}
               /\ proxy'[j] = "making" /\ request'[j] = "ok" => Bound(j)'
    BY Zenon, <2>1 DEF RegistryInv, MakingInv
  <2>2. /\ request'[i] \in Making => proxy'[i] = "making"
        /\ proxy'[i] = "making" => request'[i] \in Making \cup {"ok", "exception"}
        /\ proxy'[i] = "making" /\ request'[i] = "ok" => Bound(i)'
    BY Zenon DEF RegistryInv, MakingInv, Making
  <2> QED BY Zenon, <2>1, <2>2 DEF MakingInv
<1>2. LiveIsBound'
  BY Zenon DEF RegistryInv, LiveIsBound, Bound
<1> QED BY Zenon, <1>1, <1>2

\* Every step preserves the invariant.
LEMMA RegistryNext == ASSUME RegistryInv, [Next]_vars PROVE RegistryInv'
<1> USE DEF dbVars
<1>0. Shapes /\ Shapes' /\ Shared \subseteq Ids /\ Own \subseteq Ids /\ Dirsvc \subseteq Ids
  BY Zenon, ShapesNext DEF RegistryInv, Ids
<1>1. CASE UNCHANGED vars
  BY Zenon, <1>0, <1>1 DEF vars, RegistryInv, SharedInv, MakingInv, LiveIsBound, Bound
<1>2. ASSUME NEW i \in Ids, \/ NewProxy(i) \/ Response(i) \/ Method(i) \/ Shutdown(i)
                            \/ Destroy(i) \/ Del(i)
      PROVE  RegistryInv'
  <2>1. /\ UNCHANGED dbVars
        /\ \A j \in Ids \ {i} : /\ proxy'[j] = proxy[j] /\ request'[j] = request[j]
                                /\ held'[j] = held[j]
        /\ request'[i] # "have"
    BY Zenon, <1>0, <1>2 DEF NewProxy, Response, Method, Shutdown, Destroy, Del, Ask,
       At, Shapes
  <2>2. ASSUME NewProxy(i) PROVE SharedInv' /\ MakingInv' /\ LiveIsBound'
    <3>1. proxy[i] = "none" /\ proxy'[i] = "making" /\ request'[i] = "instantiate"
      BY Zenon, <1>0, <2>2 DEF NewProxy, At, Shapes
    <3> QED BY Zenon, <1>0, <2>1, <3>1, RequestsKeep
  <2>3. ASSUME ~NewProxy(i) PROVE SharedInv' /\ MakingInv' /\ LiveIsBound'
    <3>1. \/ proxy'[i] = proxy[i] \/ proxy'[i] \in {"failed", "deleted"}
          \/ (proxy[i] = "making" /\ request[i] = "ok" /\ proxy'[i] = "live")
      BY Zenon, <1>0, <1>2, <2>3 DEF Response, Method, Shutdown, Destroy, Del, Ask, At,
         Shapes
    <3>2. request'[i] \notin Making
      BY Zenon, <1>0, <1>2, <2>3 DEF Response, Method, Shutdown, Destroy, Del, Ask, At,
         Shapes,
                              Making
    <3>3. proxy'[i] # "making"
      BY Zenon, <1>0, <1>2, <2>3 DEF Response, Method, Shutdown, Destroy, Del, Ask, At,
         Shapes
    <3> QED BY Zenon, <1>0, <2>1, <3>1, <3>2, <3>3, RequestsKeep
  <2>4. SharedInv' /\ MakingInv' /\ LiveIsBound'
    BY Zenon, <2>2, <2>3
  <2> QED BY Zenon, <1>0, <2>4 DEF RegistryInv
<1>3. ASSUME NEW i \in Ids, FactoryRaises(i) \/ UseDirsvc(i) \/ Find(i) \/ Return(i)
      PROVE  RegistryInv'
  <2>1. /\ UNCHANGED dbVars /\ proxy' = proxy
        /\ \A j \in Ids \ {i} : request'[j] = request[j] /\ held'[j] = held[j]
    BY Zenon, <1>0, <1>3 DEF FactoryRaises, UseDirsvc, Find, Return, At, Shapes
  <2>2. i \in Shared => request'[i] # "have"
    <3>1. CASE UseDirsvc(i)
      BY Zenon, <3>1, IdsAssumption DEF UseDirsvc
    <3>2. CASE Find(i)
      <4>1. request[i] \in {"method", "shutdown", "destroy"}
        BY Zenon, <3>2 DEF Find, Running
      <4>2. request'[i] \in {"exception", Running[request[i]]}
        BY Zenon, <1>0, <3>2 DEF Find, Shapes
      <4> QED BY Zenon, <4>1, <4>2, RunningStates
    <3> QED BY Zenon, <1>0, <1>3, <3>1, <3>2 DEF FactoryRaises, Return, At, Shapes
  <2>3. CASE request[i] \in Making
    <3>1. proxy[i] = "making" /\ request'[i] \in Making \cup {"exception"}
      <4>1. ~Find(i) /\ ~Return(i)
        BY Zenon, <2>3 DEF Find, Return, At, Running, Making
      <4> QED BY Zenon, <1>0, <1>3, <2>3, <4>1 DEF FactoryRaises, UseDirsvc, At,
                 Shapes, Making,
                                           RegistryInv, MakingInv
    <3> QED BY Zenon, <1>0, <2>1, <2>2, <2>3, <3>1, RequestsKeep DEF RegistryInv
  <2>4. CASE request[i] \notin Making
    <3>1. Find(i) \/ Return(i)
      BY Zenon, <1>3, <2>4 DEF FactoryRaises, UseDirsvc, At, Making
    <3>2. request[i] \in {"method", "shutdown", "destroy", "in method"}
      BY Zenon, <3>1 DEF Find, Return, At, Running
    <3>3. proxy[i] # "making"
      BY Zenon, <3>2 DEF RegistryInv, MakingInv, Making
    <3>4. request'[i] \in {"ok", "exception", "in method", "in shutdown", "in destroy"}
      <4>1. CASE Return(i)
        BY Zenon, <1>0, <4>1 DEF Return, At, Shapes
      <4>2. CASE Find(i)
        <5>1. request'[i] \in {"exception", Running[request[i]]}
          BY Zenon, <1>0, <4>2 DEF Find, Shapes
        <5> QED BY Zenon, <3>2, <4>2, <5>1, RunningStates DEF Find, Running
      <4> QED BY Zenon, <3>1, <4>1, <4>2
    <3>5. request'[i] \notin Making
      BY Zenon, <3>4 DEF Making
    <3> QED BY Zenon, <1>0, <2>1, <2>2, <3>3, <3>5, RequestsKeep DEF RegistryInv
  <2> QED BY Zenon, <2>3, <2>4
<1>4. ASSUME NEW i \in Ids, GetOrCreate(i) PROVE RegistryInv'
  <2>1. /\ i \in Shared /\ request[i] = "instantiate"
        /\ request' = [request EXCEPT ![i] = "have"]
        /\ UNCHANGED <<proxy, classDb, aliases, destroyed, evicted>>
    BY Zenon, <1>4 DEF GetOrCreate, At
  <2>2. /\ \A j \in Ids \ {i} : request'[j] = request[j] /\ held'[j] = held[j]
        /\ request'[i] = "have"
    BY Zenon, <1>0, <1>4, <2>1 DEF GetOrCreate, Made, Shapes
  <2>3. singleton' # None /\ held'[i] = singleton' /\ (singleton # None => singleton' = singleton)
    <3>1. objects \in Nat
      BY Zenon, <1>0 DEF Shapes
    <3>2. objects + 1 # 0
      BY SMTT(30), <3>1
    <3> QED BY Zenon, <1>0, <1>4, <3>2 DEF GetOrCreate, Made, None, Shapes
  <2>4. SharedInv'
    BY Zenon, <1>0, <2>1, <2>2, <2>3 DEF RegistryInv, SharedInv
  <2>5. \A j \in Ids : Bound(j) => Bound(j)'
    BY Zenon, <2>1 DEF Bound
  <2>6. request[i] \in Making /\ request'[i] \in Making
    BY Zenon, <2>1, <2>2 DEF Making
  <2>7. MakingInv' /\ LiveIsBound'
    BY Zenon, <1>0, <2>1, <2>2, <2>5, <2>6, DbKeeps
  <2> QED BY Zenon, <1>0, <2>4, <2>7 DEF RegistryInv
<1>5. ASSUME NEW i \in Ids, Construct(i) PROVE RegistryInv'
  <2>1. /\ i \notin Shared /\ request[i] = "instantiate"
        /\ request' = [request EXCEPT ![i] = "have"]
        /\ UNCHANGED <<proxy, classDb, aliases, singleton, destroyed, evicted>>
    BY Zenon, <1>5, IdsAssumption DEF Construct, At
  <2>2. /\ \A j \in Ids \ {i} : request'[j] = request[j] /\ held'[j] = held[j]
        /\ request'[i] = "have"
    BY Zenon, <1>0, <1>5, <2>1 DEF Construct, Made, Shapes
  <2>3. SharedInv'
    BY Zenon, <1>0, <2>1, <2>2 DEF RegistryInv, SharedInv
  <2>4. \A j \in Ids : Bound(j) => Bound(j)'
    BY Zenon, <2>1 DEF Bound
  <2>5. request[i] \in Making /\ request'[i] \in Making
    BY Zenon, <2>1, <2>2 DEF Making
  <2>6. MakingInv' /\ LiveIsBound'
    BY Zenon, <1>0, <2>1, <2>2, <2>4, <2>5, DbKeeps
  <2> QED BY Zenon, <1>0, <2>3, <2>6 DEF RegistryInv
<1>6. ASSUME NEW i \in Ids, Bind(i) PROVE RegistryInv'
  <2>1. /\ request[i] = "have" /\ request' = [request EXCEPT ![i] = "ok"]
        /\ aliases' = IF i \in Shared THEN aliases \cup {i} ELSE aliases
        /\ UNCHANGED <<proxy, held, singleton, objects, destroyed, evicted>>
    BY Zenon, <1>6 DEF Bind, At
  <2>2. /\ DOMAIN classDb' = DOMAIN classDb \cup {i} /\ classDb'[i] = held[i]
        /\ \A j \in DOMAIN classDb : classDb'[j] = classDb[j]
    BY Zenon, <1>6, Added DEF Bind
  <2>3. (\A j \in Ids \ {i} : request'[j] = request[j]) /\ request'[i] = "ok"
    BY Zenon, <1>0, <2>1 DEF Shapes
  <2>4. SharedInv'
    <3>1. aliases' = DOMAIN classDb' \cap Shared
      BY Zenon, <2>1, <2>2 DEF RegistryInv, SharedInv
    <3>2. ASSUME ~evicted, NEW j \in Shared, j \in DOMAIN classDb' \/ request'[j] = "have"
          PROVE  /\ singleton # None
                 /\ j \in DOMAIN classDb' => classDb'[j] = singleton
                 /\ request'[j] = "have" => held[j] = singleton
      <4>1. i \in Shared => singleton # None /\ held[i] = singleton
        BY Zenon, <2>1, <3>2 DEF RegistryInv, SharedInv
      <4>2. CASE j = i
        BY Zenon, <2>2, <2>3, <4>1, <4>2
      <4>3. CASE j # i
        <5>1. /\ request'[j] = request[j]
              /\ j \in DOMAIN classDb' => j \in DOMAIN classDb /\ classDb'[j] = classDb[j]
          BY Zenon, <1>0, <2>2, <2>3, <4>3
        <5> QED BY Zenon, <3>2, <5>1 DEF RegistryInv, SharedInv
      <4> QED BY Zenon, <4>2, <4>3
    <3> QED BY Zenon, <2>1, <3>1, <3>2 DEF SharedInv
  <2>5. (\A j \in Ids : Bound(j) => Bound(j)') /\ Bound(i)'
    BY Zenon, <2>1, <2>2 DEF Bound
  <2>6. request[i] \in Making
    BY Zenon, <2>1 DEF Making
  <2>7. MakingInv' /\ LiveIsBound'
    BY Zenon, <1>0, <2>1, <2>3, <2>5, <2>6, DbKeeps
  <2> QED BY Zenon, <1>0, <2>4, <2>7 DEF RegistryInv
<1>7. ASSUME NEW i \in Ids, DelEntry(i) PROVE RegistryInv'
  <2>1. /\ request[i] = "in destroy" /\ request' = [request EXCEPT ![i] = "ok"]
        /\ aliases' = aliases \ {i} /\ destroyed' = destroyed \cup {i}
        /\ UNCHANGED <<proxy, held, singleton, objects, evicted>>
    BY Zenon, <1>7 DEF DelEntry, At
  <2>2. /\ DOMAIN classDb' = DOMAIN classDb \ {i}
        /\ \A j \in DOMAIN classDb' : classDb'[j] = classDb[j]
    BY Zenon, <1>7 DEF DelEntry, Restrict
  <2>3. (\A j \in Ids \ {i} : request'[j] = request[j]) /\ request'[i] = "ok"
    BY Zenon, <1>0, <2>1 DEF Shapes
  <2>4. SharedInv'
    <3>1. aliases' = DOMAIN classDb' \cap Shared
      BY Zenon, <2>1, <2>2 DEF RegistryInv, SharedInv
    <3>2. \A j \in Shared :
             /\ request'[j] = "have" => request[j] = "have"
             /\ j \in DOMAIN classDb' => j \in DOMAIN classDb /\ classDb'[j] = classDb[j]
      BY Zenon, <1>0, <2>2, <2>3
    <3> QED BY Zenon, <2>1, <3>1, <3>2 DEF RegistryInv, SharedInv
  <2>5. \A j \in Ids : Bound(j) => Bound(j)'
    BY Zenon, <2>1, <2>2 DEF Bound
  <2>6. request[i] \notin Making \cup {"ok", "exception"} /\ request'[i] \notin Making
    BY Zenon, <2>1, <2>3 DEF Making
  <2>7. MakingInv' /\ LiveIsBound'
    BY Zenon, <1>0, <2>1, <2>3, <2>5, <2>6, DbKeeps
  <2> QED BY Zenon, <1>0, <2>4, <2>7 DEF RegistryInv
<1>8. ASSUME NEW i \in Ids, Evict(i) PROVE RegistryInv'
  <2>1. /\ request[i] = "in shutdown" /\ request' = [request EXCEPT ![i] = "ok"]
        /\ aliases' = {} /\ evicted' = TRUE
        /\ UNCHANGED <<proxy, held, objects, destroyed>>
    BY Zenon, <1>8 DEF Evict, At
  <2>2. DOMAIN classDb' = DOMAIN classDb \ aliases
    BY Zenon, <1>8 DEF Evict, Restrict
  <2>3. (\A j \in Ids \ {i} : request'[j] = request[j]) /\ request'[i] = "ok"
    BY Zenon, <1>0, <2>1 DEF Shapes
  <2>4. SharedInv'
    BY Zenon, <2>1, <2>2 DEF RegistryInv, SharedInv
  <2>5. \A j \in Ids : Bound(j) => Bound(j)'
    BY Zenon, <2>1, <2>2 DEF Bound, RegistryInv, SharedInv
  <2>6. request[i] \notin Making \cup {"ok", "exception"} /\ request'[i] \notin Making
    BY Zenon, <2>1, <2>3 DEF Making
  <2>7. MakingInv' /\ LiveIsBound'
    BY Zenon, <1>0, <2>1, <2>3, <2>5, <2>6, DbKeeps
  <2> QED BY Zenon, <1>0, <2>4, <2>7 DEF RegistryInv
<1> QED BY Zenon, <1>1, <1>2, <1>3, <1>4, <1>5, <1>6, <1>7, <1>8 DEF Next, Serve

\* get_or_create_singleton_instance, bind_singleton_alias, del_entry_from_class_db
\* and shutdown_service_instance, however the threads that call them interleave:
\* all class_ids of a singleton stand for the object a new caller would get, and
\* the alias registry names exactly the ones that are bound.
THEOREM SharedObjects == Spec => []OneSharedObject
<1>1. Init => RegistryInv
  BY Zenon, RegistryInit
<1>2. RegistryInv /\ [Next]_vars => RegistryInv'
  BY Zenon, RegistryNext
<1>3. RegistryInv => OneSharedObject
  BY Zenon DEF RegistryInv, SharedInv, OneSharedObject
<1> HIDE DEF RegistryInv, OneSharedObject, Init, Next
<1> QED BY <1>1, <1>2, <1>3, PTL DEF Spec

\* BaseRemote and handle_rpc_req: a proxy whose constructor returned names a
\* bound class_id until its own destroy_class or the shutdown of its service.
THEOREM LiveProxiesAreBound == Spec => []LiveIsBound
<1>1. Init => RegistryInv
  BY Zenon, RegistryInit
<1>2. RegistryInv /\ [Next]_vars => RegistryInv'
  BY Zenon, RegistryNext
<1>3. RegistryInv => LiveIsBound
  BY Zenon DEF RegistryInv
<1> HIDE DEF RegistryInv, LiveIsBound, Init, Next
<1> QED BY <1>1, <1>2, <1>3, PTL DEF Spec
-----------------------------------------------------------------------------
(* The services that an application spawns *)

Stopping == pc \in {"dereg", "term", "poll", "reap"}
Starting == S!Spawning \/ pc = "spawn"

\* Where the parent's handles are: only the services before cur have one while
\* services are spawned, and todo holds those of a running shutdown.
HandlesInv ==
    /\ Starting => /\ handles = {} /\ \A s \in tracked : s < cur
                   /\ cur \in Nat \ {0}
    /\ Stopping <=> todo # {}
    /\ Starting => \A s \in S!Service :
                      s > cur \/ (s = cur /\ pc = "spawn") => launcher[s] = "none"
    /\ S!Spawning => cur \in S!Service

\* A launcher is up only for the service that is spawned, and precedes the
\* daemon.
ForkInv ==
    \A s \in S!Service :
        /\ launcher[s] = "up" => s = cur /\ pc \in {"pid", "early", "launched"}
        /\ daemon[s] # "none" => launcher[s] = "gone"

\* The parent has or had the pid of this service in a handle.
HasHandle(s) ==
    \/ s \in todo \cup tracked \cup handles
    \/ s < cur
    \/ s = cur /\ pc \in {"connect", "register"}

\* A handle without a pid is one of a daemon that ends.
HandlePidInv ==
    /\ \A s \in S!Service :
          HasHandle(s) => launcher[s] = "gone" /\ (s \in pid \/ daemon[s] \in S!Gone)
    /\ pc = "reap" => \A s \in S!Target : daemon[s] # "up"
    /\ pc = "early" => cur \in late \/ daemon[cur] = "dead"

ServicesInv == S!TypeOK /\ HandlesInv /\ ForkInv /\ HandlePidInv /\ S!RunningIsOwned
-----------------------------------------------------------------------------

\* A call shuts one handle down at a time.
LEMMA OneTarget ==
    ASSUME S!TypeOK
    PROVE  /\ S!Target \subseteq todo /\ S!Target \subseteq S!Service
           /\ \A s, x \in S!Target : s = x
  <1>1. todo \subseteq S!Service /\ S!Target \subseteq todo
    BY Zenon DEF S!TypeOK, S!Target
  <1>2. \A s, x \in S!Target : s \in Nat /\ x \in Nat /\ s <= x /\ x <= s
    BY SMTT(30), <1>1 DEF S!Target, S!Service
  <1> QED BY SMTT(30), <1>1, <1>2

-----------------------------------------------------------------------------
(* The daemons' own steps *)

\* A step of a daemon or of its launcher leaves what the parent knows.
LEMMA DaemonKeeps ==
    ASSUME ServicesInv, NEW s \in S!Service,
           S!Fork(s) \/ S!Crash(s) \/ S!OpenPid(s) \/ S!WritePid(s) \/ S!Connect(s) \/ S!Die(s)
    PROVE  ServicesInv'
  <1> USE DEF ServicesInv
  <1>1. /\ UNCHANGED <<pc, cur, todo, after, pid, records, tracked, handles, calls, late>>
    BY Zenon DEF S!Fork, S!Crash, S!OpenPid, S!WritePid, S!Connect, S!Die, S!parentVars
  <1>2. S!TypeOK'
    BY Zenon, <1>1 DEF S!TypeOK, S!Fork, S!Crash, S!OpenPid, S!WritePid, S!Connect, S!Die
  <1>3. \/ launcher'[s] = launcher[s] /\ daemon'[s] = daemon[s]
        \/ launcher[s] = "up" /\ launcher'[s] = "gone" /\ daemon'[s] = "up"
        \/ launcher'[s] = launcher[s] /\ daemon[s] \in {"up", "killed"} /\ daemon'[s] = "dead"
    BY Zenon DEF S!Fork, S!Crash, S!OpenPid, S!WritePid, S!Connect, S!Die, S!TypeOK
  <1>4. \A x \in S!Service : x # s => launcher'[x] = launcher[x] /\ daemon'[x] = daemon[x]
    BY Zenon DEF S!Fork, S!Crash, S!OpenPid, S!WritePid, S!Connect, S!Die, S!TypeOK
  <1>5. launcher[s] = "up" => s = cur /\ pc \in {"pid", "early", "launched"} /\ ~Stopping
    BY Zenon DEF ForkInv, Stopping
  <1>6. HandlesInv'
    <2>1. launcher[s] = "none" => launcher'[s] = "none"
      BY Zenon, <1>3
    <2> QED BY Zenon, <1>1, <1>4, <2>1 DEF HandlesInv, Starting, Stopping, S!Spawning
  <1>7. ForkInv'
    BY Zenon, <1>1, <1>3, <1>4 DEF ForkInv
  <1>8. HandlePidInv'
    <2>1. launcher[s] = "up" => ~HasHandle(s)
      BY SMTT(30), <1>5 DEF HasHandle, HandlesInv, Starting, Stopping, S!Spawning,
         S!TypeOK, S!Service
    <2>2. ASSUME NEW x \in S!Service, HasHandle(x)'
          PROVE  launcher'[x] = "gone" /\ (x \in pid' \/ daemon'[x] \in S!Gone)
      <3>1. HasHandle(x)
        BY Zenon, <2>2, <1>1 DEF HasHandle
      <3>2. launcher[x] = "gone" /\ (x \in pid \/ daemon[x] \in S!Gone)
        BY Zenon, <3>1 DEF HandlePidInv
      <3> QED BY Zenon, <3>1, <3>2, <2>1, <1>1, <1>3, <1>4 DEF S!Gone
    <2>3. pc' = "reap" => \A x \in S!Target' : daemon'[x] # "up"
      <3>1. S!Target' = S!Target /\ S!Target \subseteq S!Service
        BY Zenon, <1>1, OneTarget DEF S!Target
      <3>2. pc = "reap" => \A x \in S!Target : daemon[x] # "up"
        BY Zenon DEF HandlePidInv
      <3> QED BY Zenon, <3>1, <3>2, <1>1, <1>3, <1>4, <1>5
    <2>4. pc' = "early" => cur' \in late' \/ daemon'[cur'] = "dead"
      <3>1. pc = "early" /\ cur = s /\ daemon[cur] = "dead" => daemon'[cur] = "dead"
        <4>1. daemon[s] = "dead" => launcher[s] = "gone"
          BY Zenon DEF ForkInv
        <4> QED BY Zenon, <4>1, <1>3
      <3> QED BY Zenon, <3>1, <1>1, <1>4 DEF HandlePidInv, HandlesInv, S!Spawning
    <2> QED BY Zenon, <2>2, <2>3, <2>4 DEF HandlePidInv
  <1>9. S!RunningIsOwned'
    <2>1. ASSUME NEW x \in S!Service \ late, daemon'[x] = "up"
          PROVE  (S!Spawning /\ x = cur) \/ x \in todo \/ x \in tracked
      BY Zenon, <2>1, <1>3, <1>4, <1>5 DEF S!RunningIsOwned, S!Spawning
    <2> QED BY Zenon, <2>1, <1>1 DEF S!RunningIsOwned, S!Spawning
  <1> QED BY Zenon, <1>2, <1>6, <1>7, <1>8, <1>9
-----------------------------------------------------------------------------
(* defw_spawn_services *)

\* Popen starts the launcher of the next service.
LEMMA PopenKeeps ==
    ASSUME ServicesInv, S!Popen
    PROVE  ServicesInv'
  <1> USE DEF ServicesInv
  <1>1. /\ pc = "spawn" /\ cur \in S!Service /\ pc' = "pid"
        /\ launcher' = [launcher EXCEPT ![cur] = "up"]
        /\ UNCHANGED <<cur, todo, daemon, pid, tracked, handles, late>>
    BY Zenon DEF S!Popen
  <1>2. S!TypeOK'
    BY Zenon, <1>1 DEF S!Popen, S!TypeOK
  <1>3. /\ launcher'[cur] = "up" /\ launcher[cur] = "none"
        /\ \A s \in S!Service : s # cur => launcher'[s] = launcher[s]
    BY Zenon, <1>1 DEF S!TypeOK, HandlesInv, Starting
  <1>4. todo = {} /\ todo' = {}
    BY Zenon, <1>1 DEF HandlesInv, Stopping
  <1>5. HandlesInv'
    BY SMTT(30), <1>1, <1>3, <1>4 DEF HandlesInv, Starting, Stopping, S!Spawning,
       S!TypeOK, S!Service
  <1>6. ForkInv'
    BY Zenon, <1>1, <1>3 DEF ForkInv
  <1>7. HandlePidInv'
    BY Zenon, <1>1, <1>3 DEF HandlePidInv, HasHandle
  <1>8. S!RunningIsOwned'
    BY Zenon, <1>1 DEF S!RunningIsOwned, S!Spawning
  <1> QED BY Zenon, <1>2, <1>5, <1>6, <1>7, <1>8

\* The waits for the pid, for the launcher and for the connection.
LEMMA WaitsKeep ==
    ASSUME ServicesInv, S!ReadPid \/ S!NoPid \/ S!ExitedEarly \/ S!Launched \/ S!Connected
    PROVE  ServicesInv'
  <1> USE DEF ServicesInv
  <1>1. UNCHANGED <<cur, todo, launcher, daemon, tracked, handles>>
    BY Zenon DEF S!ReadPid, S!NoPid, S!ExitedEarly, S!Launched, S!Connected, S!daemonVars
  <1>2. S!TypeOK'
    BY Zenon DEF S!TypeOK, S!ReadPid, S!NoPid, S!ExitedEarly, S!Launched, S!Connected,
       S!daemonVars,
           HandlesInv, S!Spawning
  <1>3. /\ cur \in S!Service /\ S!Spawning /\ todo = {} /\ handles = {}
        /\ ~Stopping' /\ pc' # "spawn"
        /\ S!Spawning' \/ (pc' = "app" /\ pc = "early" /\ launcher[cur] = "gone")
    BY Zenon DEF HandlesInv, S!ReadPid, S!NoPid, S!ExitedEarly, S!Launched,
       S!Connected, S!Spawning,
           Stopping, Starting
  <1>4. HandlesInv'
    BY Zenon, <1>1, <1>3 DEF HandlesInv, Starting, S!Spawning
  <1>5. ForkInv'
    <2>1. launcher[cur] = "up" => pc' \in {"pid", "early", "launched"}
      BY Zenon, <1>3 DEF S!ReadPid, S!NoPid, S!ExitedEarly, S!Launched, S!Connected,
         ForkInv
    <2> QED BY Zenon, <1>1, <1>3, <2>1 DEF ForkInv
  <1>6. HandlePidInv'
    <2>1. pc' \in {"connect", "register"} =>
              \/ pc = "launched" /\ pid' = pid \cup {cur} /\ launcher[cur] = "gone"
              \/ pc = "connect" /\ pid' = pid
      BY Zenon DEF S!ReadPid, S!NoPid, S!ExitedEarly, S!Launched, S!Connected
    <2>2. pid \subseteq pid'
      BY Zenon DEF S!ReadPid, S!NoPid, S!ExitedEarly, S!Launched, S!Connected
    <2>3. pc' # "reap" /\ (pc' = "early" => cur \in late' \/ daemon[cur] = "dead")
      BY Zenon DEF S!ReadPid, S!NoPid, S!ExitedEarly, S!Launched, S!Connected
    <2> QED BY Zenon, <1>1, <2>1, <2>2, <2>3 DEF HandlePidInv, HasHandle
  <1>7. S!RunningIsOwned'
    <2>1. late \subseteq late'
      BY Zenon DEF S!ReadPid, S!NoPid, S!ExitedEarly, S!Launched, S!Connected
    <2>2. ~S!Spawning' => cur \in late \/ daemon[cur] = "dead"
      BY Zenon, <1>3 DEF HandlePidInv
    <2> QED BY Zenon, <1>1, <1>3, <2>1, <2>2 DEF S!RunningIsOwned
  <1> QED BY Zenon, <1>2, <1>4, <1>5, <1>6, <1>7

\* register_service answers: the handle is in _SPAWNED_SERVICES before the next
\* service is spawned.
LEMMA RegisterKeeps ==
    ASSUME ServicesInv, S!Register
    PROVE  ServicesInv'
  <1> USE DEF ServicesInv
  <1>1. /\ pc = "register" /\ pc' = "spawn" /\ cur' = cur + 1 /\ cur \in S!Service
        /\ tracked' = tracked \cup {cur}
        /\ UNCHANGED <<todo, launcher, daemon, pid, handles, late>>
    BY Zenon DEF S!Register, HandlesInv, S!Spawning
  <1>2. cur \in 1..N /\ cur \in Nat /\ cur + 1 \in 1..(N + 1)
    BY SMTT(30), <1>1, ServicesAssumption DEF S!Service
  <1>3. S!TypeOK'
    BY Zenon, <1>1, <1>2 DEF S!Register, S!TypeOK, S!Service
  <1>4. todo = {} /\ handles = {} /\ \A s \in tracked : s < cur
    BY Zenon, <1>1 DEF HandlesInv, Stopping, Starting, S!Spawning
  <1>5. launcher[cur] # "up" /\ \A s \in S!Service : launcher[s] # "up"
    BY Zenon, <1>1 DEF ForkInv
  <1>6. \A s \in S!Service : s >= cur + 1 => launcher[s] = "none"
    BY SMTT(30), <1>1, <1>2 DEF HandlesInv, Starting, S!Spawning, S!Service
  <1>7. HandlesInv'
    BY SMTT(30), <1>1, <1>2, <1>4, <1>6 DEF HandlesInv, Starting, Stopping, S!Spawning,
       S!TypeOK, S!Service
  <1>8. ForkInv'
    BY Zenon, <1>1, <1>5 DEF ForkInv
  <1>9. HandlePidInv'
    BY SMTT(30), <1>1, <1>2 DEF HandlePidInv, HasHandle, S!Service
  <1>10. S!RunningIsOwned'
    BY Zenon, <1>1 DEF S!RunningIsOwned, S!Spawning
  <1> QED BY Zenon, <1>3, <1>7, <1>8, <1>9, <1>10

\* A service that cannot be registered is shut down by its handle.
LEMMA UndoKeeps ==
    ASSUME ServicesInv, S!ConnectTimeout \/ S!RegisterFails
    PROVE  ServicesInv'
  <1> USE DEF ServicesInv
  <1>1. /\ pc \in {"connect", "register"} /\ pc' = "dereg" /\ todo' = {cur} /\ cur \in S!Service
        /\ UNCHANGED <<cur, tracked, launcher, daemon, pid, handles, late>>
    BY Zenon DEF S!ConnectTimeout, S!RegisterFails, S!Undo, S!Stop, S!daemonVars,
       HandlesInv, S!Spawning
  <1>2. S!TypeOK'
    BY Zenon, <1>1 DEF S!ConnectTimeout, S!RegisterFails, S!Undo, S!Stop, S!daemonVars,
       S!TypeOK
  <1>3. HandlesInv'
    BY Zenon, <1>1 DEF HandlesInv, Starting, Stopping, S!Spawning
  <1>4. ForkInv'
    BY Zenon, <1>1 DEF ForkInv
  <1>5. HandlePidInv'
    BY Zenon, <1>1 DEF HandlePidInv, HasHandle
  <1>6. todo = {}
    BY Zenon, <1>1 DEF HandlesInv, Stopping
  <1>7. S!RunningIsOwned'
    BY Zenon, <1>1, <1>6 DEF S!RunningIsOwned
  <1> QED BY Zenon, <1>2, <1>3, <1>4, <1>5, <1>7

\* The list that defw_spawn_services returns holds all the services.
LEMMA ReturnKeeps ==
    ASSUME ServicesInv, S!Return
    PROVE  ServicesInv'
  <1> USE DEF ServicesInv
  <1>1. /\ pc = "spawn" /\ pc' = "app" /\ cur \notin S!Service /\ handles' = S!Service
        /\ UNCHANGED <<cur, todo, tracked, launcher, daemon, pid, late>>
    BY Zenon DEF S!Return, S!daemonVars
  <1>2. S!TypeOK'
    BY Zenon, <1>1 DEF S!Return, S!daemonVars, S!TypeOK
  <1>3. \A s \in S!Service : s < cur
    BY SMTT(30), <1>1, ServicesAssumption DEF S!TypeOK, S!Service
  <1>4. HandlesInv'
    BY Zenon, <1>1 DEF HandlesInv, Starting, Stopping, S!Spawning
  <1>5. ForkInv'
    BY Zenon, <1>1 DEF ForkInv
  <1>6. HandlePidInv'
    BY Zenon, <1>1, <1>3 DEF HandlePidInv, HasHandle
  <1>7. S!RunningIsOwned'
    BY Zenon, <1>1 DEF S!RunningIsOwned, S!Spawning
  <1> QED BY Zenon, <1>2, <1>4, <1>5, <1>6, <1>7

-----------------------------------------------------------------------------
(* DEFwServiceProcess.shutdown, defw_shutdown_services and the atexit hook *)

\* A running shutdown works on the handle of a service.
LEMMA StoppingOne ==
    ASSUME ServicesInv, Stopping, NEW s \in S!Target
    PROVE  /\ s \in todo /\ s \in S!Service /\ ~S!Spawning /\ ~Starting
           /\ \A x \in S!Service : launcher[x] # "up"
           /\ launcher[s] = "gone" /\ (s \in pid \/ daemon[s] \in S!Gone)
  <1>1. s \in todo /\ s \in S!Service
    BY Zenon, OneTarget DEF ServicesInv
  <1> QED BY Zenon, <1>1 DEF ServicesInv, Stopping, S!Spawning, Starting, ForkInv,
             HandlePidInv, HasHandle

\* deregister, SIGTERM, the poll for its effect, and SIGKILL touch the daemon
\* and the pid of one handle.
LEMMA ShutdownStep ==
    ASSUME ServicesInv, S!Deregister \/ S!Terminate \/ S!Noticed \/ S!Kill
    PROVE  \E s \in S!Target :
              /\ \A x \in S!Service :
                    x # s => daemon'[x] = daemon[x] /\ (x \in pid' <=> x \in pid)
              /\ daemon'[s] = daemon[s] \/ daemon'[s] \in S!Gone
              /\ daemon[s] \in S!Gone => daemon'[s] \in S!Gone
              /\ s \in pid' \/ daemon'[s] \in S!Gone
              /\ pc' = "reap" => daemon'[s] # "up"
  <1> USE DEF ServicesInv, S!Gone
  <1>1. Stopping
    BY Zenon DEF S!Deregister, S!Terminate, S!Noticed, S!Kill, Stopping
  <1>2. \A s \in S!Target : s \in S!Service /\ (s \in pid \/ daemon[s] \in S!Gone)
    BY Zenon, <1>1, StoppingOne
  <1>3. daemon \in [S!Service -> {"none", "up", "killed", "dead"}]
    BY Zenon DEF S!TypeOK
  <1>4. CASE S!Deregister
    BY Zenon, <1>2, <1>4 DEF S!Deregister
  <1>5. CASE S!Terminate
    BY Zenon, <1>2, <1>3, <1>5 DEF S!Terminate
  <1>6. CASE S!Noticed
    BY Zenon, <1>2, <1>6 DEF S!Noticed, S!daemonVars
  <1>7. CASE S!Kill
    BY Zenon, <1>2, <1>3, <1>7 DEF S!Kill
  <1> QED BY Zenon, <1>4, <1>5, <1>6, <1>7

\* They keep the invariant: the daemon that loses its pid ends.
LEMMA ShutdownKeeps ==
    ASSUME ServicesInv, S!Deregister \/ S!Terminate \/ S!Noticed \/ S!Kill
    PROVE  ServicesInv'
  <1> USE DEF ServicesInv
  <1>1. /\ Stopping /\ Stopping'
        /\ UNCHANGED <<cur, todo, tracked, launcher, handles, late>>
    BY Zenon DEF S!Deregister, S!Terminate, S!Noticed, S!Kill, Stopping, S!daemonVars
  <1>2. PICK s \in S!Target :
              /\ \A x \in S!Service :
                    x # s => daemon'[x] = daemon[x] /\ (x \in pid' <=> x \in pid)
              /\ daemon'[s] = daemon[s] \/ daemon'[s] \in S!Gone
              /\ daemon[s] \in S!Gone => daemon'[s] \in S!Gone
              /\ s \in pid' \/ daemon'[s] \in S!Gone
              /\ pc' = "reap" => daemon'[s] # "up"
    BY Zenon, ShutdownStep
  <1>3. /\ s \in todo /\ s \in S!Service /\ ~S!Spawning /\ ~Starting
        /\ \A x \in S!Service : launcher[x] # "up"
        /\ launcher[s] = "gone" /\ (s \in pid \/ daemon[s] \in S!Gone)
    BY Zenon, <1>1, StoppingOne
  <1>4. S!TypeOK'
    <2>1. S!Target \subseteq S!Service
      BY Zenon, OneTarget
    <2> QED BY Zenon, <2>1 DEF S!TypeOK, S!Deregister, S!Terminate, S!Noticed, S!Kill,
               S!daemonVars
  <1>5. HandlesInv'
    BY Zenon, <1>1 DEF HandlesInv, Starting, Stopping, S!Spawning
  <1>6. ForkInv'
    BY Zenon, <1>1, <1>2, <1>3 DEF ForkInv
  <1>7. HandlePidInv'
    <2>1. ASSUME NEW x \in S!Service, HasHandle(x)'
          PROVE  launcher'[x] = "gone" /\ (x \in pid' \/ daemon'[x] \in S!Gone)
      <3>1. HasHandle(x)
        BY Zenon, <2>1, <1>1 DEF HasHandle, Stopping
      <3> QED BY Zenon, <3>1, <1>1, <1>2 DEF HandlePidInv
    <2>2. \A x \in S!Target' : x = s
      BY Zenon, <1>1, OneTarget DEF S!Target
    <2> QED BY Zenon, <2>1, <2>2, <1>1, <1>2 DEF HandlePidInv, Stopping
  <1>8. S!RunningIsOwned'
    BY Zenon, <1>1, <1>2, <1>3 DEF S!RunningIsOwned, S!Gone
  <1> QED BY Zenon, <1>4, <1>5, <1>6, <1>7, <1>8

\* The handle leaves _SPAWNED_SERVICES when its daemon does not run any more.
LEMMA ReapKeeps ==
    ASSUME ServicesInv, S!Reap
    PROVE  ServicesInv'
  <1> USE DEF ServicesInv
  <1>1. PICK s \in S!Target : tracked' = tracked \ {s} /\ todo' = todo \ {s}
    BY Zenon DEF S!Reap
  <1>2. /\ pc = "reap" /\ pc' = IF todo' = {} THEN after ELSE "dereg"
        /\ UNCHANGED <<cur, launcher, daemon, pid, handles, late>>
    BY Zenon DEF S!Reap, S!daemonVars
  <1>3. s \in S!Service /\ ~S!Spawning /\ \A x \in S!Service : launcher[x] # "up"
    BY Zenon, <1>2, StoppingOne DEF Stopping
  <1>4. daemon[s] # "up"
    BY Zenon, <1>2 DEF HandlePidInv
  <1>5. pc' \in {"app", "done", "dereg"} /\ (pc' = "dereg" <=> todo' # {})
    BY Zenon, <1>2 DEF S!TypeOK
  <1>6. S!TypeOK'
    BY Zenon, <1>1, <1>2, <1>5 DEF S!TypeOK, S!Reap, S!daemonVars
  <1>7. HandlesInv'
    BY Zenon, <1>1, <1>2, <1>5 DEF HandlesInv, Starting, Stopping, S!Spawning
  <1>8. ForkInv'
    BY Zenon, <1>2, <1>3 DEF ForkInv
  <1>9. HandlePidInv'
    BY Zenon, <1>1, <1>2, <1>5 DEF HandlePidInv, HasHandle
  <1>10. S!RunningIsOwned'
    BY Zenon, <1>1, <1>2, <1>3, <1>4 DEF S!RunningIsOwned
  <1> QED BY Zenon, <1>6, <1>7, <1>8, <1>9, <1>10

\* Shutting down some of the handles leaves the others in _SPAWNED_SERVICES.
LEMMA CallsKeep ==
    ASSUME ServicesInv, S!AppShutdown \/ S!Exit
    PROVE  ServicesInv'
  <1> USE DEF ServicesInv
  <1>1. /\ pc = "app" /\ UNCHANGED <<cur, tracked, launcher, daemon, pid, handles, late>>
        /\ todo' \subseteq handles \cup tracked
        /\ pc' \in {"app", "done", "dereg"} /\ (pc' = "dereg" <=> todo' # {})
    BY Zenon DEF S!AppShutdown, S!Exit, S!Stop, S!daemonVars
  <1>2. S!TypeOK'
    <2>1. calls' \in 0..MaxCalls /\ after' \in {"app", "done"}
      BY SMTT(30), ServicesAssumption DEF S!TypeOK, S!AppShutdown, S!Exit, S!Stop
    <2>2. UNCHANGED <<file, peer, records, listed>>
      BY Zenon DEF S!AppShutdown, S!Exit, S!daemonVars
    <2> QED BY Zenon, <1>1, <2>1, <2>2 DEF S!TypeOK
  <1>3. todo = {}
    BY Zenon, <1>1 DEF HandlesInv, Stopping
  <1>4. HandlesInv'
    BY Zenon, <1>1 DEF HandlesInv, Starting, Stopping, S!Spawning
  <1>5. ForkInv'
    BY Zenon, <1>1 DEF ForkInv
  <1>6. HandlePidInv'
    BY Zenon, <1>1 DEF HandlePidInv, HasHandle
  <1>7. S!RunningIsOwned'
    BY Zenon, <1>1, <1>3 DEF S!RunningIsOwned, S!Spawning
  <1> QED BY Zenon, <1>2, <1>4, <1>5, <1>6, <1>7

\* The application starts with no service.
LEMMA ServicesStart == S!Init => ServicesInv
  <1> SUFFICES ASSUME S!Init PROVE ServicesInv
    BY Zenon
  <1>1. S!TypeOK
    BY SMTT(30), ServicesAssumption DEF S!Init, S!TypeOK
  <1> QED BY SMTT(30), <1>1 DEF S!Init, ServicesInv, HandlesInv, Starting, Stopping,
             S!Spawning, ForkInv,
                     HandlePidInv, HasHandle, S!RunningIsOwned, S!Service

\* Every step of the parent and of the daemons keeps the invariant.
LEMMA ServicesSteps == ServicesInv /\ [S!Next]_(S!vars) => ServicesInv'
  <1> SUFFICES ASSUME ServicesInv, [S!Next]_(S!vars) PROVE ServicesInv'
    BY Zenon
  <1>1. CASE UNCHANGED S!vars
    <2>1. UNCHANGED <<pc, cur, todo, after, launcher, daemon, file, peer, pid, records,
                      listed, tracked, handles, calls, late>>
      BY Zenon, <1>1 DEF S!vars, S!parentVars, S!daemonVars
    <2>2. S!TypeOK'
      BY Zenon, <2>1 DEF ServicesInv, S!TypeOK
    <2>3. HandlesInv' /\ ForkInv'
      BY Zenon, <2>1 DEF ServicesInv, HandlesInv, Starting, Stopping, S!Spawning, ForkInv
    <2>4. HandlePidInv' /\ S!RunningIsOwned'
      BY Zenon, <2>1 DEF ServicesInv, HandlePidInv, HasHandle, S!Target,
         S!RunningIsOwned, S!Spawning
    <2> QED BY Zenon, <2>2, <2>3, <2>4 DEF ServicesInv
  <1>2. CASE S!DaemonStep
    BY Zenon, <1>2, DaemonKeeps DEF S!DaemonStep
  <1>3. CASE S!ParentStep
    BY Zenon, <1>3, PopenKeeps, WaitsKeep, RegisterKeeps, UndoKeeps, ReturnKeeps,
       ShutdownKeeps,
       ReapKeeps, CallsKeep DEF S!ParentStep
  <1> QED BY Zenon, <1>1, <1>2, <1>3 DEF S!Next

\* A daemon that runs belongs to the spawn that waits for it, to the shutdown
\* that works on it or to _SPAWNED_SERVICES, but for one that writes its pid
\* after its launcher was given up (defw_spawn_services, defw_shutdown_services).
THEOREM DaemonsAreOwned == S!Spec => []RunningIsOwned
  BY ServicesStart, ServicesSteps, PTL DEF S!Spec, ServicesInv, RunningIsOwned
-----------------------------------------------------------------------------
(* The processes of a launcher service *)

\* A process that the operating system knows: its pid is its own.
Alive(p) == os[p] \in {"running", "exited"}

LaunchShapes ==
    /\ os \in [Procs -> {"none", "running", "exited", "reaped"}]
    /\ call \in [Procs -> {"start", "started", "thread", "get_result", "result",
                           "returned", "raised"}]
    /\ waiter \in [Procs -> {"none", "waiting", "result", "done"}]
    /\ procPid \in [Procs -> Pids \cup {L!NoPid}]
    /\ reported \in [Procs -> Nat]

\* An entry is under the pid of its process, which was inserted, was not killed
\* and whose result was not given out.
TableInv ==
    /\ \A x \in DOMAIN procDict :
          LET p == procDict[x] IN
          /\ p \in Procs /\ procPid[p] = x
          /\ call[p] \notin {"start", "started"}
          /\ p \notin killed /\ reported[p] = 0
    /\ \A x \in DOMAIN deadProcs :
          LET p == deadProcs[x] IN
          /\ p \in Procs /\ procPid[p] = x
          /\ waiter[p] = "done" /\ os[p] = "reaped"
          /\ p \notin killed /\ reported[p] = 0
          /\ \A y \in DOMAIN procDict : procDict[y] # p

\* What a launch and its waiter have done to their process.
CallInv ==
    \A p \in Procs :
        /\ call[p] = "start" => os[p] = "none"
        /\ call[p] = "started" => Alive(p)
        /\ call[p] \in {"start", "started"} => p \notin killed
        /\ call[p] = "result" => os[p] = "reaped"
        /\ call[p] # "returned" => waiter[p] = "none" /\ reported[p] = 0
        /\ waiter[p] \in {"result", "done"} => os[p] = "reaped"
        /\ reported[p] <= 1

\* No two processes share a pid while the system knows them, and one that was
\* inserted is found under it.
OwnPidInv ==
    /\ \A p, q \in Procs : Alive(p) /\ Alive(q) /\ procPid[p] = procPid[q] => p = q
    /\ \A p \in Procs : Alive(p) /\ call[p] \notin {"start", "started"} => L!IsOurs(p)

LaunchesInv == LaunchShapes /\ TableInv /\ CallInv /\ OwnPidInv
-----------------------------------------------------------------------------

\* Processes are killed and removed under the lock: nobody else is touched.
LEMMA KillKeeps ==
    ASSUME LaunchesInv, NEW xs, L!KillPids(xs),
           \/ call' = call
           \/ \E p \in Procs : call[p] = "thread" /\ call' = [call EXCEPT ![p] = "raised"]
    PROVE  LaunchesInv'
  <1> DEFINE victims == {procDict[x] : x \in xs \cap DOMAIN procDict}
  <1> USE DEF LaunchesInv, L!NoPid
  <1>1. /\ DOMAIN procDict' = DOMAIN procDict \ xs
        /\ \A x \in DOMAIN procDict' : procDict'[x] = procDict[x]
    BY Zenon DEF L!KillPids, L!Drop, L!Restrict
  <1>2. /\ os' = [p \in Procs |-> IF p \in victims THEN "reaped" ELSE os[p]]
        /\ killed' = killed \cup victims
        /\ UNCHANGED <<procPid, waiter, deadProcs, reported>>
    BY Zenon DEF L!KillPids
  <1>3. /\ call' \in [Procs -> {"start", "started", "thread", "get_result", "result",
                                "returned", "raised"}]
        /\ \A p \in Procs :
              \/ call'[p] = call[p]
              \/ call[p] = "thread" /\ call'[p] = "raised"
    BY Zenon DEF LaunchShapes
  <1>4. \A p \in victims : /\ call[p] \notin {"start", "started"}
                           /\ \A x \in DOMAIN procDict' : procDict'[x] # p
                           /\ \A x \in DOMAIN deadProcs : deadProcs[x] # p
    BY SMTT(30), <1>1 DEF TableInv
  <1>5. LaunchShapes'
    BY Zenon, <1>2, <1>3 DEF LaunchShapes
  <1>6. TableInv'
    <2>1. ASSUME NEW x \in DOMAIN procDict'
          PROVE  /\ procDict'[x] \in Procs /\ procPid'[procDict'[x]] = x
                 /\ call'[procDict'[x]] \notin {"start", "started"}
                 /\ procDict'[x] \notin killed' /\ reported'[procDict'[x]] = 0
      BY SMTT(30), <1>1, <1>2, <1>3, <1>4 DEF TableInv
    <2>2. ASSUME NEW x \in DOMAIN deadProcs'
          PROVE  /\ deadProcs'[x] \in Procs /\ procPid'[deadProcs'[x]] = x
                 /\ waiter'[deadProcs'[x]] = "done" /\ os'[deadProcs'[x]] = "reaped"
                 /\ deadProcs'[x] \notin killed' /\ reported'[deadProcs'[x]] = 0
                 /\ \A y \in DOMAIN procDict' : procDict'[y] # deadProcs'[x]
      BY SMTT(30), <1>1, <1>2, <1>4 DEF TableInv
    <2> QED BY Zenon, <2>1, <2>2 DEF TableInv
  <1>7. CallInv'
    BY SMTT(30), <1>2, <1>3, <1>4 DEF CallInv, Alive, LaunchShapes
  <1>8. \A p \in Procs : Alive(p)' => Alive(p) /\ p \notin victims
    BY Zenon, <1>2 DEF Alive
  <1>9. OwnPidInv'
    <2>1. ASSUME NEW p \in Procs, Alive(p)', call'[p] \notin {"start", "started"}
          PROVE  L!IsOurs(p)'
      BY SMTT(30), <2>1, <1>1, <1>2, <1>3, <1>8 DEF OwnPidInv, L!IsOurs
    <2> QED BY Zenon, <2>1, <1>2, <1>8 DEF OwnPidInv
  <1> QED BY Zenon, <1>5, <1>6, <1>7, <1>9

\* proc.launch() gets a pid that no process has.
LEMMA LaunchKeeps ==
    ASSUME LaunchesInv, NEW p \in Procs, L!Popen(p)
    PROVE  LaunchesInv'
  <1> USE DEF LaunchesInv
  <1>1. PICK x \in Pids : L!Free(x) /\ procPid' = [procPid EXCEPT ![p] = x]
    BY Zenon DEF L!Popen
  <1>2. /\ call[p] = "start" /\ os[p] = "none"
        /\ os' = [os EXCEPT ![p] = "running"] /\ call' = [call EXCEPT ![p] = "started"]
        /\ UNCHANGED <<waiter, procDict, deadProcs, reported, killed>>
    BY Zenon DEF L!Popen, L!dbVars, CallInv
  <1>3. /\ \A y \in DOMAIN procDict : procDict[y] # p
        /\ \A y \in DOMAIN deadProcs : deadProcs[y] # p
    BY SMTT(30), <1>2 DEF TableInv
  <1>4. LaunchShapes'
    BY Zenon, <1>1, <1>2 DEF LaunchShapes
  <1>5. \A q \in Procs : q # p => os'[q] = os[q] /\ procPid'[q] = procPid[q] /\ call'[q] = call[q]
    BY Zenon, <1>1, <1>2 DEF LaunchShapes
  <1>6. os'[p] = "running" /\ procPid'[p] = x /\ call'[p] = "started"
    BY Zenon, <1>1, <1>2 DEF LaunchShapes
  <1>7. TableInv'
    BY SMTT(30), <1>2, <1>3, <1>5 DEF TableInv
  <1>8. CallInv'
    BY SMTT(30), <1>2, <1>5, <1>6 DEF CallInv, Alive
  <1>9. OwnPidInv'
    BY SMTT(30), <1>1, <1>2, <1>5, <1>6 DEF OwnPidInv, Alive, L!Free, L!IsOurs
  <1> QED BY Zenon, <1>4, <1>7, <1>8, <1>9

\* The entry a process takes over is one of a process that was reaped.
LEMMA InsertKeeps ==
    ASSUME LaunchesInv, NEW p \in Procs, L!Insert(p)
    PROVE  LaunchesInv'
  <1> USE DEF LaunchesInv
  <1>1. /\ call[p] = "started" /\ procDict' = L!Assign(procDict, procPid[p], p)
        /\ UNCHANGED <<os, procPid, waiter, deadProcs, reported, killed>>
    BY Zenon DEF L!Insert
  <1>2. /\ DOMAIN procDict' = DOMAIN procDict \cup {procPid[p]}
        /\ procDict'[procPid[p]] = p
        /\ \A y \in DOMAIN procDict : y # procPid[p] => procDict'[y] = procDict[y]
    BY Zenon, <1>1 DEF L!Assign
  <1>3. /\ Alive(p) /\ p \notin killed /\ waiter[p] = "none" /\ reported[p] = 0
    BY Zenon, <1>1 DEF CallInv
  <1>4. call' \in [Procs -> {"start", "started", "thread", "get_result", "result",
                             "returned", "raised"}]
    BY Zenon DEF L!Insert, LaunchShapes
  <1>5. /\ call'[p] \in {"get_result", "thread"}
        /\ \A q \in Procs : q # p => call'[q] = call[q]
    BY Zenon DEF L!Insert, LaunchShapes
  <1>6. \A x \in DOMAIN deadProcs : deadProcs[x] # p
    BY Zenon, <1>3 DEF TableInv, Alive
  <1>7. LaunchShapes'
    BY Zenon, <1>1, <1>4 DEF LaunchShapes
  <1>8. TableInv'
    <2>1. ASSUME NEW x \in DOMAIN procDict'
          PROVE  /\ procDict'[x] \in Procs /\ procPid'[procDict'[x]] = x
                 /\ call'[procDict'[x]] \notin {"start", "started"}
                 /\ procDict'[x] \notin killed' /\ reported'[procDict'[x]] = 0
      <3>1. CASE x = procPid[p]
        BY Zenon, <3>1, <1>1, <1>2, <1>3, <1>5
      <3>2. CASE x # procPid[p]
        BY SMTT(30), <3>2, <1>1, <1>2, <1>5 DEF TableInv
      <3> QED BY Zenon, <3>1, <3>2
    <2>2. ASSUME NEW x \in DOMAIN deadProcs'
          PROVE  /\ deadProcs'[x] \in Procs /\ procPid'[deadProcs'[x]] = x
                 /\ waiter'[deadProcs'[x]] = "done" /\ os'[deadProcs'[x]] = "reaped"
                 /\ deadProcs'[x] \notin killed' /\ reported'[deadProcs'[x]] = 0
                 /\ \A y \in DOMAIN procDict' : procDict'[y] # deadProcs'[x]
      BY SMTT(30), <1>1, <1>2, <1>6 DEF TableInv
    <2> QED BY Zenon, <2>1, <2>2 DEF TableInv
  <1>9. CallInv'
    BY Zenon, <1>1, <1>5 DEF CallInv, Alive
  <1>10. OwnPidInv'
    <2>1. ASSUME NEW q \in Procs, Alive(q), call'[q] \notin {"start", "started"}
          PROVE  procPid[q] \in DOMAIN procDict' /\ procDict'[procPid[q]] = q
      <3>1. CASE q = p
        BY Zenon, <3>1, <1>2
      <3>2. CASE q # p
        <4>1. procPid[q] # procPid[p]
          BY Zenon, <2>1, <3>2, <1>3 DEF OwnPidInv
        <4> QED BY Zenon, <4>1, <2>1, <3>2, <1>2, <1>5 DEF OwnPidInv, L!IsOurs
      <3> QED BY Zenon, <3>1, <3>2
    <2> QED BY Zenon, <2>1, <1>1 DEF OwnPidInv, L!IsOurs, Alive
  <1> QED BY Zenon, <1>7, <1>8, <1>9, <1>10

\* The waiter moves the process only if the entry is still its own.
LEMMA RecordKeeps ==
    ASSUME LaunchesInv, NEW p \in Procs, L!Record(p)
    PROVE  LaunchesInv'
  <1> USE DEF LaunchesInv
  <1>1. /\ waiter[p] = "result" /\ os[p] = "reaped"
        /\ waiter' = [waiter EXCEPT ![p] = "done"]
        /\ UNCHANGED <<os, procPid, call, reported, killed>>
    BY Zenon DEF L!Record, CallInv
  <1>2. /\ LaunchShapes' /\ waiter'[p] = "done"
        /\ \A q \in Procs : q # p => waiter'[q] = waiter[q]
    BY Zenon, <1>1 DEF LaunchShapes
  <1>3. CallInv'
    BY SMTT(30), <1>1, <1>2 DEF CallInv, Alive
  <1>4. CASE L!IsOurs(p)
    <2>1. /\ procDict' = L!Drop(procDict, {procPid[p]})
          /\ deadProcs' = L!Assign(deadProcs, procPid[p], p)
      BY Zenon, <1>4 DEF L!Record
    <2>2. /\ DOMAIN procDict' = DOMAIN procDict \ {procPid[p]}
          /\ \A x \in DOMAIN procDict' : procDict'[x] = procDict[x]
      BY Zenon, <2>1 DEF L!Drop, L!Restrict
    <2>3. /\ DOMAIN deadProcs' = DOMAIN deadProcs \cup {procPid[p]}
          /\ deadProcs'[procPid[p]] = p
          /\ \A y \in DOMAIN deadProcs : y # procPid[p] => deadProcs'[y] = deadProcs[y]
      BY Zenon, <2>1 DEF L!Assign
    <2>4. \A x \in DOMAIN procDict' : procDict'[x] # p
      BY SMTT(30), <2>2 DEF TableInv
    <2>5. p \notin killed /\ reported[p] = 0
      BY SMTT(30), <1>4 DEF TableInv, L!IsOurs
    <2>6. TableInv'
      <3>1. ASSUME NEW x \in DOMAIN procDict'
            PROVE  /\ procDict'[x] \in Procs /\ procPid'[procDict'[x]] = x
                   /\ call'[procDict'[x]] \notin {"start", "started"}
                   /\ procDict'[x] \notin killed' /\ reported'[procDict'[x]] = 0
        BY SMTT(30), <1>1, <2>2 DEF TableInv
      <3>2. ASSUME NEW x \in DOMAIN deadProcs'
            PROVE  /\ deadProcs'[x] \in Procs /\ procPid'[deadProcs'[x]] = x
                   /\ waiter'[deadProcs'[x]] = "done" /\ os'[deadProcs'[x]] = "reaped"
                   /\ deadProcs'[x] \notin killed' /\ reported'[deadProcs'[x]] = 0
                   /\ \A y \in DOMAIN procDict' : procDict'[y] # deadProcs'[x]
        <4>1. CASE x = procPid[p]
          BY Zenon, <4>1, <1>1, <1>2, <2>3, <2>4, <2>5
        <4>2. CASE x # procPid[p]
          BY SMTT(30), <4>2, <1>1, <1>2, <2>2, <2>3 DEF TableInv
        <4> QED BY Zenon, <4>1, <4>2
      <3> QED BY Zenon, <3>1, <3>2 DEF TableInv
    <2>7. OwnPidInv'
      <3>1. ASSUME NEW q \in Procs, Alive(q), call[q] \notin {"start", "started"}
            PROVE  procPid[q] \in DOMAIN procDict' /\ procDict'[procPid[q]] = q
        <4>1. q # p
          BY Zenon, <3>1, <1>1 DEF Alive
        <4> QED BY Zenon, <3>1, <4>1, <1>4, <2>2 DEF OwnPidInv, L!IsOurs
      <3> QED BY Zenon, <3>1, <1>1 DEF OwnPidInv, L!IsOurs, Alive
    <2> QED BY Zenon, <1>2, <1>3, <2>6, <2>7
  <1>5. CASE ~L!IsOurs(p)
    <2>1. UNCHANGED <<procDict, deadProcs>>
      BY Zenon, <1>5 DEF L!Record
    <2>2. TableInv'
      BY SMTT(30), <2>1, <1>1, <1>2 DEF TableInv
    <2>3. OwnPidInv'
      BY Zenon, <2>1, <1>1 DEF OwnPidInv, L!IsOurs, Alive
    <2> QED BY Zenon, <1>2, <1>3, <2>2, <2>3
  <1> QED BY Zenon, <1>4, <1>5

\* launch(wait=True) gives its result out once, and leaves no entry.
LEMMA ResultKeeps ==
    ASSUME LaunchesInv, NEW p \in Procs, L!ReturnResult(p)
    PROVE  LaunchesInv'
  <1> USE DEF LaunchesInv
  <1>1. /\ call[p] = "result" /\ os[p] = "reaped" /\ reported[p] = 0 /\ waiter[p] = "none"
        /\ call' = [call EXCEPT ![p] = "returned"]
        /\ reported' = [reported EXCEPT ![p] = @ + 1]
        /\ UNCHANGED <<os, procPid, waiter, deadProcs, killed>>
    BY Zenon DEF L!ReturnResult, CallInv
  <1>2. /\ LaunchShapes' /\ call'[p] = "returned" /\ reported'[p] = 1
        /\ \A q \in Procs : q # p => call'[q] = call[q] /\ reported'[q] = reported[q]
    BY SMTT(30), <1>1 DEF LaunchShapes
  <1>3. /\ DOMAIN procDict' \subseteq DOMAIN procDict
        /\ \A x \in DOMAIN procDict' : procDict'[x] = procDict[x]
        /\ \A x \in DOMAIN procDict \ DOMAIN procDict' : procDict[x] = p
        /\ \A x \in DOMAIN procDict' : procDict'[x] # p
    <2>1. CASE L!IsOurs(p)
      BY SMTT(30), <2>1 DEF L!Drop, L!Restrict, L!ReturnResult, TableInv, L!IsOurs
    <2>2. CASE ~L!IsOurs(p)
      BY SMTT(30), <2>2 DEF L!ReturnResult, TableInv, L!IsOurs
    <2> QED BY Zenon, <2>1, <2>2
  <1>4. \A x \in DOMAIN deadProcs : deadProcs[x] # p
    BY Zenon, <1>1 DEF TableInv
  <1>5. TableInv'
    BY SMTT(30), <1>1, <1>2, <1>3, <1>4 DEF TableInv
  <1>6. CallInv'
    BY SMTT(30), <1>1, <1>2 DEF CallInv, Alive
  <1>7. OwnPidInv'
    <2>1. ASSUME NEW q \in Procs, Alive(q), call'[q] \notin {"start", "started"}
          PROVE  procPid[q] \in DOMAIN procDict' /\ procDict'[procPid[q]] = q
      <3>1. q # p
        BY Zenon, <2>1, <1>1 DEF Alive
      <3> QED BY Zenon, <3>1, <2>1, <1>2, <1>3 DEF OwnPidInv, L!IsOurs
    <2> QED BY Zenon, <2>1, <1>1 DEF OwnPidInv, L!IsOurs, Alive
  <1> QED BY Zenon, <1>2, <1>5, <1>6, <1>7

\* status gives a kept result out and forgets it.
LEMMA StatusKeeps ==
    ASSUME LaunchesInv, NEW x, L!Status(x)
    PROVE  LaunchesInv'
  <1> USE DEF LaunchesInv
  <1> DEFINE p == deadProcs[x]
  <1>1. /\ p \in Procs /\ procPid[p] = x /\ reported[p] = 0 /\ waiter[p] = "done"
        /\ \A y \in DOMAIN procDict : procDict[y] # p
        /\ reported' = [reported EXCEPT ![p] = @ + 1]
        /\ UNCHANGED <<os, procPid, call, waiter, procDict, killed>>
    BY Zenon DEF L!Status, TableInv
  <1>2. /\ DOMAIN deadProcs' = DOMAIN deadProcs \ {x}
        /\ \A y \in DOMAIN deadProcs' : deadProcs'[y] = deadProcs[y]
    BY Zenon DEF L!Status, L!Drop, L!Restrict
  <1>3. \A y \in DOMAIN deadProcs' : deadProcs'[y] # p
    BY SMTT(30), <1>1, <1>2 DEF TableInv
  <1> HIDE DEF p
  <1>4. /\ LaunchShapes' /\ reported'[p] = 1
        /\ \A q \in Procs : q # p => reported'[q] = reported[q]
    BY SMTT(30), <1>1 DEF LaunchShapes
  <1>5. call[p] = "returned"
    BY Zenon, <1>1 DEF CallInv
  <1>6. TableInv'
    BY SMTT(30), <1>1, <1>2, <1>3, <1>4 DEF TableInv
  <1>7. CallInv'
    BY SMTT(30), <1>1, <1>4, <1>5 DEF CallInv, Alive
  <1>8. OwnPidInv'
    BY Zenon, <1>1 DEF OwnPidInv, L!IsOurs, Alive
  <1> QED BY Zenon, <1>4, <1>6, <1>7, <1>8

\* A launch without a process, the start of a waiter, the end of a process and
\* the return of communicate() leave the tables alone.
LEMMA WaitersKeep ==
    ASSUME LaunchesInv, NEW p \in Procs,
           L!NoProcess(p) \/ L!StartWaiter(p) \/ L!Exit(p) \/ L!Reap(p)
    PROVE  LaunchesInv'
  <1> USE DEF LaunchesInv
  <1>1. UNCHANGED <<procPid, procDict, deadProcs, reported, killed>>
    BY Zenon DEF L!NoProcess, L!StartWaiter, L!Exit, L!Reap, L!dbVars
  <1>2. /\ LaunchShapes'
        /\ \A q \in Procs : q # p => /\ os'[q] = os[q] /\ call'[q] = call[q]
                                     /\ waiter'[q] = waiter[q]
    BY SMTT(30), <1>1 DEF LaunchShapes, L!NoProcess, L!StartWaiter, L!Exit, L!Reap
  <1>3. /\ call'[p] = call[p] \/ (call[p] = "start" /\ call'[p] \in {"returned", "raised"})
              \/ (call[p] = "thread" /\ call'[p] = "returned")
              \/ (call[p] = "get_result" /\ call'[p] = "result" /\ os'[p] = "reaped")
        /\ os'[p] = os[p] \/ (os[p] = "running" /\ os'[p] = "exited") \/ os'[p] = "reaped"
        /\ waiter'[p] = waiter[p]
              \/ (waiter[p] = "none" /\ call'[p] = "returned" /\ waiter'[p] = "waiting")
              \/ (waiter[p] = "waiting" /\ waiter'[p] = "result" /\ os'[p] = "reaped")
        /\ call[p] \in {"start", "started"} => os'[p] # "reaped"
    BY SMTT(30) DEF LaunchShapes, L!NoProcess, L!StartWaiter, L!Exit, L!Reap, CallInv,
       Alive
  <1>4. Alive(p)' => Alive(p)
    BY Zenon, <1>3 DEF Alive
  <1>5. os[p] = "reaped" => os'[p] = "reaped"
    BY Zenon, <1>3
  <1>6. os[p] = "none" => os'[p] = "none"
    BY Zenon DEF LaunchShapes, L!NoProcess, L!StartWaiter, L!Exit, L!Reap
  <1>7. TableInv'
    <2>1. \A q \in Procs : /\ call[q] \notin {"start", "started"} =>
                                  call'[q] \notin {"start", "started"}
                           /\ waiter[q] = "done" => waiter'[q] = "done"
                           /\ os[q] = "reaped" => os'[q] = "reaped"
      BY Zenon, <1>2, <1>3, <1>5 DEF CallInv
    <2> QED BY SMTT(30), <1>1, <2>1 DEF TableInv
  <1>8. CallInv'
    BY SMTT(30), <1>1, <1>2, <1>3, <1>5, <1>6 DEF CallInv, Alive
  <1>9. OwnPidInv'
    BY SMTT(30), <1>1, <1>2, <1>3, <1>4, <1>6 DEF OwnPidInv, L!IsOurs, Alive, CallInv
  <1> QED BY Zenon, <1>2, <1>7, <1>8, <1>9

\* A launcher starts with empty tables and no process.
LEMMA LaunchesStart == L!Init => LaunchesInv
  BY SMTT(30) DEF L!Init, LaunchesInv, LaunchShapes, TableInv, CallInv, OwnPidInv,
     Alive, L!IsOurs, L!NoPid

\* Every step of the launcher keeps it.
LEMMA LaunchesStep == LaunchesInv /\ [L!Next]_(L!vars) => LaunchesInv'
  <1> SUFFICES ASSUME LaunchesInv, [L!Next]_(L!vars) PROVE LaunchesInv'
    BY Zenon
  <1>1. CASE UNCHANGED L!vars
    BY SMTT(30), <1>1 DEF L!vars, L!dbVars, LaunchesInv, LaunchShapes, TableInv,
       CallInv, OwnPidInv, Alive, L!IsOurs
  <1>2. ASSUME NEW p \in Procs, L!StartFails(p) PROVE LaunchesInv'
    BY Zenon, <1>2, KillKeeps DEF L!StartFails
  <1>3. ASSUME NEW x \in Pids, L!Kill(x) PROVE LaunchesInv'
    BY Zenon, <1>3, KillKeeps DEF L!Kill
  <1>4. CASE L!Shutdown
    BY Zenon, <1>4, KillKeeps DEF L!Shutdown
  <1> QED
    BY Zenon, <1>1, <1>2, <1>3, <1>4, LaunchKeeps, InsertKeeps, RecordKeeps, ResultKeeps,
       StatusKeeps, WaitersKeep DEF L!Next

\* A process whose launch has returned is in the table under its pid while it
\* runs; a result that is kept was not given out yet and is not that of a
\* killed process or of one in the table; and no result is given out twice
\* (launch, status, kill, shutdown).
THEOREM EveryProcessAccounted == L!Spec => []EveryoneAccounted
  <1>1. LaunchesInv => EveryoneAccounted
    BY SMTT(30) DEF LaunchesInv, LaunchShapes, TableInv, CallInv, OwnPidInv, Alive,
           EveryoneAccounted, L!EveryoneAccounted, L!Range
  <1> QED BY <1>1, LaunchesStart, LaunchesStep, PTL DEF L!Spec
-----------------------------------------------------------------------------
(* The event queue of a client *)

INSTANCE FiniteSetTheorems

\* Shapes of the state.
QueueShapes ==
    /\ lock \in Events \cup Q!Consumers \cup {Q!None}
    /\ queue \subseteq Events /\ IsFiniteSet(queue)
    /\ pipe \in Nat
    /\ putter \in [Events -> {"start", "write", "done"}]
    /\ getter \in [Q!Consumers -> {"select", "get", "read"}]
    /\ res \in [Q!Consumers -> SUBSET Events]
    /\ returned \in [Q!Consumers -> SUBSET Events]
    /\ \A c \in Q!Consumers : IsFiniteSet(res[c])

\* The lock is held by the call that is inside it.
LockInv ==
    /\ \A e \in Events : putter[e] = "write" <=> lock = e
    /\ \A c \in Q!Consumers : /\ getter[c] = "read" <=> lock = c
                              /\ getter[c] # "read" => res[c] = {}

\* The bytes that are missing or left over while somebody holds the lock.
BytesInv ==
    /\ lock = Q!None => pipe = Cardinality(queue)
    /\ lock \in Events => pipe + 1 = Cardinality(queue)
    /\ lock \in Q!Consumers => pipe = Cardinality(queue) + Cardinality(res[lock])

\* Every event that was put is in one place.
PlacesInv ==
    /\ \A e \in Events : putter[e] # "start" <=>
           e \in queue \/ \E c \in Q!Consumers : e \in res[c] \/ e \in returned[c]
    /\ \A e \in queue : \A c \in Q!Consumers : e \notin res[c] /\ e \notin returned[c]
    /\ \A c \in Q!Consumers : \A e \in res[c] : e \notin returned[c]
    /\ \A e \in Events : e \in res["some"] \/ e \in returned["some"] =>
                           e \notin res["all"] /\ e \notin returned["all"]

QueueInv == QueueShapes /\ LockInv /\ BytesInv /\ PlacesInv

-----------------------------------------------------------------------------

\* Putters, consumers and nobody are told apart.
LEMMA Holders ==
    /\ Q!None \notin Events /\ Q!None \notin Q!Consumers
    /\ \A e \in Events : e \notin Q!Consumers
  BY Zenon, QueueAssumption DEF Q!None, Q!Consumers

\* The module EventQueue counts as this one does.
LEMMA SameCount == \A T : Q!Cardinality(T) = Cardinality(T)
  BY Zenon DEF Q!Cardinality, Cardinality

\* put: the event is in the queue before its byte is in the pipe.
LEMMA AppendKeeps ==
    ASSUME QueueInv, NEW e \in Events, Q!AppendEvent(e)
    PROVE  QueueInv'
  <1> USE DEF QueueInv
  <1>1. /\ putter[e] = "start" /\ lock = Q!None /\ lock' = e /\ queue' = queue \cup {e}
        /\ putter' = [putter EXCEPT ![e] = "write"]
        /\ UNCHANGED <<pipe, getter, res, returned>>
    BY Zenon DEF Q!AppendEvent
  <1>2. e \notin queue /\ \A c \in Q!Consumers : e \notin res[c] /\ e \notin returned[c]
    BY Zenon, <1>1 DEF PlacesInv
  <1>3. IsFiniteSet(queue') /\ Cardinality(queue') = Cardinality(queue) + 1
    BY Zenon, <1>1, <1>2, FS_AddElement DEF QueueShapes
  <1>4. QueueShapes'
    BY Zenon, <1>1, <1>3 DEF QueueShapes
  <1>5. BytesInv'
    BY Zenon, <1>1, <1>3, Holders DEF BytesInv
  <1>6. PlacesInv'
    BY Zenon, <1>1, <1>2 DEF PlacesInv, QueueShapes
  <1>7. LockInv'
    BY SMTT(30), <1>1, Holders DEF LockInv, QueueShapes
  <1> QED BY Zenon, <1>4, <1>5, <1>6, <1>7

\* put: the byte follows, and the lock is released.
LEMMA WriteKeeps ==
    ASSUME QueueInv, NEW e \in Events, Q!WriteByte(e)
    PROVE  QueueInv'
  <1> USE DEF QueueInv
  <1>1. /\ putter[e] = "write" /\ lock = e /\ lock' = Q!None /\ pipe' = pipe + 1
        /\ putter' = [putter EXCEPT ![e] = "done"]
        /\ UNCHANGED <<queue, getter, res, returned>>
    BY Zenon DEF Q!WriteByte, LockInv
  <1>2. QueueShapes'
    BY SMTT(30), <1>1 DEF QueueShapes
  <1>3. BytesInv'
    BY Zenon, <1>1, Holders DEF BytesInv
  <1>4. PlacesInv'
    BY Zenon, <1>1 DEF PlacesInv, QueueShapes
  <1>5. LockInv'
    BY Zenon, <1>1, Holders DEF LockInv, QueueShapes
  <1> QED BY Zenon, <1>2, <1>3, <1>4, <1>5

\* The consumer's select finds the pipe readable; nothing moves.
LEMMA SelectKeeps ==
    ASSUME QueueInv, NEW c \in Q!Consumers, Q!Readable(c)
    PROVE  QueueInv'
  <1> USE DEF QueueInv
  <1>1. /\ getter[c] = "select" /\ getter' = [getter EXCEPT ![c] = "get"]
        /\ UNCHANGED <<lock, queue, pipe, putter, res, returned>>
    BY Zenon DEF Q!Readable
  <1>2. QueueShapes'
    BY Zenon, <1>1 DEF QueueShapes
  <1>3. \A d \in Q!Consumers :
            (getter'[d] = "read" <=> getter[d] = "read") /\ res'[d] = res[d]
    BY Zenon, <1>1 DEF QueueShapes
  <1>4. LockInv'
    BY Zenon, <1>1, <1>3 DEF LockInv
  <1> QED BY Zenon, <1>1, <1>2, <1>4 DEF BytesInv, PlacesInv

\* get: the accepted events leave the queue, and their bytes stay in the pipe.
LEMMA CollectKeeps ==
    ASSUME QueueInv, NEW c \in Q!Consumers, Q!Collect(c)
    PROVE  QueueInv'
  <1> USE DEF QueueInv
  <1>1. /\ getter[c] = "get" /\ lock = Q!None /\ lock' = c
        /\ res' = [res EXCEPT ![c] = queue \cap Q!Accepts(c)]
        /\ queue' = queue \ Q!Accepts(c)
        /\ getter' = [getter EXCEPT ![c] = "read"]
        /\ UNCHANGED <<pipe, putter, returned>>
    BY Zenon DEF Q!Collect
  <1>2. /\ res[c] = {} /\ res'[c] = queue \cap Q!Accepts(c)
        /\ \A d \in Q!Consumers : d # c => res'[d] = res[d]
    BY Zenon, <1>1 DEF QueueShapes, LockInv
  <1>3. /\ IsFiniteSet(queue') /\ IsFiniteSet(res'[c])
        /\ Cardinality(queue) = Cardinality(queue') + Cardinality(res'[c])
    <2>1. IsFiniteSet(queue) /\ queue' \subseteq queue /\ res'[c] \subseteq queue
      BY Zenon, <1>1, <1>2 DEF QueueShapes
    <2>2. /\ IsFiniteSet(queue') /\ IsFiniteSet(res'[c])
          /\ Cardinality(queue) \in Nat /\ Cardinality(queue') \in Nat
          /\ Cardinality(res'[c]) \in Nat
      BY Zenon, <2>1, FS_Subset, FS_CardinalityType
    <2>3. Cardinality(queue \ Q!Accepts(c)) =
              Cardinality(queue) - Cardinality(queue \cap Q!Accepts(c))
      BY Zenon, <2>1, FS_Difference
    <2>4. Cardinality(queue') = Cardinality(queue) - Cardinality(res'[c])
      BY Zenon, <1>1, <1>2, <2>3
    <2> QED BY SMTT(30), <2>2, <2>4
  <1>4. QueueShapes'
    BY Zenon, <1>1, <1>2, <1>3 DEF QueueShapes
  <1>5. BytesInv'
    BY Zenon, <1>1, <1>3, Holders DEF BytesInv
  <1>6. PlacesInv'
    BY Zenon, <1>1, <1>2 DEF PlacesInv, QueueShapes, Q!Consumers
  <1>7. LockInv'
    BY SMTT(30), <1>1, <1>2, Holders DEF LockInv, QueueShapes
  <1> QED BY Zenon, <1>4, <1>5, <1>6, <1>7

\* get: as many bytes are read as events were taken.
LEMMA ReadKeeps ==
    ASSUME QueueInv, NEW c \in Q!Consumers, Q!ReadBytes(c)
    PROVE  QueueInv'
  <1> USE DEF QueueInv
  <1>0. getter[c] = "read" /\ lock = c
    BY Zenon DEF Q!ReadBytes, LockInv
  <1>1. /\ getter[c] = "read" /\ lock = c /\ lock' = Q!None
        /\ pipe' = IF Cardinality(res[c]) < pipe THEN pipe - Cardinality(res[c]) ELSE 0
        /\ returned' = [returned EXCEPT ![c] = @ \cup res[c]]
        /\ res' = [res EXCEPT ![c] = {}]
        /\ getter' = [getter EXCEPT ![c] = "select"]
        /\ UNCHANGED <<queue, putter>>
    BY Zenon, <1>0, SameCount DEF Q!ReadBytes
  <1>2. Cardinality(res[c]) \in Nat /\ Cardinality(queue) \in Nat
    BY Zenon, FS_CardinalityType DEF QueueShapes
  <1>3. pipe' = Cardinality(queue)
    BY SMTT(30), <1>1, <1>2 DEF BytesInv
  <1>4. /\ res'[c] = {} /\ returned'[c] = returned[c] \cup res[c]
        /\ \A d \in Q!Consumers : d # c => res'[d] = res[d] /\ returned'[d] = returned[d]
    BY Zenon, <1>1 DEF QueueShapes
  <1>5. QueueShapes'
    BY SMTT(30), <1>1, <1>2, <1>3, <1>4, FS_EmptySet DEF QueueShapes
  <1>6. BytesInv'
    BY Zenon, <1>1, <1>3, Holders DEF BytesInv
  <1>7. PlacesInv'
    BY SMTT(30), <1>1, <1>4 DEF PlacesInv, QueueShapes, Q!Consumers
  <1>8. LockInv'
    BY SMTT(30), <1>1, <1>4, Holders DEF LockInv, QueueShapes
  <1> QED BY Zenon, <1>5, <1>6, <1>7, <1>8

\* The queue and the pipe start empty.
LEMMA QueueStarts == Q!Init => QueueInv
  <1> SUFFICES ASSUME Q!Init PROVE QueueInv
    BY Zenon
  <1>1. QueueShapes /\ LockInv
    BY Zenon, FS_EmptySet, Holders DEF Q!Init, QueueShapes, LockInv
  <1>2. BytesInv
    BY Zenon, FS_EmptySet, Holders DEF Q!Init, BytesInv
  <1>3. PlacesInv
    BY Zenon DEF Q!Init, PlacesInv, Q!Consumers
  <1> QED BY Zenon, <1>1, <1>2, <1>3 DEF QueueInv

\* Every step of a putter and of a consumer keeps the invariant.
LEMMA QueueSteps == QueueInv /\ [Q!Next]_(Q!vars) => QueueInv'
  <1> SUFFICES ASSUME QueueInv, [Q!Next]_(Q!vars) PROVE QueueInv'
    BY Zenon
  <1>1. CASE UNCHANGED Q!vars
    BY Zenon, <1>1 DEF Q!vars, QueueInv, QueueShapes, LockInv, BytesInv, PlacesInv
  <1> QED
    BY SMTT(30), <1>1, AppendKeeps, WriteKeeps, SelectKeeps, CollectKeeps,
       ReadKeeps DEF Q!Next

\* An event that was put is in the queue or with one consumer, never in two
\* places, and the pipe holds one byte for each event in the queue whenever no
\* call is inside the lock (BaseEventAPI.put, BaseEventAPI.get).
THEOREM QueueAgrees == Q!Spec => []EventsAgree
  <1>1. QueueInv => EventsAgree
    <2> SUFFICES ASSUME QueueInv PROVE EventsAgree
      BY Zenon
    <2>1. queue \cup UNION {Q!Got(c) : c \in Q!Consumers} = {e \in Events : putter[e] # "start"}
      BY SMTT(30) DEF QueueInv, PlacesInv, QueueShapes, Q!Got
    <2>2. /\ \A c \in Q!Consumers : queue \cap Q!Got(c) = {} /\ res[c] \cap returned[c] = {}
          /\ Q!Got("some") \cap Q!Got("all") = {}
      BY Zenon DEF QueueInv, PlacesInv, QueueShapes, Q!Got, Q!Consumers
    <2>3. lock = Q!None => pipe = Q!Cardinality(queue)
      BY Zenon, SameCount DEF QueueInv, BytesInv
    <2> QED BY Zenon, <2>1, <2>2, <2>3 DEF EventsAgree, Q!EventsAgree
  <1> QED BY <1>1, QueueStarts, QueueSteps, PTL DEF Q!Spec
=============================================================================
