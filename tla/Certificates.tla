---------------------------- MODULE Certificates ----------------------------
(***************************************************************************)
(* The certificates of a namespace: createCA and createServiceCert on      *)
(* vanilla Kubernetes, the config map with the injected bundle on          *)
(* OpenShift, and the start of the operator, which decides between them    *)
(* once by asking the cluster for the routes API.                          *)
(*                                                                         *)
(* Several Horreum resources share the one config map service-ca.crt.      *)
(* Several operator processes may be at work: leader election is off by    *)
(* default, and with it a former leader may still be in the middle of a    *)
(* pass.  Objects carry the key of the CA that signed them.                *)
(*                                                                         *)
(* A cached read and the write that follows are one step, as in Reconcile. *)
(* The cache of Horreum resources does not lag here; a pass keeps the copy *)
(* it read first.                                                          *)
(***************************************************************************)
EXTENDS Integers, FiniteSets

CONSTANTS
    Owners,     \* Horreum resources of the namespace
    Early,      \* those that exist when the operator is first started
    Operators,  \* operator processes
    Main,       \* the one the deployment keeps running; others are started by hand
    Keys,       \* private keys: bounds the CAs that are in use at a time
    Absent,     \* there is no such object
    Scenarios   \* the platform, and how often each disturbance may happen

Disturbances == {"fault", "crash", "discovery", "second", "delete", "remove", "create"}

\* The operator's objects: a CA secret and two certificate secrets for each
\* resource, and the config map service-ca.crt.
Services == {"app", "keycloak"}
CaSecret(o) == <<"ca", o>>
Cert(s, o)  == <<s, o>>
CaMap       == <<"service-ca.crt", "namespace">>
Secrets     == ({"ca"} \cup Services) \X Owners
Slots       == Secrets \cup {CaMap}

\* Who signed an object: a CA of the operator, the CA of the cluster, or (in
\* a bundle still to be injected) nobody.  An unreadable CA secret holds no key.
Signers == Keys \cup {"cluster", "nobody", "unreadable"}
\* orphan says that the incarnation of the owner in the reference is gone.
Object == [key : Signers, owner : Owners, orphan : BOOLEAN]

ASSUME OwnersAssumption == IsFiniteSet(Owners) /\ Owners # {} /\ Early \subseteq Owners
ASSUME KeysAssumption   == {"cluster", "nobody", "unreadable"} \cap Keys = {}
ASSUME AbsentAssumption == Absent \notin Object
ASSUME OperatorsAssumption == Main \in Operators
ASSUME ScenariosAssumption ==
    Scenarios \subseteq [openshift : BOOLEAN, budget : [Disturbances -> Nat]]

VARIABLES
    openshift,  \* the cluster has the routes API, and a CA of its own
    live,       \* the resources that exist
    api,        \* API server: the objects
    served,     \* resources whose services exist
    lost,       \* keys of CA secrets that are gone, while something uses them
    up,         \* per process: it runs
    routes,     \* per process: routesAvailable, decided at its start
    cache,      \* per process: the objects in its informers
    queue,      \* per process: requests in the work queue
    pc,         \* per process: the next step of the pass
    mem,        \* per process: local variables of the pass
    budget      \* disturbances left

cluster == <<openshift, live, served>>
vars == <<openshift, live, api, served, lost, up, routes, cache, queue, pc, mem, budget>>

Calls == {"idle", "injected", "ca", "map", "app", "keycloak", "services"}
\* The resource of the pass, whether it was deleted since, and the CA.
Mem  == [owner : Owners, orphan : BOOLEAN, key : Signers]
Idle == [owner |-> CHOOSE o \in Owners : TRUE, orphan |-> FALSE, key |-> "nobody"]

Spend(d) == budget[d] > 0 /\ budget' = [budget EXCEPT ![d] = @ - 1]

----------------------------------------------------------------------------
(* API server and informers.                                               *)

Exists(objects, x) == objects[x] # Absent
KeysOf(objects) == {objects[x].key : x \in {y \in Slots : Exists(objects, y)}}
CaKeys(objects) == {objects[x].key : x \in {y \in {"ca"} \X Owners : Exists(objects, y)}}

\* The keys something still uses, or may read from a cache.
InUse(objects, caches, m) ==
    Keys \cap (KeysOf(objects) \cup UNION {KeysOf(caches[p]) \cup {m[p].key} : p \in Operators})

\* The objects change; the keys of CA secrets that vanish are lost.
Commit(objects) ==
    /\ api' = objects
    /\ lost' = (lost \cup (CaKeys(api) \ CaKeys(objects))) \cap InUse(objects, cache', mem')

\* The resources that hear of the objects of a kind that differ between two
\* views: secrets made by the cluster belong to a service.
Hears(x, objects) ==
    IF ~Exists(objects, x) \/ (x \in Secrets /\ objects[x].key = "cluster") THEN {}
    ELSE {objects[x].owner}
Changed(kind, before, after) ==
    UNION {Hears(x, before) \cup Hears(x, after) : x \in {y \in kind : before[y] # after[y]}}

\* An informer catches up; the owners of what has changed are queued.
Sync(p, kind) ==
    /\ up[p] /\ \E x \in kind : cache[p][x] # api[x]
    /\ cache' = [cache EXCEPT ![p] = [x \in Slots |-> IF x \in kind THEN api[x] ELSE @[x]]]
    /\ queue' = [queue EXCEPT ![p] = @ \cup Changed(kind, cache[p], api)]
    /\ UNCHANGED <<cluster, api, lost, up, routes, pc, mem, budget>>

Resync(p) ==
    /\ up[p] /\ pc[p] = "idle" /\ queue[p] = {} /\ live # {}
    /\ queue' = [queue EXCEPT ![p] = live]
    /\ UNCHANGED <<cluster, api, lost, up, routes, cache, pc, mem, budget>>

----------------------------------------------------------------------------
(* A pass.                                                                 *)

Process == <<cluster, up, routes, cache>>

Go(p, step, m) ==
    /\ pc' = [pc EXCEPT ![p] = step]
    /\ mem' = [mem EXCEPT ![p] = m]
    /\ UNCHANGED <<Process, queue>>

\* Mutant: a failed pass leaves its CA behind.
Fail_MemKept(p) ==
    /\ pc' = [pc EXCEPT ![p] = "idle"]
    /\ queue' = [queue EXCEPT ![p] = @ \cup {mem[p].owner}]
    /\ UNCHANGED <<Process, mem>>

\* The pass returns an error: the request is queued again.
Fail(p) ==
    /\ pc' = [pc EXCEPT ![p] = "idle"]
    /\ mem' = [mem EXCEPT ![p] = Idle]
    /\ queue' = [queue EXCEPT ![p] = @ \cup {mem[p].owner}]
    /\ UNCHANGED Process

Begin(p, o) ==
    /\ up[p] /\ pc[p] = "idle" /\ o \in queue[p]
    /\ queue' = [queue EXCEPT ![p] = @ \ {o}]
    /\ IF o \in live
       THEN /\ pc' = [pc EXCEPT ![p] = IF routes[p] THEN "injected" ELSE "ca"]
            /\ mem' = [mem EXCEPT ![p].owner = o]
       ELSE UNCHANGED <<pc, mem>>
    /\ UNCHANGED <<Process, api, lost, budget>>

New(p, key) == [key |-> key, owner |-> mem[p].owner, orphan |-> mem[p].orphan]

\* Create x, signed by key, and go on with step and local variables m; or the
\* API server refuses, or the call fails before or after taking effect.
CreateObject(p, x, key, step, m) ==
    LET created == [api EXCEPT ![x] = New(p, key)] IN
    \/ /\ ~Exists(api, x)
       /\ Go(p, step, m) /\ Commit(created) /\ UNCHANGED budget
    \/ /\ ~Exists(api, x)
       /\ Fail(p) /\ Commit(created) /\ Spend("fault")
    \/ /\ Fail(p) /\ Commit(api)
       /\ IF Exists(api, x) THEN UNCHANGED budget ELSE Spend("fault")

\* What is in the cache is kept, whoever made it; else it is created.
EnsureObject(p, x, key, step, m) ==
    IF Exists(cache[p], x)
    THEN Go(p, step, m) /\ UNCHANGED <<api, lost, budget>>
    ELSE CreateObject(p, x, key, step, m)

\* A read fails.
GetFails(p) ==
    /\ pc[p] \notin {"idle", "services"}
    /\ Fail(p) /\ UNCHANGED <<api, lost>> /\ Spend("fault")

\* With routes: the config map the cluster injects its CA into.
Injected(p) == pc[p] = "injected" /\ EnsureObject(p, CaMap, "nobody", "services", mem[p])

\* A new CA has a key that nothing uses.
Unused == Keys \ (lost \cup InUse(api, cache, mem))
Fresh  == CHOOSE k \in Unused : TRUE

\* Mutant: the config map is only made together with the CA.
CreateCa_WithMap(p) ==
    LET x == CaSecret(mem[p].owner) IN
    /\ pc[p] = "ca"
    /\ IF Exists(cache[p], x)
       THEN /\ Go(p, "app", [mem[p] EXCEPT !.key = cache[p][x].key])
            /\ UNCHANGED <<api, lost, budget>>
       ELSE /\ Unused # {}
            /\ CreateObject(p, x, Fresh, "map", [mem[p] EXCEPT !.key = Fresh])

\* Mutant: createCA goes on with a CA that it could not save.
CreateCa_Unsaved(p) ==
    LET x == CaSecret(mem[p].owner) IN
    /\ pc[p] = "ca"
    /\ IF Exists(cache[p], x)
       THEN /\ Go(p, "map", [mem[p] EXCEPT !.key = cache[p][x].key])
            /\ UNCHANGED <<api, lost, budget>>
       ELSE /\ Unused # {}
            /\ \/ CreateObject(p, x, Fresh, "map", [mem[p] EXCEPT !.key = Fresh])
               \/ /\ Go(p, "map", [mem[p] EXCEPT !.key = Fresh])
                  /\ Exists(api, x) /\ UNCHANGED <<api, lost, budget>>

\* createCA, first half: find the CA, or generate and save one.
CreateCa(p) ==
    LET x == CaSecret(mem[p].owner) IN
    /\ pc[p] = "ca"
    /\ \/ /\ Exists(cache[p], x) /\ cache[p][x].key = "unreadable"
          /\ Fail(p) /\ UNCHANGED <<api, lost, budget>>
       \/ /\ Exists(cache[p], x) /\ cache[p][x].key # "unreadable"
          /\ Go(p, "map", [mem[p] EXCEPT !.key = cache[p][x].key])
          /\ UNCHANGED <<api, lost, budget>>
       \/ /\ ~Exists(cache[p], x) /\ Unused # {}
          /\ CreateObject(p, x, Fresh, "map", [mem[p] EXCEPT !.key = Fresh])

\* createCA, second half: the config map.
CreateCaMap(p) == pc[p] = "map" /\ EnsureObject(p, CaMap, mem[p].key, "app", mem[p])

CreateServiceCert(p, s) ==
    /\ pc[p] = s
    /\ EnsureObject(p, Cert(s, mem[p].owner), mem[p].key,
                    IF s = "app" THEN "keycloak" ELSE "services", mem[p])

\* The rest of the pass, of which only the services matter here.
Finish(p) ==
    /\ pc[p] = "services"
    /\ pc' = [pc EXCEPT ![p] = "idle"] /\ mem' = [mem EXCEPT ![p] = Idle]
    /\ served' = IF mem[p].orphan THEN served ELSE served \cup {mem[p].owner}
    /\ UNCHANGED <<openshift, live, api, lost, up, routes, cache, queue, budget>>

\* main: the routes API is looked for once; when the call fails the operator
\* takes the cluster for vanilla Kubernetes.
Start(p) ==
    /\ ~up[p] /\ up' = [up EXCEPT ![p] = TRUE]
    /\ p # Main => budget["second"] > 0
    /\ \E fails \in {f \in BOOLEAN : f => openshift /\ budget["discovery"] > 0} :
         /\ routes' = [routes EXCEPT ![p] = openshift /\ ~fails]
         /\ budget' = [budget EXCEPT !["discovery"] = @ - IF fails THEN 1 ELSE 0,
                                     !["second"] = @ - IF p = Main THEN 0 ELSE 1]
    /\ cache' = [cache EXCEPT ![p] = api] /\ queue' = [queue EXCEPT ![p] = live]
    /\ UNCHANGED <<cluster, api, lost, pc, mem>>

Crash(p) ==
    /\ up[p] /\ up' = [up EXCEPT ![p] = FALSE] /\ Spend("crash")
    /\ pc' = [pc EXCEPT ![p] = "idle"] /\ mem' = [mem EXCEPT ![p] = Idle]
    /\ queue' = [queue EXCEPT ![p] = {}]
    /\ UNCHANGED <<cluster, api, lost, routes, cache>>

Step(p) ==
    \/ GetFails(p) \/ Injected(p) \/ CreateCa(p) \/ CreateCaMap(p) \/ Finish(p)
    \/ \E s \in Services : CreateServiceCert(p, s)

----------------------------------------------------------------------------
(* The rest of the cluster.                                                *)

Elsewhere == UNCHANGED <<openshift, up, routes, cache, pc, mem>>

\* The service CA of OpenShift fills in the bundle, and makes certificates for
\* annotated services that have none.
Inject ==
    /\ openshift /\ Exists(api, CaMap)
    /\ api[CaMap].key = "nobody"
    /\ Elsewhere /\ Commit([api EXCEPT ![CaMap].key = "cluster"])
    /\ UNCHANGED <<live, served, queue, budget>>

Serve(s, o) ==
    /\ openshift /\ o \in served /\ ~Exists(api, Cert(s, o))
    /\ Elsewhere
    /\ Commit([api EXCEPT ![Cert(s, o)] = [key |-> "cluster", owner |-> o, orphan |-> FALSE]])
    /\ UNCHANGED <<live, served, queue, budget>>

\* Objects whose owner is gone are collected: the secrets of a resource, and
\* the config map before or after them.
Batches == {{x \in Secrets : x[2] = o} : o \in Owners} \cup {{CaMap}}

CollectGarbage(batch) ==
    LET garbage == {x \in batch : Exists(api, x) /\ api[x].orphan} IN
    /\ garbage # {}
    /\ Elsewhere /\ Commit([x \in Slots |-> IF x \in garbage THEN Absent ELSE api[x]])
    /\ UNCHANGED <<live, served, queue, budget>>

\* Somebody deletes an object, or overwrites a CA secret.
Meddle(x) ==
    /\ Exists(api, x) /\ Elsewhere
    /\ \/ Commit([api EXCEPT ![x] = Absent])
       \/ x \in {"ca"} \X Owners /\ Commit([api EXCEPT ![x].key = "unreadable"])
    /\ UNCHANGED <<live, served, queue>> /\ Spend("delete")

Orphaned(objects, o) ==
    [x \in Slots |-> IF Exists(objects, x)
                     THEN [objects[x] EXCEPT !.orphan = @ \/ objects[x].owner = o]
                     ELSE Absent]

Queue(o) == [p \in Operators |-> IF up[p] THEN queue[p] \cup {o} ELSE queue[p]]

\* A resource is deleted, and created again under the same name.
DeleteHorreum(o) ==
    /\ o \in live /\ live' = live \ {o} /\ served' = served \ {o}
    /\ api' = Orphaned(api, o)
    /\ cache' = [p \in Operators |-> Orphaned(cache[p], o)]
    /\ mem' = [p \in Operators |-> IF pc[p] # "idle" /\ mem[p].owner = o
                                   THEN [mem[p] EXCEPT !.orphan = TRUE] ELSE mem[p]]
    /\ queue' = Queue(o)
    /\ UNCHANGED <<openshift, lost, up, routes, pc>> /\ Spend("remove")

CreateHorreum(o) ==
    /\ o \notin live /\ live' = live \cup {o}
    /\ queue' = Queue(o)
    /\ UNCHANGED <<openshift, api, served, lost, up, routes, cache, pc, mem>>
    /\ Spend("create")

Init ==
    /\ \E s \in Scenarios : openshift = s.openshift /\ budget = s.budget
    /\ live = Early /\ served = {} /\ lost = {}
    /\ api = [x \in Slots |-> Absent]
    /\ up = [p \in Operators |-> FALSE] /\ routes = [p \in Operators |-> FALSE]
    /\ cache = [p \in Operators |-> api] /\ queue = [p \in Operators |-> {}]
    /\ pc = [p \in Operators |-> "idle"] /\ mem = [p \in Operators |-> Idle]

Operator(p) == (\E o \in Owners : Begin(p, o)) \/ Step(p) \/ Start(p)
Informer(p) == Sync(p, Secrets) \/ Sync(p, {CaMap}) \/ Resync(p)
Cluster     == \/ Inject \/ \E b \in Batches : CollectGarbage(b)
               \/ \E s \in Services, o \in Owners : Serve(s, o)
Trouble     == \/ \E p \in Operators : Crash(p)
               \/ \E x \in Slots : Meddle(x)
               \/ \E o \in Owners : DeleteHorreum(o) \/ CreateHorreum(o)

Next == (\E p \in Operators : Operator(p) \/ Informer(p)) \/ Cluster \/ Trouble

Spec == Init /\ [][Next]_vars

\* Processes run and are started again; the queue hands out every request in
\* its turn; watches deliver and resync; the cluster's controllers work.
Fairness ==
    /\ \A p \in Operators :
         /\ WF_vars(Step(p))
         /\ \A o \in Owners : SF_vars(Begin(p, o))
         /\ WF_vars(Sync(p, Secrets)) /\ WF_vars(Sync(p, {CaMap})) /\ WF_vars(Resync(p))
    /\ WF_vars(Start(Main)) /\ WF_vars(Inject)
    /\ \A b \in Batches : WF_vars(CollectGarbage(b))
    /\ \A s \in Services, o \in Owners : WF_vars(Serve(s, o))

FairSpec == Spec /\ Fairness

----------------------------------------------------------------------------
(* Properties.                                                             *)

\* Every variable has its type, services belong to live resources, and no pass
\* leaves a CA behind for the next (Reconcile has no state).
TypeOK ==
    /\ openshift \in BOOLEAN /\ live \subseteq Owners /\ served \subseteq live
    /\ api \in [Slots -> Object \cup {Absent}] /\ lost \subseteq Keys
    /\ up \in [Operators -> BOOLEAN] /\ routes \in [Operators -> BOOLEAN]
    /\ cache \in [Operators -> [Slots -> Object \cup {Absent}]]
    /\ queue \in [Operators -> SUBSET Owners]
    /\ pc \in [Operators -> Calls] /\ mem \in [Operators -> Mem]
    /\ \A p \in Operators : pc[p] = "idle" => mem[p] = Idle
    /\ budget \in [Disturbances -> Nat]

\* Every certificate and config map signed by a CA of the operator belongs to
\* a resource whose CA secret holds that CA, or that CA secret is gone: with
\* stale caches, failing calls, crashes and a second process nothing is ever
\* signed by a CA that was not saved first (createCA, createServiceCert).
SavedCa ==
    \A x \in Slots : Exists(api, x) /\ api[x].key \in Keys \ lost =>
        LET ca == CaSecret(api[x].owner) IN Exists(api, ca) /\ api[ca].key = api[x].key

\* What the pods of a resource mount: both certificates, and a bundle with a
\* CA in it; a CA secret that cannot be read stops createCA.
Complete(o) ==
    \/ Exists(api, CaSecret(o)) /\ api[CaSecret(o)].key = "unreadable"
    \/ /\ \A s \in Services : Exists(api, Cert(s, o)) /\ ~api[Cert(s, o)].orphan
       /\ Exists(api, CaMap) /\ ~api[CaMap].orphan /\ api[CaMap].key # "nobody"

\* Every resource comes to have its certificates and the config map, and keeps
\* them: after a pass cut short between the two halves of createCA, after a
\* start that took OpenShift for vanilla Kubernetes, and when the resource that
\* owned the shared config map is deleted, of which the others are not told.
AllComplete == <>[](\A o \in live : Complete(o))

=============================================================================
