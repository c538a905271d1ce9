----------------------------- MODULE Reconcile -----------------------------
(***************************************************************************)
(* HorreumReconciler.Reconcile, one API call at a time, against a          *)
(* Kubernetes API server that other actors write to and that the operator  *)
(* reads through informer caches which may lag behind.                     *)
(*                                                                         *)
(* A pass is the program Program(spec): the calls Reconcile makes, in      *)
(* order, for the spec it read at its start.  Each step of a pass is one   *)
(* action; the actions of users, kubelet, router, garbage collector and    *)
(* informers interleave with the steps.  A read of the cache and the write *)
(* that follows it are one action: the cache may be arbitrarily old, so    *)
(* separating them adds no behaviour.  Delete and the Create after it are  *)
(* two.                                                                    *)
(***************************************************************************)
EXTENDS Resources

CONSTANTS
    Specs,         \* the specs users write in the Horreum resource
    FirstSpec,     \* the spec it is created with
    GivenSecrets,  \* condition of the secrets users created beforehand
    LaggingKinds,  \* kinds whose informer may lag ("Horreum" included)
    Bounds         \* how often each disturbance may happen

Disturbances == {"fault", "crash", "edit", "remove", "delete", "upset"}

ASSUME SpecsAssumption == Specs \subseteq CrSpec /\ FirstSpec \in Specs
ASSUME GivenAssumption ==
    /\ DOMAIN GivenSecrets \subseteq Credentials \cup {"route-tls"}
    /\ \A o \in DOMAIN GivenSecrets : GivenSecrets[o] \in Conditions
ASSUME LagAssumption == LaggingKinds \subseteq Kinds \cup {"Horreum"}
ASSUME BoundsAssumption == Bounds \in [Disturbances -> Nat]
ASSUME AbsentAssumption == \A o \in Objects : Absent \notin Object(o)

VARIABLES
    cr,       \* API server: the Horreum resource
    api,      \* API server: the other objects
    crCache,  \* informer: the Horreum resource as the operator reads it
    crFresh,  \* the resourceVersion in crCache is the current one
    cache,    \* informer: the other objects as the operator reads them
    dirty,    \* the request is in the work queue
    up,       \* the operator process runs
    pc,       \* 0 between passes, else the index of the next step
    mem,      \* local variables of the pass
    fresh,    \* the resourceVersion in mem is the current one
    budget    \* disturbances left

apiServer == <<cr, api>>
informers == <<crCache, crFresh, cache>>
pass      == <<up, pc, mem, fresh>>
vars      == <<cr, api, crCache, crFresh, cache, dirty, up, pc, mem, fresh, budget>>

----------------------------------------------------------------------------
(* The program of a pass.                                                  *)

Steps(op, objs) == [i \in DOMAIN objs |-> <<op, objs[i]>>]

\* How the public URL of a component is found out.
UrlSteps(t, svc, rt) ==
    IF isNodePort(t)           THEN <<<<"NodePort", svc>>>>
    ELSE IF t = "LoadBalancer" THEN <<<<"LoadBalancer", svc>>>>
    ELSE IF RoutesAvailable    THEN <<<<"Ensure", rt>>, <<"RouteUrl", rt>>>>
    ELSE <<<<"NoUrl", svc>>>>

\* Certificates or the service CA, then the credentials.
SecretSteps ==
    (IF RoutesAvailable THEN Steps("Ensure", <<"service-ca">>)
     ELSE Steps("Present", <<"ca-certs", "service-ca", "app-certs", "keycloak-certs">>))
    \o Steps("Ensure", <<"db-admin", "app", "keycloak-admin", "keycloak-db", "admin">>)

PostgresSteps(s) ==
    IF s.db THEN Steps("Ensure", <<"postgresql-start", "db-pod", "db-svc">>)
    ELSE Steps("Remove", <<"db-pod", "db-svc">>)

KeycloakSteps(s) ==
    Steps("CheckRoute", <<"keycloak-route">>)
    \o (IF s.kcExt = NoUrl
        THEN Steps("Ensure", <<"keycloak-svc">>)
             \o UrlSteps(s.kcSvc, "keycloak-svc", "keycloak-route")
             \o Steps("Ensure", <<"keycloak-pod">>)
        ELSE Steps("External", <<"keycloak-pod">>)
             \o Steps("Remove", <<"keycloak-pod", "keycloak-svc">>)
             \o (IF RoutesAvailable THEN Steps("Remove", <<"keycloak-route">>)
                 ELSE <<>>))

AppSteps(s) ==
    Steps("CheckRoute", <<"app-route">>)
    \o Steps("Ensure", <<"app-svc">>)
    \o UrlSteps(s.svc, "app-svc", "app-route")
    \o Steps("Ensure", <<"app-pod", "upload">>)

\* Mutants: a database that is switched off is left alone; secrets come last.
Program_DatabaseKept(s) ==
    SecretSteps \o (IF s.db THEN PostgresSteps(s) ELSE <<>>)
    \o KeycloakSteps(s) \o AppSteps(s)
Program_SecretsLast(s) ==
    PostgresSteps(s) \o KeycloakSteps(s) \o AppSteps(s) \o SecretSteps

Program(s) ==
    SecretSteps \o PostgresSteps(s) \o KeycloakSteps(s) \o AppSteps(s)

Programs == [s \in Specs |-> Program(s)]

----------------------------------------------------------------------------
(* The status of the Horreum resource and the local variables of a pass.   *)

StatusValues == {"", "Ready", "Pending", "Error"}
Status   == [status : StatusValues, kcUrl : Url, url : Url]
NoStatus == [status |-> "", kcUrl |-> NoUrl, url |-> NoUrl]
Horreum  == [live : BOOLEAN, spec : Specs, st : Status]

\* found is the route the last ensureSame read, redo that the object of the
\* current step was deleted in order to be created again, touched that the
\* pass set lastUpdate.
Mem  == [spec : Specs, st : Status, touched : BOOLEAN,
         found : Object("app-route") \cup {Absent}, redo : BOOLEAN]
Idle == [spec |-> FirstSpec, st |-> NoStatus, touched |-> FALSE,
         found |-> Absent, redo |-> FALSE]

\* Mutant: Pending hides an earlier Error.
setStatus_LastWins(m, status) == [m EXCEPT !.st.status = status, !.touched = TRUE]

setStatus(m, status) ==
    IF m.st.status = "Error" /\ status = "Pending" THEN m
    ELSE [m EXCEPT !.st.status = status, !.touched = TRUE]

----------------------------------------------------------------------------
(* API server and informers.                                               *)

KindOf(o) == CHOOSE k \in Kinds : o \in OfKind(k)
Lags(o)   == KindOf(o) \in LaggingKinds
Owned(obj) == IF obj = Absent THEN FALSE ELSE obj.owned

\* Mutants: the controller does not own services, or routes.
Noticed_NotServices(o, before, after) ==
    before[o] # after[o] /\ o \notin Services /\ (Owned(before[o]) \/ Owned(after[o]))
Noticed_NotRoutes(o, before, after) ==
    before[o] # after[o] /\ o \notin Routes /\ (Owned(before[o]) \/ Owned(after[o]))

\* The watches of the controller: a change of an object the Horreum controls
\* puts the request into the queue once the informer knows of it.
Noticed(o, before, after) ==
    before[o] # after[o] /\ (Owned(before[o]) \/ Owned(after[o]))

\* The API server now holds newApi and newCr.  Informers that do not lag
\* follow at once.  requeue says that the request goes back into the queue.
Commit(newApi, newCr, crChanged, requeue) ==
    LET lag == "Horreum" \in LaggingKinds IN
    /\ api' = newApi
    /\ cr'  = newCr
    /\ cache' = [o \in Objects |-> IF Lags(o) THEN cache[o] ELSE newApi[o]]
    /\ crCache' = IF lag THEN crCache ELSE newCr
    /\ crFresh' = (~lag \/ (crFresh /\ ~crChanged))
    /\ dirty' = \/ dirty \/ requeue
                \/ crChanged /\ ~lag
                \/ \E o \in Objects : ~Lags(o) /\ Noticed(o, api, newApi)

Spend(d) == budget[d] > 0 /\ budget' = [budget EXCEPT ![d] = @ - 1]

\* The node ports a new service may be given.
PortsFor(spec) ==
    IF "type" \in DOMAIN spec /\ spec.type \in {"NodePort", "LoadBalancer"}
    THEN NodePorts \ {api[o].port : o \in {x \in Services : api[x] # Absent}}
    ELSE {0}

\* Mutant: config maps get no controller reference.
NewObject_OrphanMaps(o, spec, port) ==
    [spec |-> spec, port |-> port, owned |-> o \notin ConfigMaps, dying |-> FALSE,
     cond |-> IF o \in Pods \cup Routes THEN "new" ELSE "ok"]

NewObject(o, spec, port) ==
    [spec |-> spec, port |-> port, owned |-> TRUE, dying |-> FALSE,
     cond |-> IF o \in Pods \cup Routes \/ (o \in Services /\ spec.type = "LoadBalancer")
              THEN "new" ELSE "ok"]

\* The object as Create would store it, for the spec and URLs of the pass.
Created(o) ==
    LET spec == Desired(o, mem.spec, mem.st.kcUrl, mem.st.url)
    IN {[api EXCEPT ![o] = NewObject(o, spec, p)] : p \in PortsFor(spec)}

\* What Delete leaves: the database and Keycloak pods have a termination grace
\* period, during which a pod a kubelet has seen stays; the other objects, and
\* the application pod with its grace period of 0, go at once.
Deleted(o) ==
    {[api EXCEPT ![o] = Absent]} \cup
    (IF o \in Pods \ {"app-pod"} THEN {[api EXCEPT ![o].dying = TRUE]} ELSE {})

----------------------------------------------------------------------------
(* How a step ends.                                                        *)

At(op, o) ==
    /\ up
    /\ pc \in DOMAIN Programs[mem.spec]
    /\ Programs[mem.spec][pc] = <<op, o>>

Continue(m) == pc' = pc + 1 /\ mem' = m /\ UNCHANGED <<up, fresh>>
ReadOnly    == UNCHANGED <<apiServer, informers, dirty, budget>>
\* Mutant: what a pass found out survives it.
EndPass_MemKept == pc' = 0 /\ fresh' = FALSE /\ UNCHANGED <<mem, up>>
EndPass     == pc' = 0 /\ mem' = Idle /\ fresh' = FALSE /\ UNCHANGED up

\* updateStatus, or the last statement of Reconcile, as the last call of a
\* pass that read the current resource version iff current: the write is
\* applied, or it is rejected because the resource has changed, or it fails;
\* the caller ignores its error.  A write that only renews lastUpdate changes
\* nothing when that falls into the same second.  f faults were spent already.
WriteStatus(newApi, m, current, requeue, f) ==
    \/ /\ current /\ cr.live
       /\ \E crChanged \in {m.st # cr.st, m.st # cr.st \/ m.touched} :
            Commit(newApi, [cr EXCEPT !.st = m.st], crChanged, requeue)
       /\ budget' = [budget EXCEPT !["fault"] = @ - f]
    \/ /\ ~(current /\ cr.live)
       /\ Commit(newApi, cr, FALSE, requeue)
       /\ budget' = [budget EXCEPT !["fault"] = @ - f]
    \/ /\ budget["fault"] > f
       /\ Commit(newApi, cr, FALSE, requeue)
       /\ budget' = [budget EXCEPT !["fault"] = @ - f - 1]

\* Mutant: updateStatus writes the status so far instead of Error.
Fail_StatusKept(newApi, reported, f) ==
    /\ IF reported
       THEN WriteStatus(newApi, mem, fresh, TRUE, f)
       ELSE /\ Commit(newApi, cr, FALSE, TRUE)
            /\ budget' = [budget EXCEPT !["fault"] = @ - f]
    /\ EndPass

\* The pass returns an error, after updateStatus(Error) if it is reported.
Fail(newApi, reported, f) ==
    /\ IF reported
       THEN WriteStatus(newApi, setStatus(mem, "Error"), fresh, TRUE, f)
       ELSE /\ Commit(newApi, cr, FALSE, TRUE)
            /\ budget' = [budget EXCEPT !["fault"] = @ - f]
    /\ EndPass

\* Mutant: a wait leaves the status of the pass as it is.
Wait_StatusKept == WriteStatus(api, mem, fresh, TRUE, 0) /\ EndPass

\* The pass waits for something: updateStatus(Pending) and Requeue.
Wait ==
    /\ WriteStatus(api, setStatus(mem, "Pending"), fresh, TRUE, 0)
    /\ EndPass

\* A write that fails: the API server refuses it, or the call fails before or
\* after taking effect.
WriteFails(refused, outcomes, reported) ==
    \/ refused /\ Fail(api, reported, 0)
    \/ /\ ~refused /\ budget["fault"] > 0
       /\ \E newApi \in outcomes \cup {api} : Fail(newApi, reported, 1)

----------------------------------------------------------------------------
(* Steps of a pass.                                                        *)

\* Mutant: the status of the resource is not set back to Ready.
Begin_StatusKept ==
    /\ up /\ pc = 0 /\ dirty /\ crCache.live
    /\ pc' = 1 /\ fresh' = crFresh /\ dirty' = FALSE
    /\ mem' = [Idle EXCEPT !.spec = crCache.spec, !.st = crCache.st]
    /\ UNCHANGED <<apiServer, informers, up, budget>>

\* Reconcile reads the resource; a missing node host is reported at once.
Begin ==
    /\ up /\ pc = 0 /\ dirty
    /\ LET s == crCache.spec
           m == [Idle EXCEPT !.spec = s, !.st = crCache.st]
       IN \/ /\ ~crCache.live
             /\ dirty' = FALSE
             /\ UNCHANGED <<apiServer, informers, pass, budget>>
          \/ /\ crCache.live
             /\ s.nodeHost = "" /\ (isNodePort(s.svc) \/ isNodePort(s.kcSvc))
             /\ WriteStatus(api, setStatus(m, "Error"), crFresh, TRUE, 0)
             /\ UNCHANGED pass
          \/ /\ crCache.live
             /\ s.nodeHost # "" \/ ~(isNodePort(s.svc) \/ isNodePort(s.kcSvc))
             /\ pc' = 1 /\ fresh' = crFresh /\ dirty' = FALSE
             /\ mem' = IF m.st.status = "Ready" THEN m ELSE setStatus(m, "Ready")
             /\ UNCHANGED <<apiServer, informers, up, budget>>

\* The read at the start of a step fails.
GetFails(o) ==
    /\ budget["fault"] > 0 /\ ~mem.redo
    /\ \E op \in {"Ensure", "Remove", "Present", "NodePort"} :
         At(op, o) /\ Fail(api, op \in {"Ensure", "Remove"}, 1)

\* The object is missing (or ensureSame has just deleted it): create it.
EnsureCreate(o) ==
    /\ At("Ensure", o)
    /\ mem.redo \/ cache[o] = Absent
    /\ LET m == [mem EXCEPT !.redo = FALSE,
                            !.found = IF mem.redo THEN @ ELSE Absent]
       IN \/ /\ api[o] = Absent
             /\ \E newApi \in Created(o) : Commit(newApi, cr, FALSE, FALSE)
             /\ Continue(setStatus(m, "Pending"))
             /\ UNCHANGED budget
          \/ WriteFails(api[o] # Absent, Created(o), TRUE)

\* The object is there and matches: judge its health.
EnsureMatch(o) ==
    /\ At("Ensure", o) /\ ~mem.redo /\ cache[o] # Absent
    /\ compare(o, Desired(o, mem.spec, mem.st.kcUrl, mem.st.url), cache[o].spec)
    /\ LET health == check(o, cache[o])
           m == [mem EXCEPT !.found = IF o \in Routes THEN cache[o] ELSE Absent]
       IN Continue(IF health = "Ready" THEN m ELSE setStatus(m, health))
    /\ ReadOnly

\* The object is there and does not match: delete it, then create it.
EnsureReplace(o) ==
    /\ At("Ensure", o) /\ ~mem.redo /\ cache[o] # Absent
    /\ ~compare(o, Desired(o, mem.spec, mem.st.kcUrl, mem.st.url), cache[o].spec)
    /\ \/ /\ api[o] # Absent
          /\ \E newApi \in Deleted(o) : Commit(newApi, cr, FALSE, FALSE)
          /\ mem' = [mem EXCEPT !.redo = TRUE,
                                !.found = IF o \in Routes THEN cache[o] ELSE Absent]
          /\ UNCHANGED <<up, pc, fresh, budget>>
       \/ WriteFails(api[o] = Absent, Deleted(o), TRUE)

EnsureDeleted(o) ==
    /\ At("Remove", o)
    /\ \/ cache[o] = Absent /\ Continue(mem) /\ ReadOnly
       \/ /\ cache[o] # Absent /\ api[o] # Absent
          /\ \E newApi \in Deleted(o) : Commit(newApi, cr, FALSE, FALSE)
          /\ Continue(mem)
          /\ UNCHANGED budget
       \/ cache[o] # Absent /\ WriteFails(api[o] = Absent, Deleted(o), TRUE)

\* createCA and createServiceCert: create what is missing, keep what is there.
Present(o) ==
    /\ At("Present", o)
    /\ \/ cache[o] # Absent /\ Continue(mem) /\ ReadOnly
       \/ /\ cache[o] = Absent /\ api[o] = Absent
          /\ \E newApi \in Created(o) : Commit(newApi, cr, FALSE, FALSE)
          /\ Continue(mem)
          /\ UNCHANGED budget
       \/ /\ cache[o] = Absent
          /\ WriteFails(api[o] # Absent, Created(o), o = "ca-certs")

\* keycloakRoute and appRoute: errors found while the route is put together.
CheckRoute(o) ==
    /\ At("CheckRoute", o)
    /\ LET s == mem.spec
           kcInvalid == o = "keycloak-route" /\ keycloakRouteInvalid(s)
           reads     == RoutesAvailable /\ tlsReads(s)
           noSecret  == reads /\ cache["route-tls"] = Absent
           invalid   == RoutesAvailable /\ tlsInvalid(s)
       IN \/ kcInvalid /\ Fail(api, FALSE, 0)
          \/ ~kcInvalid /\ noSecret /\ Fail(api, TRUE, 0)
          \/ ~kcInvalid /\ reads /\ budget["fault"] > 0 /\ Fail(api, TRUE, 1)
          \/ ~kcInvalid /\ ~noSecret /\ invalid /\ Fail(api, FALSE, 0)
          \/ ~kcInvalid /\ ~noSecret /\ ~invalid /\ Continue(mem) /\ ReadOnly

\* The public URL becomes known.
LearnUrl(o, url) ==
    /\ Continue(IF o \in {"keycloak-svc", "keycloak-route", "keycloak-pod"}
                THEN [mem EXCEPT !.st.kcUrl = url, !.found = Absent]
                ELSE [mem EXCEPT !.st.url = url, !.found = Absent])
    /\ ReadOnly

RouteUrl(o) ==
    /\ At("RouteUrl", o)
    /\ LET url == getRouteUrl(o, mem.found)
       IN IF url = NoUrl THEN Wait ELSE LearnUrl(o, url)

\* The process dies of a nil pointer.
Panic ==
    /\ up' = FALSE /\ pc' = 0 /\ mem' = Idle /\ fresh' = FALSE
    /\ UNCHANGED <<apiServer, informers, dirty>>

\* Mutant: the service is used although it was not found.
NodePort_Unchecked(o) ==
    /\ At("NodePort", o)
    /\ \/ cache[o] = Absent /\ Panic /\ UNCHANGED budget
       \/ /\ cache[o] # Absent /\ cache[o].port # 0
          /\ LearnUrl(o, <<"https", mem.spec.nodeHost, cache[o].port>>)

NodePort(o) ==
    /\ At("NodePort", o)
    /\ \/ cache[o] = Absent /\ Fail(api, FALSE, 0)
       \/ cache[o] # Absent /\ cache[o].port = 0 /\ Wait
       \/ /\ cache[o] # Absent /\ cache[o].port # 0
          /\ LearnUrl(o, <<"https", mem.spec.nodeHost, cache[o].port>>)

\* getLoadBalancer returns no URL when it finds the service and dereferences
\* the missing service when it does not, or when the read fails.
LoadBalancer(o) ==
    /\ At("LoadBalancer", o)
    /\ \/ cache[o] # Absent /\ Wait
       \/ cache[o] = Absent /\ Panic /\ UNCHANGED budget
       \/ Panic /\ Spend("fault")

\* No way to find a URL out: cluster IP without routes.
NoUrlWait(o) == At("NoUrl", o) /\ Wait

\* An external Keycloak: keycloakPod returns nil when the URI does not parse,
\* and ensureDeleted dereferences it.
External(o) ==
    /\ At("External", o)
    /\ IF mem.spec.kcExt[1] = ""
       THEN Panic /\ UNCHANGED budget
       ELSE LearnUrl(o, mem.spec.kcExt)

\* Mutant: the end of a pass drops the events that came during it.
Finish_QueueDropped ==
    /\ up /\ pc = Len(Programs[mem.spec]) + 1
    /\ cr' = [cr EXCEPT !.st = IF fresh /\ cr.live THEN mem.st ELSE @]
    /\ crCache' = cr' /\ crFresh' = TRUE /\ dirty' = FALSE
    /\ EndPass /\ UNCHANGED <<api, cache, budget>>

\* The last status update, whose error is dropped, and the end of the pass.
Finish ==
    /\ up /\ pc = Len(Programs[mem.spec]) + 1
    /\ WriteStatus(api, mem, fresh, FALSE, 0)
    /\ EndPass

\* The process starts again: caches are filled, every resource is queued.
Restart ==
    /\ ~up
    /\ up' = TRUE /\ dirty' = cr.live
    /\ crCache' = cr /\ crFresh' = TRUE /\ cache' = api
    /\ UNCHANGED <<apiServer, pc, mem, fresh, budget>>

Step(o) ==
    \/ GetFails(o) \/ EnsureCreate(o) \/ EnsureMatch(o) \/ EnsureReplace(o)
    \/ EnsureDeleted(o) \/ Present(o) \/ CheckRoute(o) \/ NodePort(o) \/ RouteUrl(o)
    \/ LoadBalancer(o) \/ NoUrlWait(o) \/ External(o)

Operator == Begin \/ (\E o \in Objects : Step(o)) \/ Finish \/ Restart

----------------------------------------------------------------------------
(* The rest of the cluster.                                                *)

\* Mutant: the informer catches up and tells nobody.
Sync_Silent(k) ==
    /\ up /\ k \in LaggingKinds \ {"Horreum"}
    /\ \E o \in OfKind(k) : cache[o] # api[o]
    /\ cache' = [o \in Objects |-> IF o \in OfKind(k) THEN api[o] ELSE cache[o]]
    /\ UNCHANGED <<apiServer, crCache, crFresh, dirty, pass, budget>>

\* The informer of a kind catches up with the API server.
Sync(k) ==
    /\ up /\ k \in LaggingKinds \ {"Horreum"}
    /\ \E o \in OfKind(k) : cache[o] # api[o]
    /\ cache' = [o \in Objects |-> IF o \in OfKind(k) THEN api[o] ELSE cache[o]]
    /\ dirty' = (dirty \/ \E o \in OfKind(k) : Noticed(o, cache, api))
    /\ UNCHANGED <<apiServer, crCache, crFresh, pass, budget>>

SyncHorreum ==
    /\ up /\ ~crFresh
    /\ crCache' = cr /\ crFresh' = TRUE /\ dirty' = TRUE
    /\ UNCHANGED <<apiServer, cache, pass, budget>>

\* The informers' periodic resync delivers every object again.
Resync ==
    /\ up /\ pc = 0 /\ ~dirty /\ crCache.live
    /\ dirty' = TRUE
    /\ UNCHANGED <<apiServer, informers, pass, budget>>

Change(o, obj) ==
    Commit([api EXCEPT ![o] = obj], cr, FALSE, FALSE) /\ UNCHANGED pass

\* Kubelet, router and load balancer bring an object up.
BecomeOk(o) ==
    /\ o \in Pods \cup Routes \cup Services
    /\ api[o] # Absent
    /\ ~api[o].dying /\ api[o].cond # "ok"
    /\ o \in Routes => api[o].cond = "new"
    /\ Change(o, [api[o] EXCEPT !.cond = "ok"])
    /\ UNCHANGED budget

\* A container restarts or its image cannot be pulled; a route is rejected.
BecomeBad(o) ==
    /\ o \in Pods \cup Routes
    /\ api[o] # Absent
    /\ \E c \in IF o \in Pods THEN {"new", "bad"} ELSE {"bad"} :
         c # api[o].cond /\ Change(o, [api[o] EXCEPT !.cond = c])
    /\ Spend("upset")

\* A pod being terminated is gone.
Terminate(o) ==
    /\ o \in Pods /\ api[o] # Absent
    /\ api[o].dying
    /\ Change(o, Absent)
    /\ UNCHANGED budget

\* Somebody deletes an object of the operator.
DeleteObject(o) ==
    /\ Owned(api[o])
    /\ \E newApi \in Deleted(o) : newApi # api /\ Commit(newApi, cr, FALSE, FALSE)
    /\ UNCHANGED pass
    /\ Spend("delete")

EditSpec(s) ==
    /\ cr.live /\ s # cr.spec
    /\ Commit(api, [cr EXCEPT !.spec = s], TRUE, FALSE)
    /\ fresh' = FALSE /\ UNCHANGED <<up, pc, mem>>
    /\ Spend("edit")

DeleteHorreum ==
    /\ cr.live
    /\ Commit(api, [cr EXCEPT !.live = FALSE], TRUE, FALSE)
    /\ fresh' = FALSE /\ UNCHANGED <<up, pc, mem>>
    /\ Spend("remove")

\* Everything a deleted resource controlled is collected, as often as needed.
CollectGarbage ==
    /\ ~cr.live
    /\ LET garbage == {o \in Objects : Owned(api[o])} IN
       /\ garbage # {}
       /\ Commit([o \in Objects |-> IF o \in garbage THEN Absent ELSE api[o]],
                 cr, FALSE, FALSE)
    /\ UNCHANGED <<pass, budget>>

\* The process is killed between two steps, or at rest.
Crash ==
    /\ up
    /\ up' = FALSE /\ pc' = 0 /\ mem' = Idle /\ fresh' = FALSE
    /\ UNCHANGED <<apiServer, informers, dirty>>
    /\ Spend("crash")

Informers == (\E k \in Kinds : Sync(k)) \/ SyncHorreum \/ Resync
Cluster   == \/ \E o \in Objects : BecomeOk(o) \/ Terminate(o)
             \/ CollectGarbage
Trouble   == \/ \E o \in Objects : BecomeBad(o) \/ DeleteObject(o)
             \/ \E s \in Specs : EditSpec(s)
             \/ DeleteHorreum \/ Crash

Init ==
    /\ cr = [live |-> TRUE, spec |-> FirstSpec, st |-> NoStatus]
    /\ api = [o \in Objects |->
                IF o \in DOMAIN GivenSecrets
                THEN [spec |-> [data |-> "given"], cond |-> GivenSecrets[o],
                      port |-> 0, owned |-> FALSE, dying |-> FALSE]
                ELSE Absent]
    /\ crCache = cr /\ crFresh = TRUE /\ cache = api
    /\ dirty = TRUE /\ up = TRUE
    /\ pc = 0 /\ mem = Idle /\ fresh = FALSE
    /\ budget = Bounds

Next == Operator \/ Informers \/ Cluster \/ Trouble

Spec == Init /\ [][Next]_vars

\* The operator keeps running, its informers catch up and resync, the cluster
\* makes progress.  Disturbances need not happen.
Fairness ==
    /\ WF_vars(Operator)
    /\ \A k \in Kinds : WF_vars(Sync(k))
    /\ WF_vars(SyncHorreum) /\ WF_vars(Resync) /\ WF_vars(CollectGarbage)
    /\ \A o \in Objects : WF_vars(BecomeOk(o)) /\ WF_vars(Terminate(o))

FairSpec == Spec /\ Fairness

=============================================================================
