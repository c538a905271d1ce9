# Verification of the Horreum operator

The operator (`main.go`, `controllers/`, `api/`) keeps a Horreum installation
(PostgreSQL, Keycloak and the Horreum application) in a Kubernetes or OpenShift
namespace in the shape a `Horreum` custom resource asks for.  This directory
holds TLA+ modules of its reconciliation loop, the TLC configurations that check
them on small instances, and proofs checked by TLAPS.

## 1. Inventory

| Part | Source | State | Operations |
|---|---|---|---|
| Custom resource | `api/v1alpha1/horreum_types.go` | spec (written by users), status (written by the operator) | edit, delete, status update |
| Reconciliation loop | `controllers/horreum_controller.go:81-298` | nothing between passes; in a pass the resource it read, the URLs learnt so far | `Reconcile` |
| Object synchronisation | `:305-364` | the objects in the API server, the copies in the informer caches | `ensureSame` (get, compare, create, delete, create again, check), `ensureDeleted` |
| URL discovery | `:366-426` | node port of a service, ingress of a route or balancer | `getNodePort`, `getLoadBalancer`, `getRouteUrl` |
| Comparison, health | `:442-602` | none | `comparePods`, `compareService`, `compareRoute`, `compareConfigMap`, `checkSecret`, `checkPod`, `checkRoute` |
| Status reporting | `:428-440`, `:295` | status, reason, last update, URLs | `setStatus`, `updateStatus`, last update |
| Desired objects | `app.go`, `keycloak.go`, `postgres.go`, `utils.go`, `defaults.go` | none | builders of pods, services, routes, config maps, secrets |
| Certificates | `certificates.go` | CA secret, `service-ca.crt`, two service certificates | `createCA`, `createServiceCert` |
| Credentials | `defaults.go`, `utils.go:40-63` | five secrets, generated or given by users | `newSecret` with `nocompare` |
| Watches and queue | `:605-616`, controller-runtime | one informer per kind, work queue of one request per resource | event to request, requeue, resync |
| Bootstrap | `main.go` | whether routes are available, found out once at the start | start, leader election (off unless a flag asks for it) |
| Database scripts | `app.go`, `keycloak.go`, `postgres.go` | roles, passwords and databases in the volume | first start, later starts |

**Interaction.**  Everything goes through the API server.  Users edit or delete
the resource; kubelets, the OpenShift router and the service controller change
the status of pods, routes and services; the garbage collector removes objects
whose owner is gone.  Informers copy the API server into the caches the
operator reads *from*; its writes go to the API server directly.  A change of
the resource or of an owned object, once an informer sees it, puts the request
into the queue.  A single worker takes it out; an event that arrives during a
pass puts it back.

**What is hard.**  A pass makes some twenty API calls for the spec it read
first, while everything above goes on.  What it reads may be older than what it
wrote.  Replacing an object is two calls, with a crash, a failure or a grace
period between them.  Status updates are conditional on the resource version,
and their errors are ignored.  The URLs of the services are discovered by one
step and become part of the pods a later step compares.  The operator has no
memory between passes, so everything depends on the next pass being queued.

**What makes each part correct.**  Loop and synchronisation: at rest the
objects are those the spec asks for, and that rest is reached.  Status: at rest
it is the worst health; Ready comes with URLs.  Credentials and certificates:
never replaced, and there before the pod that mounts them.  Queue: no change is
forgotten.  Deletion: nothing stays behind.

## 2. Modules

| Module | Contents |
|---|---|
| `Resources` | The objects, the fields of the spec that matter, the desired content of each object (`Desired`), `compare`, `check`, `getRouteUrl`. Pure definitions. |
| `Reconcile` | The state machine of a whole pass: its program, its steps, informers, cluster, disturbances, fairness. |
| `ReconcileProperties` | Types, the cluster a spec asks for, safety, action and liveness properties of `Reconcile`. |
| `ReconcileProofs` | TLAPS proofs about `Reconcile`: types, and that secrets are kept. |
| `ReconcileOrderProofs` | Proofs about the order of a pass: what is there before a pod, before Ready, and what can kill the process. |
| `ReconcileRestProofs` | Proof that the operator rests only when its work is done (`QuietObjects`). |
| `ReconcileStatusProofs` | Proof that the status tells the truth at rest (`QuietStatus`). |
| `Keeper` | Abstract: what the operator promises for a whole installation; `Reconcile` implements it. |
| `ReconcileKeeperProofs` | Proof of that refinement (`ImplementsKeeper`). |
| `Follower` | Abstract: what the operator promises for one object. |
| `ResourceSync` | `ensureSame` for one object, with every version on its way to the informers; implements `Follower`. |
| `ResourceSyncProofs` | Proofs about `ResourceSync`, the refinement among them. |
| `Certificates` | `createCA`, `createServiceCert`, the injected bundle, the start of the operator, for several resources and processes. |
| `CertificatesProofs` | Proof that nothing is signed by a CA that is not saved. |
| `Database` | Credentials, the start scripts of the database, and the containers that log in. |
| `DatabaseProofs` | Proof that secrets and database agree on the passwords. |
| `MCReconcile`, `MCResourceSync`, `MCCertificates`, `MCDatabase` | Instances for TLC. |

`Reconcile` is the operator in breadth: one resource, every object, the order of
the calls.  The other three each take one aspect that it abstracts and model it
in depth: `ResourceSync` the path of a change from the API server to the worker,
`Certificates` the identity of keys, `Database` the values of passwords and what
becomes of them inside PostgreSQL.

### Reconcile

`cr` and `api` are the API server: the resource and every other object, or
`Absent`.  `crCache` and `cache` are what the operator reads.  `dirty` is the
queue.  `up`, `pc`, `mem` and `fresh` are the process: whether it runs, the
index of the next call in the program of the pass, the local variables of
`Reconcile`, and whether the resource version it read is still current.
`budget` counts the disturbances left.

An object has a `spec` (its content), a `cond` (the part of its status that the
check functions look at), a node port, an owner reference and a deletion mark.
Only what an edit or another actor can change is in the content; a host, an
image, a port or a secret name is a token.

`Program(s)` lists the calls of a pass for spec `s` in the order of the source,
and each `Step` is one of them:

| Action | Code |
|---|---|
| `Begin` | reading the resource, the node host check, the status set to Ready (`:81-107`) |
| `EnsureCreate`, `EnsureMatch`, `EnsureReplace`, `GetFails` | the branches of `ensureSame` (`:305-347`) |
| `EnsureDeleted` | `ensureDeleted` (`:349-364`) |
| `Present` | one object of `createCA` or `createServiceCert` |
| `CheckRoute` | the errors found while a route is built (`utils.go:80-119`, `keycloak.go:144-150`) |
| `NodePort`, `LoadBalancer`, `RouteUrl`, `NoUrlWait` | URL discovery and the early returns that wait |
| `External` | the pod of an external Keycloak, possibly nil (`:226-232`) |
| `Finish` | the last status update |

`Fail` is an error return (with `updateStatus` where the code has it) and the
retry of the queue; `Wait` is an early return with `Requeue: true`; `Panic` is a
nil dereference, which ends the process, as `main.go` leaves `RecoverPanic` off.
`WriteStatus` has the outcomes of a status update: applied, rejected for the
resource version, failed; the caller ignores the last two.

The environment is `Sync`, `SyncHorreum`, `Resync` (informers), `BecomeOk`,
`Terminate`, `CollectGarbage` (cluster) and the bounded `BecomeBad`,
`DeleteObject`, `EditSpec`, `DeleteHorreum`, `Crash`, and the fault in `GetFails`
and `WriteFails`.

Abstractions:

* A cache read and the write after it are one action; a cache may be
  arbitrarily old, so the separation adds nothing.  `Delete` and the `Create`
  after it are two.
* An informer of a kind in `LaggingKinds` jumps to the present when it syncs;
  it holds an older version until then.  The other informers follow at once.
  (`ResourceSync` delivers version by version.)
* A resource version is a Boolean: the copy is current or not.
* `lastUpdate` has second resolution, so a status write that renews only it may
  or may not change the resource; both are possible.
* A failing read of the resource itself requeues and changes nothing: a stutter.
* The work queue's rate limits are left out: a requeued request may run at once
  or later.
* Garbage collection of everything owned is one step, repeated as needed.
* The database and Keycloak pods have a grace period; the application pod has
  none (`app.go:128`).
* Secret names, database host and port, PVC, image flavours and
  `external.internalUri` keep their defaults.  Passwords and keys are "given" or
  "generated".

`Keeper` is the same system as a user sees it: what is wanted (`want`), the
objects (`have`), the status (`told`), and whether the operator still has
something to do or to find out (`owed`).  There are no calls, passes, caches,
queue or process.  Six sentences are left of the operator: it works only while
it owes; a step touches one object; it makes only what is missing; it clears
nothing it has to preserve, the secrets; it changes nothing in place but the
status; and when it stops owing, the objects suit the spec and the status tells
the truth.  The mapping, in
`ReconcileProperties`, takes the spec and the life of `cr` for `want`, `api` for
`have`, the status of `cr` for `told`, and `~Quiet` for `owed`: the process is
down, a pass runs, a request is queued, or a cache is behind.  To suit a spec
(`Suited`) is what `compare` says; so `Keeper` holds of specs that the comparison
functions cannot tell apart, too, of which `QuietObjects` does not.

### ResourceSync and Follower

`crs` and `objs` are the versions of the resource and of one object: the first
is in the cache, the last in the API server, those between are watch events
under way.  `queued` is the work queue, `delayed` a retry whose rate limit runs.
A pass is `Begin`, `Get`, then `Finish`, or `Create`, or `Delete` and `Create`,
or `Report` on an error: each call of `ensureSame` and `updateStatus` a step.
The node host check of `Reconcile` (`:96`) is about services only and is left to the
module `Reconcile`.
`DeliverCr` and `DeliverObj` deliver one version and queue the request; `Relist`
replaces a broken watch and skips versions; `Restart` fills the caches from
lists.  `unsaid` remembers that a status write failed, whose error the code
drops.

`Follower` knows only what is wanted, what there is, whether anything is owed,
and how often others may interfere.  While nothing is owed the object suits what
is wanted; the operator changes it only while it owes.  The refinement mapping
takes `owed` to be: something is queued, delayed, running, under way to a cache,
or terminating.

### Certificates

Objects carry the key that signed them and their owner; `lost` is the set of
keys of CA secrets that are gone while something signed by them remains.  Each
process has `up`, `routes` (what it found out at its start, `main.go:84-106`),
`cache`, `queue`, `pc`, `mem`.  `CreateCa` and `CreateCaMap` are the two halves
of `createCA`, `CreateServiceCert` is the function of that name, `Injected` the
branch for OpenShift, `Finish` the rest of the pass, of which the services
matter, because the cluster makes certificates for them.  `Inject` and `Serve`
are the CA of OpenShift.  `service-ca.crt` is one object for all resources.

### Database

`secrets` holds the current password of each user as a number, `disk` the
passwords of the roles in each data directory, `run` the containers with the
passwords in their environment, `pods` what the pods were made for.  A pass
takes the objects in the order of `Reconcile:136-293`, each on the current state.
The start of the database is `StartDb`, `InitDb`, `InitApp`, `InitKeycloak`,
`InitKeycloakDb`: a container can be killed between any two statements of the
scripts.  `redHat` decides whether scripts run at every start
(`postgresql-start`) or only on an empty directory (`docker-entrypoint-initdb.d`).

## 3. Properties

| Property | Says |
|---|---|
| `TypeOK` (each module) | types, and that a pass leaves no memory behind |
| `QuietObjects` | at rest with current caches and an empty queue, every wanted object exists with exactly the wanted content, and unwanted ones are gone |
| `QuietStatus` | at rest the status is the worst health of the wanted objects and holds the current URLs; in `ResourceSync`, unless the last status write failed |
| `ReadyHasUrls` | status Ready never stands without both URLs |
| `DependenciesFirst` | no pod of a live resource exists before the credentials, the service CA and, off OpenShift, the certificates, unless somebody deleted an object |
| `SecretsKept` | no step other than somebody's deletion changes or removes a secret while the resource lives |
| `NoPanic` | the process stops only when it is killed |
| `ImplementsKeeper` | `Reconcile` implements `Keeper` (refinement), under the hypotheses in `CarefulSpec` |
| `Settles` | after the disturbances, the cluster matches and the status stays Ready |
| `DeletionCleansUp` | after the resource is deleted, nothing the operator created is left, for good |
| `Follows` | `ResourceSync` implements `Follower` (refinement) |
| `ResourceSync!Served` | the operator comes to rest again and again |
| `SavedCa` | nothing is signed by a CA that is not in the CA secret of its resource, unless that secret was lost |
| `AllComplete` | every resource comes to have both certificates and a filled bundle, and keeps them |
| `Agreement` | the secret of a user and the database agree on its password unless somebody changed the secret, or the resource was removed and the volume was not |
| `Database!Served` | where they agree and the scripts have run for the spec, Keycloak and the application come to be logged in; with the Red Hat image the scripts do run for a changed user |
| `BalancerServed` | a balancer's URL becomes known (refuted) |
| `ReadyAsWanted` | `QuietObjects`, only of operators whose resource shows Ready (refuted for a removed option) |

`QuietObjects` states the wanted cluster (`Wanted`, `Unwanted`, `AddressIn`)
without the program of a pass and compares with equality, where the code compares with
`comparePods`, `compareRoute` and the like; so it is also a check of those.

Two conditions on single steps name what these properties need.  `Shown`: an
object that somebody else deletes has been shown to the operator by an informer
before.  `Spared`: the last status update of a pass does not fail.  `CarefulSpec`
is `Spec` whose steps all meet both.

## 4. Runs

The runs of `MCReconcile` have three node ports (two services hold one each, a
replaced service may get a new one), two images, three hosts.

| Run | Instance | Checks |
|---|---|---|
| `openshift` | routes, 3 specs, 2 edits | `QuietObjects`, `QuietStatus` |
| `trouble` | no routes, 1 edit, 1 deletion, 1 upset, a bad user secret | `QuietObjects`, `QuietStatus` |
| `stale_secrets` | no routes, secrets and resource lag, 4 specs, 1 edit | `TypeOK`, `QuietObjects`, `QuietStatus`, `DependenciesFirst`, `SecretsKept` |
| `stale_routes` | services and routes lag, 4 specs, 1 edit | `QuietObjects`, `QuietStatus`, `NoPanic` |
| `hard_specs` | 8 specs the operator refuses, dies of or does not tell apart, services lag, 1 fault, 1 edit, `CarefulSpec` | `ReadyHasUrls`, `DependenciesFirst`, `ImplementsKeeper` |
| `lifetime` | 1 fault, 1 crash, 1 edit, 1 removal, `FairSpec` | `ReadyHasUrls`, `Settles`, `DeletionCleansUp` |
| `resource_sync` | 2 contents, of which one passes for the other; up to 2 versions under way; 1 fault, 1 crash, 1 edit, 1 change by others; `FairSpec` | `TypeOK`, `QuietStatus`, `Follows`, `Served` |
| `certificates` | 2 resources, 2 processes, 5 scenarios, `FairSpec` | `TypeOK`, `SavedCa`, `AllComplete` |
| `database` | both image flavours, 3 specs, 4 scenarios, `FairSpec` | `TypeOK`, `Agreement`, `Served` |
| `balancer_never_served` | expects a violation, `FairSpec` | `BalancerServed` |
| `external_without_scheme` | expects a violation | `NoPanic` |
| `java_options_removed` | expects a violation | `ReadyAsWanted` |

**Bounds.**  One edit puts a second spec against every point of the first pass
and of the passes it causes; two edits also bring an edit of the edit, and the
return to the first spec while objects of the second are half made.  One fault
or crash is tried at every call.  A pass keeps nothing in memory for the next,
so what one disturbance leaves for the passes after it is in the API server and
the caches, where the next disturbance meets it.  The number of passes is not
bounded: the state space is closed under them.
Specs without the database pod (`lean`) keep the lagging instances small;
`openshift` has it.

In `resource_sync`, two versions under way besides the cached one are what a
replacement writes (a mark or a deletion, then a creation), so a pass can read
an object three writes old; `MaxLag` holds back writers, not deliveries.
The scenarios of `certificates` combine the disturbances that can meet: a fault, a
crash and a deletion; two processes and a fault; a resource that leaves while
another joins; a misjudged start with a crash and a deletion; removal on
OpenShift.  Five keys are more than can be in use at once; the key of a lost CA
is used again once nothing carries it.  The scenarios of `database` are an edit
with a killed container; a failed pass with a deleted pod; a changed or removed
secret with a killed container; a reinstallation.

`trouble` starts with a secret that lacks a key, so its status at rest is Error, and
what it tests is that this Error survives what is found later; in the other runs
that check `QuietStatus` the secrets are good, and a false Error would show.  In
`stale_secrets` an operator asked for a cluster IP or a balancer never comes to
rest, and what these specs test is `DependenciesFirst` and `SecretsKept`.  No run of
`Reconcile` has lagging pods; a pod that is replaced under a stale cache is in
`resource_sync`.

Two of the specs of `hard_specs` differ only in the type of a route without a
host, which `compareRoute` does not look at: `Keeper` allows that, `QuietObjects`
would not.  Its fault may be any call but the last status update of a pass, since
its specification is `CarefulSpec`; with `Spec` in its place TLC refutes
`ImplementsKeeper` on the same instance.  `lifetime` is the run in which every call
may fail, and checks `ReadyHasUrls` again.  No run has deletions by others under
lagging informers, where `Shown` bites; the theorems of Section 5 cover them.

**Deadlock** is off only in `lifetime` and `certificates`, where nothing is left
to do once the resources are gone.  Elsewhere the periodic resync always is.

**Fairness** (`FairSpec` of each module).  The worker and the restart: the queue
hands out a request that is in it, and the deployment restarts the container.
Watches deliver; rate limits end; controller-runtime resyncs every ten hours.
Kubelet, router, service CA and garbage collector do their work; containers are
restarted, and exit when they cannot log in.  Only `Certificates` has strong
fairness, for `Begin` of each resource: the queue is first in, first out, so a
request is not overtaken for ever by another's, although the worker is not
always idle.  A second process started by hand need not be started again.
Nothing is assumed of users and faults.

**What the violations show.**
* `getLoadBalancer` tests its error the wrong way round (`:381`): a service of
  type LoadBalancer never gets a URL; when the service is not in the cache yet
  the missing service is dereferenced.
* An external Keycloak whose URI does not parse kills the operator (`:230`).
* What an edit removes from the end of the pod's lists stays (`:450`), under
  status Ready once the pods are up.

**Known and not run.**  Modelled, with the same cause or obvious from one line:
a route without a host ignores edits of its type (`:552`; in `hard_specs`,
but `Keeper` lets it pass); the Keycloak route takes its TLS from the
application's (`utils.go:81`); the upload config map is never updated (`:291`);
the route of a former address stays when its service gets a node port (`:196`);
the last status may be lost to a fault until the next resync (`:295`), so
`QuietStatus` of `Reconcile` is checked without faults, and `ImplementsKeeper`
with faults anywhere else; errors of route builders and `getNodePort` leave an
earlier status, perhaps Ready, in place while passes fail for ever (`:187`):
`ReadyHasUrls` holds of it, with the URLs of the earlier pass, and `QuietStatus`
speaks of rest, which such an operator never comes to.
Exempted by the properties, in so many words: certificates of a lost CA
are not replaced; a user's changed password reaches new containers and not the
database; an interrupted first start of the Docker image is not
resumed; a renamed Keycloak database is created only if the database pod happens
to be started again, with the Docker image never; a claimed volume keeps the
passwords of a resource that was removed.
These are in the hazards of `PROJECT.json`.

## 5. Proofs

Every safety property that a passing run checks is also a theorem, for every
value of the constants: every set of specs, every bound on the disturbances,
every set of lagging informers, any number of resources and processes.  Where a
theorem has a hypothesis, it is stated below together with what happens without
it.

| Theorem | States | Hypothesis |
|---|---|---|
| `ReconcileProofs!TypeCorrect` | `TypeOK` | |
| `ReconcileProofs!SecretsAreKept` | `SecretsKept` | |
| `ReconcileOrderProofs!DependenciesComeFirst` | `DependenciesFirst` | |
| `ReconcileOrderProofs!ReadyShowsUrls` | `ReadyHasUrls` | |
| `ReconcileOrderProofs!OperatorSurvives` | `NoPanic` | no spec is `Deadly` |
| `ReconcileRestProofs!RestsWhenDone` | `QuietObjects` | `ToldApart`; steps are `Shown` |
| `ReconcileRestProofs!WitnessedRest` | `QuietObjects` | `ToldApart`, `Witnessed` |
| `ReconcileStatusProofs!StatusTruthful` | `QuietStatus` | steps are `Shown` and `Spared` |
| `ReconcileStatusProofs!FaultlessStatus` | `QuietStatus`, while `NoFault` | `Witnessed` |
| `ReconcileKeeperProofs!OperatorIsKeeper` | `ImplementsKeeper` | steps are `Shown` and `Spared` (`CarefulSpec`) |
| `ReconcileKeeperProofs!RestsRight` | `K!Kept` | the same |
| `ResourceSyncProofs!TypeCorrect`, `StatusTold` | `TypeOK`, `QuietStatus` | |
| `ResourceSyncProofs!Refines`, `AtRestItSuits` | `Follows`, `F!Followed` | |
| `CertificatesProofs!TypeCorrect`, `NothingUnsaved` | `TypeOK`, `SavedCa` | |
| `CertificatesProofs!PassesUseSavedCas` | the same of caches and passes | |
| `DatabaseProofs!TypeCorrect`, `PasswordsAgree` | `TypeOK`, `Agreement` | |
| `DatabaseProofs!DatabasePrepared` | `Prepared` | |

**ReconcileProofs.**  `TypeOK` is inductive as it stands; the work is in the
writes.  Lemmas give the type of a desired object (`Desired`), of what `Commit`,
`WriteStatus`, `Fail` and `Wait` leave, and one step per action puts them
together.  The conjunct `pc = 0 => mem = Idle` is what makes a pass start from
the resource alone.  For `SecretsKept`: the operator deletes only in
`EnsureReplace`, which needs `compare` to be false, which it never is for a
secret, and in `EnsureDeleted`, which no program names a secret in; it creates
only what is absent.  That needs a lemma on the steps of a program: whatever
the spec, a `Remove` step is of a pod, service or route.

**ReconcileOrderProofs.**
* `DependenciesComeFirst`, by `OrderInv`.  A pass that has gone past the step of
  a secret has left it there (`StepsDone`); but it may have gone past because a
  stale cache showed it, so what a cache shows of a secret must be there
  (`CacheBacked`), which only a deletion can break; and a pod, which the step of
  an earlier pass may have made, comes after all of them (`PodsLast`).  All
  three hold while the resource lives and nobody has deleted anything.
* `ReadyShowsUrls`, by `UrlsKnown`: past the step that finds a URL out, the pass
  knows it.  Every program has such a step for both URLs before its end, and
  every way past it without the URL is an error or an early return, of which
  neither writes Ready.
* `OperatorSurvives`: a step stops the process only at `getLoadBalancer` or at
  the external Keycloak, and only of a `Deadly` spec, one that asks for a
  balancer or has a URI that does not parse.  The hypothesis is needed: `external_without_scheme`
  is a run where the process dies.

**ReconcileRestProofs.**  `RestsWhenDone` is the main promise of the operator:
with nothing queued and current caches, every object is exactly as wanted.
`QuietObjects` is far from inductive, since the last step of a pass looks at no
object.  The invariant is `RestInv == Views /\ WorkDone`.
`Views` relates caches and API server, and says that every object was given
beforehand or was written by the operator for some spec.  `WorkDone` says of
the moments in which the operator is `Tranquil` (up, nothing queued, the
resource live and known as it is) that every step behind the pass is `Achieved`:
its object is seen to be fine, or was just made, or is gone while the cache still
holds it (`Missed`: the news is on its way), and its URL is that of the object
seen; and at rest, that this holds of all steps for some pair of URLs.  The
argument has three parts.

1. No step undoes another of the same program (`Sound`), and the URL of a route
   is read right after the step that ensures the route (`Paired`): facts about
   `Program` for every spec.
2. Nothing that the operator sees changes without the request being queued
   (`SameSight`): so in a tranquil state either nothing that matters moved, or
   the state was not tranquil before, and only `Begin` takes a request out.
3. Every step of a pass sees to its object or ends the pass with the request
   queued.

At rest with current caches nothing is `Missed`, so every object suits the spec
(`RestSuits`).  One that does has the content that some spec wants, and compares
equal to what this spec wants; `ToldApart` makes that equality.

Both hypotheses are needed.  Without `ToldApart` (no two specs in use want
contents that differ and compare equal) the theorem is false: that is the run
`java_options_removed`.  Without `Shown` it is false as well: TLC finds, with a
lagging informer of config maps and two deletions, an object that the operator
makes and somebody deletes while the informer, starting over with a list, sees
neither; no event comes, and nothing is queued until the next resync.  `Shown`
excludes exactly such deletions: any others are allowed, under any lag.  It is
an assumption on the environment, `[][Shown]_vars`; `WitnessedRest` replaces it by
one on the constants, `Witnessed`: either only the informer of the resource lags,
so that every object is shown at once, or nobody else deletes.  TLC
evaluates `Witnessed` for the instance of every run of `MCReconcile`, and finds that
the specs of each run that checks `QuietObjects` are told apart (those of `openshift`
and `stale_secrets` during the runs `stale_routes` and `trouble`, as some mutants of
their own change the comparison), and those of `java_options_removed` and `hard_specs`
are not.

**ReconcileStatusProofs.**  `StatusTruthful` builds on `RestInv`.  A step that
finds its object as it should be leaves the health of it in the status, one that
has to make it leaves Pending: its `Grade`.  `StatusInv` says that while the
operator is tranquil the status told so far is the worst grade of the steps
behind the pass, that the resource version is still current, so the next write
is not rejected, and that an object is made again only when it is not fine
(`RedoNeeded`); at rest, that the worst grade of all steps stands in the
resource, with the URLs.  Any call may fail but one: the last status update of a
pass drops its error (`:295`), and when it fails an old status stands at rest,
which is what `Spared` excludes; every other failure queues the request again.
`FaultlessStatus` is the version for `Spec` alone: it holds as long as no call
has failed, which the budget of faults remembers.  In `ResourceSync`, where the
state remembers whether a status write failed (`unsaid`), the theorem
`StatusTold` needs no such hypothesis.

**ReconcileKeeperProofs.**  The invariants of the two modules before give
`K!Kept`: at rest everything suits and is told.  Then each step of `Reconcile` is
mapped.  A step of a pass, `Begin` and `Finish` are `Work`: they happen only while
a pass runs or a request is queued; they write no part of the resource but its
status (`StepTells`); and what they do to their object is to create it when it is
missing, or to delete what is no secret (`StepHandles`).  Informers, crashes and
restarts are `Wake`, edits and the deletion of the resource `Ask`, the cluster and
other people's deletions `Drift`.  All that is for steps that leave something
owed (`RestlessSteps`).  A step that leaves nothing (`RestSteps`) cannot be `Begin`,
a step of a pass, an informer's or a restart: it is `Finish`, which maps to
`Rest`, or the cluster comes to hold again what a lagging cache shows, which is
the one way in which a `Drift` ends what is owed; and if nothing was owed before
either, nothing has happened.  `RestsRight` is the invariant of `Keeper`, carried
over to the code.

**ResourceSyncProofs** is for every set of contents, every reflexive comparison
of them (it need not be symmetric or transitive), any number of versions under
way, with and without a grace period.  It rests on one invariant,
`IInv == TypeOK /\ Careful /\ Rested`.
`Rested` is what a reader wants: at rest the object suits the spec and is
reported on.  It is not inductive, because the last step before the rest, the
status write, does not look at the object or at the spec.  `Careful` says what
the pass may still rely on at that point: while no event is queued and the cache
of the resource holds the current version, the spec is the one the pass read and
its status write is not rejected; while no event is queued and the cache of the
object holds the current version, the verdict on the object still stands.  Any
write by somebody else makes the cache lag, and any delivery queues the request,
so either of them takes a premise away.  A creation lags the cache too, which is
why a pass that created something is never the last.  From there the refinement
is short: every step but `Finish` leaves something to do (`Kept`), so it maps to a
step of `Follower` that leaves `owed` true; `Finish` maps to `Rest` when nothing
is left, which `Rested'` allows, and to `Wake` otherwise.  `AtRestItSuits` is
the invariant of `Follower`, carried over to the code by the refinement.

**CertificatesProofs** is for any resources, processes and supply of keys.
`SavedCa` speaks of the objects in the API server; what signs them is a key that
a pass holds in memory, taken from a cache that may be old.  So
`IInv == TypeOK /\ Begun /\ Saved` follows the key: a CA in a cache or in a pass
is in the API server or lost (`CacheSaved`, `MemSaved`); a CA secret belongs to
the resource it is named after (`OwnCa`); and no two have the same CA (`OneCa`),
so that what is lost is lost for everybody.  `Begun` (a pass works for a live
resource unless that was deleted since) is there for the type: only live
resources are served.

**DatabaseProofs** is for all users, names and specs, and both image flavours.
`Agreement` is nearly inductive; what it lacks is `Prepared`: a container
belongs to a pod, a database that runs has a volume, and its scripts find the
config map with the names they need, because the pass makes that before the
pod.  The work is one step per statement of the scripts: each writes the
password in the environment of the container, which agrees with the secret
unless the user is `lost`.

**Assumptions.**  Those of the modules, by name: `SpecsAssumption`,
`GivenAssumption`, `LagAssumption`, `BoundsAssumption`, `AcceptsAssumption`,
`GracefulAssumption`, `MaxLagAssumption`, `OwnersAssumption`, `KeysAssumption`,
`OperatorsAssumption`, `ScenariosAssumption`, `UsersAssumption`, and
`AbsentAssumption` (the token for absence is no object, spec or name).  They
give the constants their types and keep tokens apart.  TLC evaluates them in
every run.

**Only model-checked.**  The liveness properties `Settles`, `DeletionCleansUp`,
`AllComplete` and `Served` of `ResourceSync` and of `Database`: they need the
fairness of `FairSpec`, and the prover has neither fairness nor ENABLED.  What
they rest on is proved: a loop that stops stops in the right state.

## 6. Not modelled

* Manifests, CRD and RBAC (declarative), deep copies and the test suite
  (generated).
* Of the bootstrap: flags, health checks, metrics.  Its discovery of routes, and
  several processes with leader election off, are in `Certificates` only:
  `Reconcile` has one process that knows its platform, and one resource.
* Generation of passwords and keys (randomness; whether one is kept or replaced
  is what matters), the names and the dates of certificates.
* Phases of a pod in which it has ended or failed for good.
* In `Database`: an installation with a database of its own that the operator
  does not run, the name of the Horreum database, and the ends of grace periods.
* Texts of status reasons and of the log.

## 7. Plan

Done: `Reconcile` with its properties; `ResourceSync` and `Follower` with the
refinement; `Certificates`; `Database`; a proof of every safety property that a
run checks; `Keeper`, which the whole loop is proved to implement.

Left:

1. Incarnations in `Reconcile`: the resource deleted and created again under the
   same name while the garbage collector works.
2. Pods in a terminal phase, and a start that misjudges whether routes are
   available, in `Reconcile`.
