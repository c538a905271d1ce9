------------------------------ MODULE Database ------------------------------
(***************************************************************************)
(* Who can log in to the database: the generated or given credentials, the *)
(* roles and databases the start scripts of postgresConfigMap make from    *)
(* them, and the containers of database, Keycloak and application, which   *)
(* read the credentials when they start.                                   *)
(*                                                                         *)
(* The operator is reduced to the steps of a pass that matter here, each   *)
(* on the current state; Reconcile has its caches and partial writes.  The *)
(* life of containers and volumes is that of Kubernetes.  Scripts run when *)
(* the database is initialised with the PostgreSQL image of Docker, where  *)
(* they are mounted into docker-entrypoint-initdb.d, and at every start    *)
(* with the Red Hat image, where they are mounted into postgresql-start.   *)
(***************************************************************************)
EXTENDS Integers

CONSTANTS
    KcUsers,   \* names of Keycloak's database secret, and of the user in it
    DbNames,   \* names of Keycloak's database, in lower case: the script does not quote them
    Specs,     \* what users write in the resource
    Given,     \* secrets that users create before the resource
    Absent,    \* no such object, container or pass
    Scenarios  \* how often each disturbance may happen, in several ways

Disturbances == {"abort", "upset", "delete", "meddle", "edit", "reinstall"}

Users   == {"admin", "app"} \cup KcUsers
Clients == {"keycloak", "app"}
Pods    == {"db"} \cup Clients

DbSpec == [kcUser : KcUsers, kcDb : DbNames, pvc : BOOLEAN]

\* The steps of a starting database container, and of one that is up.
Stages == {"init", "app role", "keycloak role", "keycloak database", "up"}

\* A container and the passwords in its environment, 0 for none.
Container == [env : [Users -> Nat], stage : Stages]

\* A data directory: initialised or empty, the passwords of its roles (0 for
\* no role), the databases made for Keycloak, and what the scripts last ran for.
Ran  == [kcUser : KcUsers, kcDb : DbNames] \cup {Absent}
Data == [made : BOOLEAN, roles : [Users -> Nat], names : SUBSET DbNames, ran : Ran]
NoData == [made |-> FALSE, roles |-> [u \in Users |-> 0], names |-> {}, ran |-> Absent]

ASSUME SpecsAssumption  == Specs \subseteq DbSpec
ASSUME GivenAssumption  == Given \subseteq Users
ASSUME UsersAssumption  == {"admin", "app"} \cap KcUsers = {}
ASSUME ScenariosAssumption == Scenarios \subseteq [Disturbances -> Nat]
ASSUME AbsentAssumption == Absent \notin Specs /\ Absent \notin DbNames

VARIABLES
    redHat,   \* the image flavour: UseRedHatImages
    spec,     \* the resource
    secrets,  \* the current password of each user's secret, 0 for no secret
    issued,   \* passwords made for each user so far
    owned,    \* users whose secret the operator made: it hears of their changes
    config,   \* the database name in the config map postgresql-start
    mounted,  \* the same in the volume of the database pod
    pods,     \* what the pods were created for
    run,      \* their containers
    disk,     \* the claimed volume, and the one that dies with the pod
    lost,     \* users whose secret others changed or removed when the database knew it
    dirty,    \* the request is queued
    pc,       \* 0, or the step of the pass
    mem,      \* the spec the pass read
    budget    \* disturbances left

credentials == <<secrets, issued, owned>>
objects == <<credentials, config, mounted, pods, run, disk, lost>>
pass    == <<dirty, pc, mem>>
vars    == <<redHat, spec, secrets, issued, owned, config, mounted, pods, run, disk,
             lost, dirty, pc, mem, budget>>

Spend(d) == budget[d] > 0 /\ budget' = [budget EXCEPT ![d] = @ - 1]

Exists(x) == pods[x] # Absent
Runs(x)   == run[x] # Absent

\* The users whose secrets a pod made for s refers to.
UsersOf(x, s) == CASE x = "db"       -> {"admin", "app", s.kcUser}
                   [] x = "keycloak" -> {s.kcUser}
                   [] x = "app"      -> {"admin", "app"}

Volume(s) == IF s.pvc THEN "claim" ELSE "empty"
data == IF Exists("db") THEN disk[Volume(pods["db"])] ELSE NoData

\* A client is up, the database too, and it accepts the client's users.
LoggedIn(c) ==
    /\ Runs(c) /\ Runs("db") /\ Exists("db")
    /\ run["db"].stage = "up"
    /\ \A u \in UsersOf(c, pods[c]) : data.roles[u] # 0 /\ run[c].env[u] = data.roles[u]
    /\ c = "keycloak" => pods[c].kcDb \in data.names

----------------------------------------------------------------------------
(* A pass of the operator.                                                 *)

\* What a pod is created from and compared by.
Fields(x) == CASE x = "db"       -> {"kcUser", "pvc"}
               [] x = "keycloak" -> {"kcUser", "kcDb"}
               [] x = "app"      -> {}

PodFor(x, s) == [f \in Fields(x) |-> s[f]]

Steps == 1..7

\* Mutant: secrets are compared with what newSecret generates.
EnsureSecret_Compared(u) ==
    /\ issued' = [issued EXCEPT ![u] = (@ + 1) % 3]
    /\ secrets' = [secrets EXCEPT ![u] = 1 + issued'[u]] /\ owned' = owned \cup {u}
    /\ UNCHANGED <<config, mounted, pods, run, disk, lost>>

\* newSecret, and ensureSame with nocompare: a secret that exists stays.
EnsureSecret(u) ==
    /\ IF secrets[u] # 0 THEN UNCHANGED credentials
       ELSE /\ owned' = owned \cup {u}
            /\ issued' = [issued EXCEPT ![u] = @ + 1]
            /\ secrets' = [secrets EXCEPT ![u] = issued'[u]]
    /\ UNCHANGED <<config, mounted, pods, run, disk, lost>>

\* compareConfigMap: replaced when it differs.
EnsureConfig ==
    /\ config' = mem.kcDb
    /\ UNCHANGED <<credentials, mounted, pods, run, disk, lost>>

\* The containers of a pod go with it, and the volume that is its own.
PodGone(x, pod) ==
    /\ pods' = [pods EXCEPT ![x] = pod] /\ run' = [run EXCEPT ![x] = Absent]
    /\ IF x = "db" THEN mounted' = Absent /\ disk' = [disk EXCEPT !["empty"] = NoData]
       ELSE UNCHANGED <<mounted, disk>>

\* comparePods: created, or deleted and created again when it differs.
EnsurePod(x) ==
    /\ IF pods[x] = PodFor(x, mem) THEN UNCHANGED <<pods, run, mounted, disk>>
       ELSE PodGone(x, PodFor(x, mem))
    /\ UNCHANGED <<credentials, config, lost>>

Begin ==
    /\ dirty /\ pc = 0
    /\ dirty' = FALSE /\ pc' = 1 /\ mem' = spec
    /\ UNCHANGED <<redHat, spec, objects, budget>>

\* The next object, in the order of Reconcile.
Step ==
    /\ pc \in Steps
    /\ \/ pc = 1 /\ EnsureSecret("admin")
       \/ pc = 2 /\ EnsureSecret("app")
       \/ pc = 3 /\ EnsureSecret(mem.kcUser)
       \/ pc = 4 /\ EnsureConfig
       \/ pc = 5 /\ EnsurePod("db")
       \/ pc = 6 /\ EnsurePod("keycloak")
       \/ pc = 7 /\ EnsurePod("app")
    /\ IF pc = 7 THEN pc' = 0 /\ mem' = Absent ELSE pc' = pc + 1 /\ UNCHANGED mem
    /\ UNCHANGED <<redHat, spec, dirty, budget>>

\* Mutant: the next attempt goes on with the spec of the failed one.
Abort_MemKept ==
    /\ pc # 0 /\ Spend("abort")
    /\ dirty' = TRUE /\ pc' = 0
    /\ UNCHANGED <<redHat, spec, objects, mem>>

\* A call fails or the process is killed: the pass starts anew.
Abort ==
    /\ pc # 0 /\ Spend("abort")
    /\ dirty' = TRUE /\ pc' = 0 /\ mem' = Absent
    /\ UNCHANGED <<redHat, spec, objects>>

Resync ==
    /\ pc = 0 /\ ~dirty
    /\ dirty' = TRUE
    /\ UNCHANGED <<redHat, spec, objects, pc, mem, budget>>

----------------------------------------------------------------------------
(* Containers.                                                             *)

SecretsFor(x) == \A u \in UsersOf(x, pods[x]) : secrets[u] # 0

\* The environment is read from the secrets when a container starts.
StartContainer(x, stage) ==
    /\ Exists(x) /\ ~Runs(x) /\ SecretsFor(x)
    /\ LET used == UsersOf(x, pods[x])
           env  == [u \in Users |-> IF u \in used THEN secrets[u] ELSE 0]
       IN  run' = [run EXCEPT ![x] = [env |-> env, stage |-> stage]]
    /\ UNCHANGED <<redHat, spec, credentials, config, pods, disk, lost, pass, budget>>

StartClient(c) == StartContainer(c, "up") /\ UNCHANGED mounted

\* The config map is mounted when the pod starts.
StartDb ==
    /\ StartContainer("db", "init")
    /\ mounted' = IF mounted = Absent THEN config ELSE mounted

\* One step of the starting database: new contents of its data directory.
Advance(from, to, new) ==
    /\ Exists("db") /\ Runs("db") /\ run["db"].stage = from
    /\ run' = [run EXCEPT !["db"].stage = to]
    /\ disk' = [disk EXCEPT ![Volume(pods["db"])] = new]
    /\ UNCHANGED <<redHat, spec, credentials, config, mounted, pods, lost, pass, budget>>

\* An empty data directory is initialised, with the administrator's role; the
\* Red Hat image sets its password at every start. The Docker image runs no
\* scripts on a data directory that has been initialised, completely or not.
InitDb ==
    LET admin == [data EXCEPT !.made = TRUE, !.roles["admin"] = run["db"].env["admin"]]
    IN  IF ~data.made \/ redHat THEN Advance("init", "app role", admin)
        ELSE Advance("init", "up", data)

\* init_app.sh and the first half of init_keycloak.sh: an existing role is
\* left alone, with the password it was created with.
WithRole(u) ==
    IF data.roles[u] # 0 THEN data ELSE [data EXCEPT !.roles[u] = run["db"].env[u]]

InitApp      == Advance("app role", "keycloak role", WithRole("app"))
InitKeycloak == Advance("keycloak role", "keycloak database", WithRole(pods["db"].kcUser))

\* Mutant: the database is only created by the start that creates the role.
InitKeycloakDb_Once ==
    Advance("keycloak database", "up",
            [data EXCEPT !.names = IF @ = {} THEN {mounted} ELSE @,
                         !.ran = [kcUser |-> pods["db"].kcUser, kcDb |-> mounted]])

\* The second half of init_keycloak.sh, with the name in the config map.
InitKeycloakDb ==
    Advance("keycloak database", "up",
            [data EXCEPT !.names = @ \cup {mounted},
                         !.ran = [kcUser |-> pods["db"].kcUser, kcDb |-> mounted]])

\* The kubelet brings the volume up to date with the config map.
Refresh ==
    /\ mounted # Absent /\ mounted # config
    /\ mounted' = config
    /\ UNCHANGED <<redHat, spec, credentials, config, pods, run, disk, lost, pass, budget>>

\* A client that cannot log in exits and is started again.
ExitClient(c) ==
    /\ Runs(c) /\ ~LoggedIn(c)
    /\ run' = [run EXCEPT ![c] = Absent]
    /\ UNCHANGED <<redHat, spec, credentials, config, mounted, pods, disk, lost, pass, budget>>

----------------------------------------------------------------------------
(* Others.                                                                 *)

\* A container is killed; its pod restarts it.
CrashContainer(x) ==
    /\ Runs(x) /\ Spend("upset")
    /\ run' = [run EXCEPT ![x] = Absent]
    /\ UNCHANGED <<redHat, spec, credentials, config, mounted, pods, disk, lost, pass>>

DeletePod(x) ==
    /\ Exists(x) /\ Spend("delete")
    /\ PodGone(x, Absent) /\ dirty' = TRUE
    /\ UNCHANGED <<redHat, spec, credentials, config, lost, pc, mem>>

\* The database has the password of u, or is about to take it over.
Knows(u) ==
    \/ \E v \in DOMAIN disk : disk[v].roles[u] # 0
    \/ Runs("db") /\ run["db"].env[u] # 0

\* Somebody removes a secret or changes its password. A secret that was there
\* before the resource has no owner: nobody tells the operator.
Meddle(u) ==
    /\ secrets[u] # 0 /\ Spend("meddle")
    /\ \/ secrets' = [secrets EXCEPT ![u] = 0] /\ owned' = owned \ {u} /\ UNCHANGED issued
       \/ /\ issued' = [issued EXCEPT ![u] = @ + 1] /\ UNCHANGED owned
          /\ secrets' = [secrets EXCEPT ![u] = issued'[u]]
    /\ lost' = IF Knows(u) THEN lost \cup {u} ELSE lost
    /\ dirty' = (dirty \/ u \in owned)
    /\ UNCHANGED <<redHat, spec, config, mounted, pods, run, disk, pc, mem>>

EditSpec ==
    /\ Spend("edit")
    /\ spec' \in Specs \ {spec} /\ dirty' = TRUE
    /\ UNCHANGED <<redHat, objects, pc, mem>>

\* The resource is removed, everything it owns is collected, and it is created
\* again: secrets that users made and the claimed volume remain.
Reinstall ==
    /\ Spend("reinstall")
    /\ lost' = lost \cup {u \in owned : disk["claim"].roles[u] # 0}
    /\ secrets' = [u \in Users |-> IF u \in owned THEN 0 ELSE secrets[u]] /\ owned' = {}
    /\ config' = Absent /\ mounted' = Absent
    /\ pods' = [x \in Pods |-> Absent] /\ run' = pods'
    /\ disk' = [disk EXCEPT !["empty"] = NoData]
    /\ spec' \in Specs
    /\ dirty' = TRUE /\ pc' = 0 /\ mem' = Absent
    /\ UNCHANGED <<redHat, issued>>

Init ==
    /\ redHat \in BOOLEAN /\ spec \in Specs
    /\ secrets = [u \in Users |-> IF u \in Given THEN 1 ELSE 0] /\ issued = secrets
    /\ owned = {}
    /\ config = Absent /\ mounted = Absent
    /\ pods = [x \in Pods |-> Absent] /\ run = pods
    /\ disk = [v \in {"claim", "empty"} |-> NoData]
    /\ lost = {}
    /\ dirty = TRUE /\ pc = 0 /\ mem = Absent /\ budget \in Scenarios

Operator == Begin \/ Step
Database == StartDb \/ InitDb \/ InitApp \/ InitKeycloak \/ InitKeycloakDb
Client(c) == StartClient(c) \/ ExitClient(c)

Next ==
    \/ Begin \/ Step \/ Abort \/ Resync
    \/ StartDb \/ InitDb \/ InitApp \/ InitKeycloak \/ InitKeycloakDb \/ Refresh
    \/ \E c \in Clients : StartClient(c) \/ ExitClient(c)
    \/ \E x \in Pods : CrashContainer(x) \/ DeletePod(x)
    \/ \E u \in Users : Meddle(u)
    \/ EditSpec \/ Reinstall

Spec == Init /\ [][Next]_vars

\* The worker, the resync and the kubelets go on; nothing else need happen.
FairSpec ==
    /\ Spec
    /\ WF_vars(Operator) /\ WF_vars(Resync)
    /\ WF_vars(Database) /\ WF_vars(Refresh)
    /\ \A c \in Clients : WF_vars(Client(c))

----------------------------------------------------------------------------
(* Properties.                                                             *)

\* Every variable has its type, and a pass that ended or failed leaves nothing
\* behind: the next one reads the resource again (Reconcile).
TypeOK ==
    /\ redHat \in BOOLEAN /\ spec \in Specs
    /\ secrets \in [Users -> Nat] /\ issued \in [Users -> Nat]
    /\ owned \subseteq {u \in Users : secrets[u] # 0}
    /\ config \in DbNames \cup {Absent} /\ mounted \in DbNames \cup {Absent}
    /\ DOMAIN pods = Pods
    /\ \A x \in Pods : pods[x] \in {PodFor(x, s) : s \in Specs} \cup {Absent}
    /\ run \in [Pods -> Container \cup {Absent}]
    /\ disk \in [{"claim", "empty"} -> Data]
    /\ lost \subseteq Users
    /\ dirty \in BOOLEAN /\ pc \in {0} \cup Steps
    /\ mem \in Specs \cup {Absent} /\ (pc = 0 <=> mem = Absent)
    /\ budget \in [Disturbances -> Nat]

\* The secret of a user holds the password the database has for it, or will
\* give it, on every volume and whatever is renamed, replaced, restarted or
\* retried; only others can part them, by their change of a secret or by a
\* removal of the resource that spares the volume (newSecret, postgresPod).
Agreement ==
    \A u \in Users \ lost :
        /\ \A v \in DOMAIN disk : disk[v].roles[u] \in {0, secrets[u]}
        /\ Runs("db") => run["db"].env[u] \in {0, secrets[u]}

\* Where the secrets agree with the database, and its scripts have run for the
\* spec, both Keycloak and the application are logged in in the end, whatever
\* they read when they started first. With the Red Hat image the scripts do
\* run for a changed user (postgresConfigMap, postgresPod, keycloakPod, appPod).
Served ==
    <>[](/\ redHat => data.ran # Absent /\ data.ran.kcUser = spec.kcUser
         /\ /\ data.ran = [kcUser |-> spec.kcUser, kcDb |-> spec.kcDb]
            /\ \A u \in {"admin", "app", spec.kcUser} : data.roles[u] \in {0, secrets[u]}
            => \A c \in Clients : LoggedIn(c))

=============================================================================
