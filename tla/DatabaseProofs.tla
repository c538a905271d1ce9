--------------------------- MODULE DatabaseProofs ---------------------------
(***************************************************************************)
(* Proofs about Database for all users, database names, specs and secrets  *)
(* given beforehand, both image flavours and every bound on the            *)
(* disturbances.                                                           *)
(***************************************************************************)
EXTENDS Database, TLAPS

----------------------------------------------------------------------------
(* The inductive invariant.                                                *)

Volumes == {"claim", "empty"}

\* The objects a container needs are there: it belongs to a pod, and the start
\* scripts of the database find the name of Keycloak's database, because the
\* pass made the config map before the pod.
Prepared ==
    /\ pc \in 5..7 \/ Exists("db") => config # Absent
    /\ \A x \in Pods : Runs(x) => Exists(x)
    /\ Runs("db") => mounted # Absent

IInv == TypeOK /\ Prepared /\ Agreement

----------------------------------------------------------------------------
(* Users, pods and volumes.                                                *)

Known(x) == {PodFor(x, s) : s \in Specs}

\* The fixed users are users.
LEMMA FixedUsers == "admin" \in Users /\ "app" \in Users /\ KcUsers \subseteq Users
BY DEF Users

\* The pod of a database names its user and its volume.
LEMMA DbPod ==
    ASSUME TypeOK, Exists("db")
    PROVE  pods["db"].kcUser \in KcUsers /\ Volume(pods["db"]) \in Volumes
<1>1. PICK s \in Specs : pods["db"] = PodFor("db", s)
  BY DEF TypeOK, Exists, Pods
<1>2. s \in DbSpec
  BY <1>1, SpecsAssumption
<1>3. pods["db"].kcUser = s.kcUser
  BY <1>1, <1>2 DEF PodFor, Fields
<1>4. Volume(pods["db"]) \in Volumes
  BY Zenon DEF Volume, Volumes
<1> QED BY <1>2, <1>3, <1>4 DEF DbSpec

\* The data directory of the database is one of the volumes, or empty.
LEMMA DataType ==
    ASSUME TypeOK
    PROVE  /\ NoData \in Data /\ data \in Data
           /\ Exists("db") => data = disk[Volume(pods["db"])]
           /\ \A v \in Volumes : disk[v] \in Data
<1>1. NoData \in Data
  BY DEF NoData, Data, Ran
<1>2. \A v \in Volumes : disk[v] \in Data
  BY DEF TypeOK, Volumes
<1> QED BY <1>1, <1>2, DbPod DEF data

----------------------------------------------------------------------------
(* Steps of the pass.                                                      *)

\* A new secret: nobody can have used one that was not there.
LEMMA EnsureSecretKeeps ==
    ASSUME IInv, NEW u \in Users, EnsureSecret(u)
    PROVE  /\ secrets' \in [Users -> Nat] /\ issued' \in [Users -> Nat]
           /\ owned' \subseteq {w \in Users : secrets'[w] # 0}
           /\ Agreement'
<1>1. CASE secrets[u] # 0
  BY <1>1 DEF IInv, TypeOK, EnsureSecret, credentials, Agreement, Runs
<1>2. CASE secrets[u] = 0
  <2>1. /\ issued' = [issued EXCEPT ![u] = @ + 1]
        /\ secrets' = [secrets EXCEPT ![u] = issued'[u]]
        /\ owned' = owned \cup {u} /\ UNCHANGED <<run, disk, lost>>
    BY <1>2 DEF EnsureSecret
  <2>2. /\ secrets' \in [Users -> Nat] /\ issued' \in [Users -> Nat]
        /\ secrets'[u] # 0 /\ \A w \in Users \ {u} : secrets'[w] = secrets[w]
    BY <2>1 DEF IInv, TypeOK
  <2>3. owned' \subseteq {w \in Users : secrets'[w] # 0}
    BY <2>1, <2>2 DEF IInv, TypeOK
  <2>4. \A w \in Users \ lost :
          /\ \A v \in DOMAIN disk : disk[v].roles[w] \in {0, secrets'[w]}
          /\ Runs("db") => run["db"].env[w] \in {0, secrets'[w]}
    BY <1>2, <2>2 DEF IInv, Agreement
  <2> QED BY <2>1, <2>2, <2>3, <2>4 DEF Agreement, Runs
<1> QED BY <1>1, <1>2

\* A pod that goes takes its containers along, and what only it had.
LEMMA PodGoneKeeps ==
    ASSUME IInv, NEW x \in Pods, NEW pod \in Known(x) \cup {Absent},
           PodGone(x, pod), UNCHANGED <<secrets, lost>>
    PROVE  /\ DOMAIN pods' = Pods /\ \A y \in Pods : pods'[y] \in Known(y) \cup {Absent}
           /\ run' \in [Pods -> Container \cup {Absent}]
           /\ disk' \in [Volumes -> Data] /\ mounted' \in DbNames \cup {Absent}
           /\ \A y \in Pods : Runs(y)' => Exists(y)'
           /\ Runs("db")' => mounted' # Absent
           /\ Agreement'
<1>1. /\ pods' = [pods EXCEPT ![x] = pod] /\ run' = [run EXCEPT ![x] = Absent]
      /\ DOMAIN pods = Pods /\ run \in [Pods -> Container \cup {Absent}]
  BY DEF PodGone, IInv, TypeOK
<1>2. /\ run' \in [Pods -> Container \cup {Absent}] /\ DOMAIN pods' = Pods
      /\ pods'[x] = pod /\ run'[x] = Absent
      /\ \A y \in Pods \ {x} : run'[y] = run[y] /\ pods'[y] = pods[y]
  BY <1>1
<1>3. \A y \in Pods : pods'[y] \in Known(y) \cup {Absent}
  BY <1>2 DEF IInv, TypeOK, Known
<1>4. \A y \in Pods : Runs(y)' => Exists(y)'
  BY <1>2 DEF IInv, Prepared, Runs, Exists
<1>5. CASE x = "db"
  <2>1. mounted' = Absent /\ disk' = [disk EXCEPT !["empty"] = NoData]
    BY <1>5 DEF PodGone
  <2>2. disk' \in [Volumes -> Data]
    BY <2>1, DataType DEF IInv, TypeOK, Volumes
  <2>3. Agreement'
    <3>1. \A v \in Volumes : disk'[v] = disk[v] \/ disk'[v] = NoData
      BY <2>1 DEF IInv, TypeOK, Volumes
    <3>2. \A u \in Users : NoData.roles[u] = 0
      BY DEF NoData
    <3> QED BY <1>2, <1>5, <2>2, <3>1, <3>2 DEF IInv, TypeOK, Agreement, Runs, Volumes
  <2> QED BY <1>2, <1>3, <1>4, <1>5, <2>1, <2>2, <2>3 DEF Runs
<1>6. CASE x # "db"
  <2>1. UNCHANGED <<mounted, disk>> /\ run'["db"] = run["db"]
    BY <1>2, <1>6 DEF PodGone, Pods
  <2> QED BY <1>2, <1>3, <1>4, <2>1 DEF IInv, TypeOK, Prepared, Agreement, Runs, Volumes
<1> QED BY <1>5, <1>6

\* comparePods leaves the pod that fits, or makes it anew.
LEMMA EnsurePodKeeps ==
    ASSUME IInv, NEW x \in Pods, EnsurePod(x), mem \in Specs
    PROVE  /\ DOMAIN pods' = Pods /\ \A y \in Pods : pods'[y] \in Known(y) \cup {Absent}
           /\ run' \in [Pods -> Container \cup {Absent}]
           /\ disk' \in [Volumes -> Data] /\ mounted' \in DbNames \cup {Absent}
           /\ \A y \in Pods : Runs(y)' => Exists(y)'
           /\ Runs("db")' => mounted' # Absent
           /\ Agreement'
<1>1. PodFor(x, mem) \in Known(x) /\ UNCHANGED <<secrets, lost>>
  BY DEF Known, EnsurePod, credentials
<1>2. CASE pods[x] = PodFor(x, mem)
  <2>1. UNCHANGED <<pods, run, mounted, disk, secrets, lost>>
    BY <1>1, <1>2 DEF EnsurePod
  <2> QED BY <2>1 DEF IInv, TypeOK, Prepared, Agreement, Runs, Exists, Known, Volumes
<1>3. CASE pods[x] # PodFor(x, mem)
  BY <1>1, <1>3, PodGoneKeeps, Zenon DEF EnsurePod
<1> QED BY <1>2, <1>3

LEMMA BeginKeeps == ASSUME IInv, Begin PROVE IInv'
<1>1. TypeOK'
  <2>1. /\ dirty' = FALSE /\ pc' = 1 /\ mem' = spec /\ spec \in Specs /\ spec # Absent
        /\ UNCHANGED <<redHat, spec, objects, budget>>
    BY AbsentAssumption DEF IInv, TypeOK, Begin
  <2>2. dirty' \in BOOLEAN
    BY <2>1, Zenon
  <2>3. pc' \in {0} \cup Steps /\ mem' \in Specs \cup {Absent} /\ (pc' = 0 <=> mem' = Absent)
    BY <2>1 DEF Steps
  <2> QED BY <2>1, <2>2, <2>3 DEF IInv, TypeOK, objects, credentials
<1>2. Prepared'
  BY DEF IInv, Prepared, Begin, objects, Exists, Runs
<1>3. Agreement'
  BY DEF IInv, Agreement, Begin, objects, credentials, Runs
<1> QED BY <1>1, <1>2, <1>3 DEF IInv

\* The pass goes on, or ends.
LEMMA StepGoesOn ==
    ASSUME IInv, Step
    PROVE  /\ mem \in Specs /\ mem.kcUser \in Users /\ mem.kcDb \in DbNames
           /\ redHat' \in BOOLEAN /\ spec' \in Specs /\ dirty' \in BOOLEAN
           /\ pc' \in {0} \cup Steps /\ mem' \in Specs \cup {Absent}
           /\ pc' = 0 <=> mem' = Absent
           /\ budget' \in [Disturbances -> Nat]
           /\ pc' \in 5..7 => pc \in 4..6
<1>1. mem \in Specs /\ mem \in DbSpec /\ mem # Absent
  BY SpecsAssumption DEF IInv, TypeOK, Step, Steps
<1>2. mem.kcUser \in Users /\ mem.kcDb \in DbNames
  BY <1>1, FixedUsers DEF DbSpec
<1> QED BY <1>1, <1>2 DEF IInv, TypeOK, Step, Steps

\* Step makes secrets before they are used and the config map before the pod,
\* and takes no pod's containers for those of another.
LEMMA StepKeeps == ASSUME IInv, Step PROVE IInv'
<1> USE StepGoesOn
<1>1. ASSUME NEW u \in Users, EnsureSecret(u), pc \in 1..3 PROVE IInv'
  <2>1. UNCHANGED <<config, mounted, pods, run, disk, lost>>
    BY <1>1 DEF EnsureSecret
  <2>2. TypeOK'
    BY <1>1, <2>1, EnsureSecretKeeps DEF IInv, TypeOK
  <2>3. Prepared'
    BY <1>1, <2>1 DEF IInv, Prepared, Exists, Runs
  <2> QED BY <1>1, <2>2, <2>3, EnsureSecretKeeps DEF IInv
<1>2. ASSUME EnsureConfig PROVE IInv'
  <2>1. UNCHANGED <<credentials, mounted, pods, run, disk, lost>> /\ config' = mem.kcDb
    BY <1>2 DEF EnsureConfig
  <2>2. TypeOK'
    BY <2>1 DEF IInv, TypeOK, credentials
  <2>3. Prepared'
    BY <2>1, AbsentAssumption DEF IInv, Prepared, Exists, Runs
  <2>4. Agreement'
    BY <2>1 DEF IInv, Agreement, Runs, credentials
  <2> QED BY <2>2, <2>3, <2>4 DEF IInv
<1>3. ASSUME NEW x \in Pods, EnsurePod(x), pc \in 5..7 PROVE IInv'
  <2>1. UNCHANGED <<credentials, config, lost>> /\ config # Absent
    BY <1>3 DEF EnsurePod, IInv, Prepared
  <2>2. TypeOK'
    BY <1>3, <2>1, EnsurePodKeeps DEF IInv, TypeOK, Known, Volumes, credentials
  <2>3. Prepared'
    BY <1>3, <2>1, EnsurePodKeeps DEF Prepared
  <2> QED BY <1>3, <2>2, <2>3, EnsurePodKeeps DEF IInv
<1>4. {"db", "keycloak", "app"} \subseteq Pods
  BY DEF Pods, Clients
<1>5. \/ \E u \in Users : EnsureSecret(u) /\ pc \in 1..3
      \/ EnsureConfig
      \/ \E x \in Pods : EnsurePod(x) /\ pc \in 5..7
  BY <1>4, FixedUsers DEF Step
<1> QED BY <1>1, <1>2, <1>3, <1>5

\* A disturbance is paid for.
LEMMA Spending ==
    ASSUME IInv, NEW d \in Disturbances, Spend(d)
    PROVE  budget' \in [Disturbances -> Nat]
BY DEF IInv, TypeOK, Spend

LEMMA AbortKeeps == ASSUME IInv, Abort PROVE IInv'
<1>1. TypeOK'
  BY Spending DEF IInv, TypeOK, Abort, objects, credentials, Disturbances
<1>2. Prepared'
  BY DEF IInv, Prepared, Abort, objects, Exists, Runs
<1>3. Agreement'
  BY DEF IInv, Agreement, Abort, objects, credentials, Runs
<1> QED BY <1>1, <1>2, <1>3 DEF IInv

LEMMA ResyncKeeps == ASSUME IInv, Resync PROVE IInv'
<1>1. TypeOK'
  BY DEF IInv, TypeOK, Resync, objects, credentials
<1>2. Prepared'
  BY DEF IInv, Prepared, Resync, objects, Exists, Runs
<1>3. Agreement'
  BY DEF IInv, Agreement, Resync, objects, credentials, Runs
<1> QED BY <1>1, <1>2, <1>3 DEF IInv

----------------------------------------------------------------------------
(* Containers.                                                             *)

\* What is left alone when the containers change.
LEMMA ContainersOnly ==
    ASSUME IInv,
           UNCHANGED <<redHat, spec, credentials, config, pods, lost, dirty, pc, mem>>,
           run' \in [Pods -> Container \cup {Absent}],
           disk' \in [Volumes -> Data], mounted' \in DbNames \cup {Absent},
           budget' \in [Disturbances -> Nat]
    PROVE  TypeOK'
BY DEF IInv, TypeOK, credentials, Volumes

\* A container reads what the secrets hold now.
LEMMA StartContainerKeeps ==
    ASSUME IInv, NEW x \in Pods, NEW stage \in Stages, StartContainer(x, stage)
    PROVE  /\ run' \in [Pods -> Container \cup {Absent}]
           /\ \A y \in Pods : y # x => run'[y] = run[y]
           /\ \A u \in Users : run'[x].env[u] \in {0, secrets[u]}
           /\ \A y \in Pods : Runs(y)' => Exists(y)'
           /\ UNCHANGED <<redHat, spec, credentials, config, pods, disk, lost, dirty, pc, mem, budget>>
<1> DEFINE used == UsersOf(x, pods[x])
           env  == [u \in Users |-> IF u \in used THEN secrets[u] ELSE 0]
<1>1. /\ run' = [run EXCEPT ![x] = [env |-> env, stage |-> stage]] /\ Exists(x)
      /\ UNCHANGED <<redHat, spec, credentials, config, pods, disk, lost, dirty, pc, mem, budget>>
  BY DEF StartContainer, pass
<1>2. env \in [Users -> Nat] /\ \A u \in Users : env[u] \in {0, secrets[u]}
  BY DEF IInv, TypeOK
<1> HIDE DEF env
<1>3. [env |-> env, stage |-> stage] \in Container
  BY <1>2 DEF Container
<1>4. /\ run' \in [Pods -> Container \cup {Absent}]
      /\ run'[x] = [env |-> env, stage |-> stage]
      /\ \A y \in Pods : y # x => run'[y] = run[y]
  BY <1>1, <1>3 DEF IInv, TypeOK
<1>5. \A y \in Pods : Runs(y)' => Exists(y)'
  BY <1>1, <1>4 DEF IInv, Prepared, Runs, Exists
<1> QED BY <1>1, <1>2, <1>4, <1>5

LEMMA StartClientKeeps == ASSUME IInv, NEW c \in Clients, StartClient(c) PROVE IInv'
<1>1. /\ c \in Pods /\ c # "db" /\ "db" \in Pods /\ "up" \in Stages
      /\ StartContainer(c, "up") /\ UNCHANGED mounted
  BY DEF Pods, Clients, Stages, StartClient
<1>2. TypeOK'
  BY <1>1, StartContainerKeeps, ContainersOnly DEF IInv, TypeOK, Volumes
<1>3. Prepared'
  BY <1>1, StartContainerKeeps DEF IInv, Prepared, Exists, Runs
<1>4. Agreement'
  BY <1>1, StartContainerKeeps DEF IInv, Agreement, Runs, credentials
<1> QED BY <1>2, <1>3, <1>4 DEF IInv

LEMMA StartDbKeeps == ASSUME IInv, StartDb PROVE IInv'
<1>1. /\ "db" \in Pods /\ "init" \in Stages /\ StartContainer("db", "init") /\ Exists("db")
      /\ mounted' = IF mounted = Absent THEN config ELSE mounted
  BY DEF Pods, Stages, StartDb, StartContainer
<1>2. mounted' \in DbNames \cup {Absent} /\ mounted' # Absent
  BY <1>1 DEF IInv, TypeOK, Prepared
<1>3. TypeOK'
  BY <1>1, <1>2, StartContainerKeeps, ContainersOnly DEF IInv, TypeOK, Volumes
<1>4. Prepared'
  BY <1>1, <1>2, StartContainerKeeps DEF IInv, Prepared, Exists, Runs
<1>5. Agreement'
  BY <1>1, StartContainerKeeps DEF IInv, Agreement, Runs, credentials
<1> QED BY <1>3, <1>4, <1>5 DEF IInv

\* The database has a container, and what it was told agrees.
LEMMA DbRuns ==
    ASSUME IInv, Exists("db"), Runs("db")
    PROVE  /\ run["db"] \in Container /\ mounted \in DbNames
           /\ pods["db"].kcUser \in KcUsers /\ Volume(pods["db"]) \in Volumes
           /\ data = disk[Volume(pods["db"])] /\ data \in Data
           /\ \A u \in Users \ lost :
                data.roles[u] \in {0, secrets[u]} /\ run["db"].env[u] \in {0, secrets[u]}
<1>1. "db" \in Pods /\ run["db"] \in Container /\ mounted \in DbNames
  BY DEF IInv, TypeOK, Prepared, Runs, Pods
<1>2. /\ pods["db"].kcUser \in KcUsers /\ Volume(pods["db"]) \in Volumes
      /\ data = disk[Volume(pods["db"])] /\ data \in Data
  BY DbPod, DataType DEF IInv
<1>3. Volume(pods["db"]) \in DOMAIN disk
  BY <1>2 DEF IInv, TypeOK, Volumes
<1>4. \A u \in Users \ lost : data.roles[u] \in {0, secrets[u]} /\ run["db"].env[u] \in {0, secrets[u]}
  BY <1>2, <1>3 DEF IInv, Agreement
<1> QED BY <1>1, <1>2, <1>4

\* A start script gives no role a password that differs from its secret.
LEMMA AdvanceKeeps ==
    ASSUME IInv, NEW from, NEW to \in Stages, NEW new \in Data, Advance(from, to, new),
           \A u \in Users \ lost : new.roles[u] \in {0, secrets[u]}
    PROVE  IInv'
<1> DEFINE v == Volume(pods["db"])
<1>1. /\ run' = [run EXCEPT !["db"].stage = to]
      /\ disk' = [disk EXCEPT ![v] = new]
      /\ UNCHANGED <<redHat, spec, credentials, config, mounted, pods, lost, dirty, pc, mem, budget>>
      /\ Exists("db") /\ Runs("db")
  BY DEF Advance, pass
<1>2. v \in Volumes /\ run["db"] \in Container /\ "db" \in Pods
  BY <1>1, DbRuns DEF Pods
<1> HIDE DEF v
<1>3. disk' \in [Volumes -> Data] /\ \A w \in Volumes : disk'[w] = IF w = v THEN new ELSE disk[w]
  BY <1>1, <1>2 DEF IInv, TypeOK, Volumes
<1>4. [run["db"] EXCEPT !.stage = to] \in Container
  BY <1>2 DEF Container
<1>5. /\ run' \in [Pods -> Container \cup {Absent}]
      /\ run'["db"] = [run["db"] EXCEPT !.stage = to]
      /\ \A y \in Pods : y # "db" => run'[y] = run[y]
  BY <1>1, <1>2, <1>4 DEF IInv, TypeOK
<1>6. run'["db"].env = run["db"].env
  BY <1>2, <1>5 DEF Container
<1>7. TypeOK'
  BY <1>1, <1>3, <1>5, ContainersOnly DEF IInv, TypeOK
<1>8. Prepared'
  BY <1>1, <1>5 DEF IInv, Prepared, Exists, Runs
<1>9. Agreement'
  <2>1. \A u \in Users \ lost, w \in Volumes : disk'[w].roles[u] \in {0, secrets[u]}
    BY <1>3 DEF IInv, Agreement, TypeOK, Volumes
  <2>2. \A u \in Users \ lost : run'["db"].env[u] \in {0, secrets[u]}
    BY <1>1, <1>6 DEF IInv, Agreement
  <2> QED BY <1>1, <1>3, <2>1, <2>2 DEF Agreement, credentials
<1> QED BY <1>7, <1>8, <1>9 DEF IInv

\* A role that gets the password in the environment of the database.
LEMMA Role ==
    ASSUME IInv, Exists("db"), Runs("db"), NEW u \in Users
    PROVE  /\ WithRole(u) \in Data
           /\ \A w \in Users \ lost : WithRole(u).roles[w] \in {0, secrets[w]}
<1>1. data \in Data /\ run["db"].env \in [Users -> Nat]
  BY DbRuns DEF Container
<1>2. /\ [data EXCEPT !.roles[u] = run["db"].env[u]] \in Data
      /\ \A w \in Users : [data EXCEPT !.roles[u] = run["db"].env[u]].roles[w]
                            = IF w = u THEN run["db"].env[u] ELSE data.roles[w]
  BY <1>1 DEF Data
<1> QED BY <1>1, <1>2, DbRuns DEF WithRole

LEMMA InitDbKeeps == ASSUME IInv, InitDb PROVE IInv'
<1> DEFINE admin == [data EXCEPT !.made = TRUE, !.roles["admin"] = run["db"].env["admin"]]
<1>1. Exists("db") /\ Runs("db") /\ {"app role", "up"} \subseteq Stages
  BY DEF InitDb, Advance, Stages
<1>2. data \in Data /\ run["db"].env \in [Users -> Nat] /\ "admin" \in Users
  BY <1>1, DbRuns, FixedUsers DEF Container
<1>3. admin.roles = [data.roles EXCEPT !["admin"] = run["db"].env["admin"]]
  BY <1>2 DEF Data
<1>4. admin \in Data
  BY <1>2, Zenon DEF Data
<1>5. \A w \in Users : admin.roles[w] = IF w = "admin" THEN run["db"].env["admin"] ELSE data.roles[w]
  BY <1>2, <1>3 DEF Data
<1> HIDE DEF admin
<1>6. \A w \in Users \ lost : admin.roles[w] \in {0, secrets[w]} /\ data.roles[w] \in {0, secrets[w]}
  BY <1>1, <1>5, DbRuns
<1>7. CASE ~data.made \/ redHat
  BY <1>1, <1>4, <1>6, <1>7, AdvanceKeeps DEF InitDb, admin
<1>8. CASE ~(~data.made \/ redHat)
  BY <1>1, <1>2, <1>6, <1>8, AdvanceKeeps DEF InitDb, admin
<1> QED BY <1>7, <1>8

LEMMA InitAppKeeps == ASSUME IInv, InitApp PROVE IInv'
<1>1. Exists("db") /\ Runs("db") /\ "keycloak role" \in Stages /\ "app" \in Users
  BY FixedUsers DEF InitApp, Advance, Stages
<1> QED BY <1>1, Role, AdvanceKeeps DEF InitApp

LEMMA InitKeycloakKeeps == ASSUME IInv, InitKeycloak PROVE IInv'
<1>1. /\ Exists("db") /\ Runs("db") /\ "keycloak database" \in Stages
      /\ pods["db"].kcUser \in Users
  BY FixedUsers, DbRuns DEF InitKeycloak, Advance, Stages
<1> QED BY <1>1, Role, AdvanceKeeps DEF InitKeycloak

LEMMA InitKeycloakDbKeeps == ASSUME IInv, InitKeycloakDb PROVE IInv'
<1> DEFINE new == [data EXCEPT !.names = @ \cup {mounted},
                               !.ran = [kcUser |-> pods["db"].kcUser, kcDb |-> mounted]]
<1>1. Exists("db") /\ Runs("db") /\ "up" \in Stages
  BY DEF InitKeycloakDb, Advance, Stages
<1>2. data \in Data /\ mounted \in DbNames /\ pods["db"].kcUser \in KcUsers
  BY <1>1, DbRuns
<1>3. [kcUser |-> pods["db"].kcUser, kcDb |-> mounted] \in Ran
  BY <1>2 DEF Ran
<1>4. new \in Data /\ new.roles = data.roles
  BY <1>2, <1>3 DEF Data
<1>5. Advance("keycloak database", "up", new)
  BY DEF InitKeycloakDb
<1> HIDE DEF new
<1> QED BY <1>1, <1>4, <1>5, DbRuns, AdvanceKeeps

LEMMA RefreshKeeps == ASSUME IInv, Refresh PROVE IInv'
<1>1. /\ mounted # Absent /\ mounted' = config
      /\ UNCHANGED <<redHat, spec, credentials, config, pods, run, disk, lost, dirty, pc, mem, budget>>
  BY DEF Refresh, pass
<1>2. TypeOK'
  BY <1>1 DEF IInv, TypeOK, credentials
<1>3. Runs("db") => Exists("db")
  BY DEF IInv, Prepared, Pods
<1>4. Prepared'
  BY <1>1, <1>3 DEF IInv, Prepared, Exists, Runs
<1>5. Agreement'
  BY <1>1 DEF IInv, Agreement, Runs, credentials
<1> QED BY <1>2, <1>4, <1>5 DEF IInv

\* A container stops.
LEMMA Stopped ==
    ASSUME IInv, NEW x \in Pods, run' = [run EXCEPT ![x] = Absent],
           UNCHANGED <<redHat, spec, credentials, config, mounted, pods, disk, lost, dirty, pc, mem>>,
           budget' \in [Disturbances -> Nat]
    PROVE  IInv'
<1>1. run' \in [Pods -> Container \cup {Absent}] /\ \A y \in Pods : run'[y] \in {run[y], Absent}
  BY DEF IInv, TypeOK
<1>2. TypeOK'
  BY <1>1, ContainersOnly DEF IInv, TypeOK, Volumes
<1>3. Prepared'
  BY <1>1 DEF IInv, Prepared, Exists, Runs, Pods
<1>4. Agreement'
  BY <1>1 DEF IInv, Agreement, Runs, Pods, credentials
<1> QED BY <1>2, <1>3, <1>4 DEF IInv

LEMMA ExitClientKeeps == ASSUME IInv, NEW c \in Clients, ExitClient(c) PROVE IInv'
<1>1. /\ c \in Pods /\ run' = [run EXCEPT ![c] = Absent]
      /\ UNCHANGED <<redHat, spec, credentials, config, mounted, pods, disk, lost, dirty, pc, mem>>
      /\ budget' \in [Disturbances -> Nat]
  BY DEF ExitClient, pass, Pods, IInv, TypeOK
<1> QED BY <1>1, Stopped

LEMMA CrashContainerKeeps == ASSUME IInv, NEW x \in Pods, CrashContainer(x) PROVE IInv'
<1>1. /\ run' = [run EXCEPT ![x] = Absent]
      /\ UNCHANGED <<redHat, spec, credentials, config, mounted, pods, disk, lost, dirty, pc, mem>>
      /\ budget' \in [Disturbances -> Nat]
  BY Spending DEF CrashContainer, pass, Disturbances
<1> QED BY <1>1, Stopped

----------------------------------------------------------------------------
(* Others.                                                                 *)

LEMMA DeletePodKeeps == ASSUME IInv, NEW x \in Pods, DeletePod(x) PROVE IInv'
<1>1. /\ PodGone(x, Absent) /\ dirty' = TRUE /\ budget' \in [Disturbances -> Nat]
      /\ UNCHANGED <<redHat, spec, secrets, issued, owned, config, lost, pc, mem>>
  BY Spending DEF DeletePod, Disturbances, credentials
<1>2. /\ DOMAIN pods' = Pods /\ \A y \in Pods : pods'[y] \in Known(y) \cup {Absent}
      /\ run' \in [Pods -> Container \cup {Absent}]
      /\ disk' \in [Volumes -> Data] /\ mounted' \in DbNames \cup {Absent}
      /\ \A y \in Pods : Runs(y)' => Exists(y)'
      /\ Runs("db")' => mounted' # Absent
      /\ Agreement'
  BY <1>1, PodGoneKeeps
<1>3. dirty' \in BOOLEAN
  BY <1>1, Zenon
<1>4. TypeOK'
  BY <1>1, <1>2, <1>3 DEF IInv, TypeOK, Known, Volumes
<1>5. Exists("db")' => Exists("db")
  BY <1>1 DEF PodGone, Exists, IInv, TypeOK, Pods
<1>6. Prepared'
  BY <1>1, <1>2, <1>5 DEF IInv, Prepared
<1> QED BY <1>2, <1>4, <1>6 DEF IInv

\* Who changes a secret the database knows loses its user; one that it does
\* not know, nobody can have used.
LEMMA MeddleKeeps == ASSUME IInv, NEW u \in Users, Meddle(u) PROVE IInv'
<1>1. /\ lost' = IF Knows(u) THEN lost \cup {u} ELSE lost
      /\ dirty' = (dirty \/ u \in owned) /\ budget' \in [Disturbances -> Nat]
      /\ UNCHANGED <<redHat, spec, config, mounted, pods, run, disk, pc, mem>>
  BY Spending DEF Meddle, Disturbances
<1>2. /\ secrets' \in [Users -> Nat] /\ issued' \in [Users -> Nat]
      /\ owned' \subseteq {w \in Users : secrets'[w] # 0}
      /\ \A w \in Users \ {u} : secrets'[w] = secrets[w]
  <2>1. CASE secrets' = [secrets EXCEPT ![u] = 0] /\ owned' = owned \ {u} /\ UNCHANGED issued
    BY <2>1 DEF IInv, TypeOK
  <2>2. CASE /\ issued' = [issued EXCEPT ![u] = @ + 1] /\ UNCHANGED owned
             /\ secrets' = [secrets EXCEPT ![u] = issued'[u]]
    BY <2>2 DEF IInv, TypeOK
  <2> QED BY <2>1, <2>2 DEF Meddle
<1>3. dirty' \in BOOLEAN
  BY <1>1, Zenon
<1>4. lost' \subseteq Users /\ lost \subseteq lost'
  BY <1>1 DEF IInv, TypeOK
<1>5. TypeOK'
  BY <1>1, <1>2, <1>3, <1>4 DEF IInv, TypeOK
<1>6. Prepared'
  BY <1>1 DEF IInv, Prepared, Exists, Runs
<1>7. u \in lost' \/ (/\ \A v \in DOMAIN disk : disk[v].roles[u] = 0
                      /\ Runs("db") => run["db"].env[u] = 0)
  BY <1>1 DEF Knows
<1>8. Agreement'
  BY <1>1, <1>2, <1>4, <1>7 DEF IInv, Agreement, Runs
<1> QED BY <1>5, <1>6, <1>8 DEF IInv

LEMMA EditSpecKeeps == ASSUME IInv, EditSpec PROVE IInv'
<1>1. /\ spec' \in Specs /\ dirty' = TRUE /\ budget' \in [Disturbances -> Nat]
      /\ UNCHANGED <<redHat, objects, pc, mem>>
  BY Spending DEF EditSpec, Disturbances
<1>2. dirty' \in BOOLEAN
  BY <1>1, Zenon
<1>3. TypeOK'
  BY <1>1, <1>2 DEF IInv, TypeOK, objects, credentials
<1>4. Prepared'
  BY <1>1 DEF IInv, Prepared, Exists, Runs, objects
<1>5. Agreement'
  BY <1>1 DEF IInv, Agreement, Runs, objects, credentials
<1> QED BY <1>3, <1>4, <1>5 DEF IInv

\* A removal takes the secrets of the operator, and leaves the claimed volume.
LEMMA ReinstallKeeps == ASSUME IInv, Reinstall PROVE IInv'
<1>1. /\ lost' = lost \cup {u \in owned : disk["claim"].roles[u] # 0}
      /\ secrets' = [u \in Users |-> IF u \in owned THEN 0 ELSE secrets[u]]
      /\ owned' = {} /\ config' = Absent /\ mounted' = Absent
      /\ pods' = [x \in Pods |-> Absent] /\ run' = [x \in Pods |-> Absent]
      /\ disk' = [disk EXCEPT !["empty"] = NoData]
      /\ spec' \in Specs /\ dirty' = TRUE /\ pc' = 0 /\ mem' = Absent
      /\ UNCHANGED <<redHat, issued>>
      /\ budget' \in [Disturbances -> Nat]
  BY Spending DEF Reinstall, Disturbances
<1>2. dirty' \in BOOLEAN
  BY <1>1, Zenon
<1>3. /\ disk' \in [Volumes -> Data] /\ disk'["claim"] = disk["claim"]
      /\ disk'["empty"] = NoData
  BY <1>1, DataType DEF IInv, TypeOK, Volumes
<1>4. secrets' \in [Users -> Nat] /\ lost' \subseteq Users /\ owned \subseteq Users
  BY <1>1 DEF IInv, TypeOK
<1>5. run' \in [Pods -> Container \cup {Absent}] /\ \A x \in Pods : ~Exists(x)' /\ ~Runs(x)'
  BY <1>1 DEF Exists, Runs
<1>6. DOMAIN pods' = Pods /\ \A x \in Pods : pods'[x] = Absent
  BY <1>1
<1>7. TypeOK'
  BY <1>1, <1>2, <1>3, <1>4, <1>5, <1>6 DEF IInv, TypeOK, Volumes
<1>8. "db" \in Pods
  BY DEF Pods
<1>9. Prepared'
  BY <1>1, <1>5, <1>8 DEF Prepared
<1>10. Agreement'
  <2>1. \A u \in Users \ lost' : disk["claim"].roles[u] \in {0, secrets'[u]}
    BY <1>1, <1>4 DEF IInv, Agreement, TypeOK
  <2>2. \A u \in Users : NoData.roles[u] = 0
    BY DEF NoData
  <2> QED BY <1>3, <1>5, <1>8, <2>1, <2>2 DEF Agreement, Volumes
<1> QED BY <1>7, <1>9, <1>10 DEF IInv

----------------------------------------------------------------------------
(* The theorems.                                                           *)

\* In the beginning there are the secrets that users made.
LEMMA InitKeeps == ASSUME Init PROVE IInv
<1>1. secrets \in [Users -> Nat] /\ issued \in [Users -> Nat] /\ owned = {}
  BY DEF Init
<1>2. /\ disk = [v \in Volumes |-> NoData] /\ NoData \in Data
      /\ \A u \in Users : NoData.roles[u] = 0
  BY DEF Init, NoData, Data, Ran, Volumes
<1>3. /\ DOMAIN pods = Pods /\ run \in [Pods -> Container \cup {Absent}]
      /\ \A x \in Pods : pods[x] = Absent /\ run[x] = Absent
  BY DEF Init
<1>4. dirty \in BOOLEAN
  BY Zenon DEF Init
<1>5. TypeOK
  BY <1>1, <1>2, <1>3, <1>4, ScenariosAssumption DEF Init, TypeOK, Volumes
<1>6. "db" \in Pods
  BY DEF Pods
<1>7. Prepared
  BY <1>3, <1>6 DEF Init, Prepared, Exists, Runs
<1>8. Agreement
  BY <1>2, <1>3, <1>6 DEF Agreement, Runs
<1> QED BY <1>5, <1>7, <1>8 DEF IInv

\* Every step keeps the invariant.
LEMMA NextKeeps == ASSUME IInv, [Next]_vars PROVE IInv'
<1>1. CASE UNCHANGED vars
  <2>1. TypeOK'
    BY <1>1 DEF IInv, TypeOK, vars
  <2>2. Prepared'
    BY <1>1 DEF IInv, Prepared, Exists, Runs, vars
  <2>3. Agreement'
    BY <1>1 DEF IInv, Agreement, Runs, vars
  <2> QED BY <2>1, <2>2, <2>3 DEF IInv
<1>2. CASE Begin \/ Step \/ Abort \/ Resync
  BY <1>2, BeginKeeps, StepKeeps, AbortKeeps, ResyncKeeps
<1>3. CASE StartDb \/ InitDb \/ InitApp \/ InitKeycloak \/ InitKeycloakDb \/ Refresh
  BY <1>3, StartDbKeeps, InitDbKeeps, InitAppKeeps, InitKeycloakKeeps, InitKeycloakDbKeeps,
     RefreshKeeps
<1>4. ASSUME NEW c \in Clients, StartClient(c) \/ ExitClient(c) PROVE IInv'
  BY <1>4, StartClientKeeps, ExitClientKeeps
<1>5. ASSUME NEW x \in Pods, CrashContainer(x) \/ DeletePod(x) PROVE IInv'
  BY <1>5, CrashContainerKeeps, DeletePodKeeps
<1>6. ASSUME NEW u \in Users, Meddle(u) PROVE IInv'
  BY <1>6, MeddleKeeps
<1>7. CASE EditSpec \/ Reinstall
  BY <1>7, EditSpecKeeps, ReinstallKeeps
<1> QED BY <1>1, <1>2, <1>3, <1>4, <1>5, <1>6, <1>7 DEF Next

\* Every variable has its type in every state, for every set of specs.
THEOREM TypeCorrect == Spec => []TypeOK
<1>1. IInv => TypeOK
  BY DEF IInv
<1> QED BY <1>1, InitKeeps, NextKeeps, PTL DEF Spec

\* newSecret, the start scripts and the kubelet never part the password in a
\* secret from the one in the database: every user others left alone can log
\* in with what its secret holds, on every volume, whatever is renamed,
\* replaced, restarted, retried or installed again.
THEOREM PasswordsAgree == Spec => []Agreement
<1>1. IInv => Agreement
  BY DEF IInv
<1> QED BY <1>1, InitKeeps, NextKeeps, PTL DEF Spec

\* No container outlives its pod, and the database is never started without
\* the config map its scripts read: the pass makes that first.
THEOREM DatabasePrepared == Spec => []Prepared
<1>1. IInv => Prepared
  BY DEF IInv
<1> QED BY <1>1, InitKeeps, NextKeeps, PTL DEF Spec

=============================================================================
