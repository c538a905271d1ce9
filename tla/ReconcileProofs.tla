-------------------------- MODULE ReconcileProofs --------------------------
(***************************************************************************)
(* Proofs about Reconcile for every set of specs, every bound on the       *)
(* disturbances and every choice of lagging informers.                     *)
(***************************************************************************)
EXTENDS ReconcileProperties, SequenceTheorems, TLAPS

----------------------------------------------------------------------------
(* Contents.                                                               *)

\* A spec names a type for every service it may ask for.
LEMMA serviceTypeType ==
    ASSUME NEW t \in ServiceTypes PROVE serviceType(t) \in ServiceTypes
BY DEF serviceType, ServiceTypes

\* A sequence of one element.
LEMMA Singleton ==
    ASSUME NEW S, NEW x \in S PROVE <<x>> \in Seq(S) /\ <<>> \in Seq(S)
OBVIOUS

\* The TLS section of a route has its type.
LEMMA tlsType ==
    ASSUME NEW s \in CrSpec PROVE tls(s) \in Tls
BY DEF CrSpec, tls, Tls, TlsSecrets

\* What is appended to the lists of a pod are options.
LEMMA appPodType ==
    ASSUME NEW s \in CrSpec, NEW kc \in Url, NEW app \in Url
    PROVE  appPod(s, kc, app) \in PodSpec
<1>1. appCerts(s) \in Seq(Options)
  <2>1. s.rtls \in Options
    BY DEF CrSpec, Options
  <2>2. "app-certs" \in Options
    BY DEF Options
  <2>3. /\ <<s.rtls>> \in Seq(Options)
        /\ <<"app-certs">> \in Seq(Options)
        /\ <<>> \in Seq(Options)
    BY <2>1, <2>2, Singleton
  <2> QED BY <2>3, Zenon DEF appCerts
<1>2. (IF s.java THEN <<"java">> ELSE <<>>) \in Seq(Options)
  <2>1. "java" \in Options
    BY DEF Options
  <2>2. <<"java">> \in Seq(Options) /\ <<>> \in Seq(Options)
    BY <2>1, Singleton
  <2> QED BY <2>2, Zenon
<1>3. (IF s.java THEN <<"java">> ELSE <<>>) \o appCerts(s) \in Seq(Options)
  BY <1>1, <1>2, ConcatProperties
<1>4. s.image["app-pod"] \in Images /\ s.kcExt \in Url
  BY DEF CrSpec, Pods
<1>5. innerProtocol(s) \in {"", "http", "https"}
  BY DEF innerProtocol
<1> QED BY <1>3, <1>4, <1>5 DEF appPod, PodSpec

\* The host of a URL is a URL without its scheme.
LEMMA hostOfType == ASSUME NEW url \in Url PROVE hostOf(url) \in Url
BY DEF hostOf, Url, NoUrl

LEMMA keycloakPodType ==
    ASSUME NEW s \in CrSpec, NEW kc \in Url
    PROVE  keycloakPod(s, kc) \in PodSpec
<1>1. s.image["keycloak-pod"] \in Images /\ s.kcDb \in DbNames
  BY DEF CrSpec, Pods
<1>2. hostOf(kc) \in Url /\ NoUrl \in Url
  BY hostOfType DEF Url
<1>3. <<>> \in Seq(Options)
  OBVIOUS
<1> QED BY <1>1, <1>2, <1>3 DEF keycloakPod, PodSpec

\* Whatever the spec and the addresses known so far, the content wanted for an
\* object has the type of the object.
LEMMA DesiredType ==
    ASSUME NEW o \in Objects, NEW s \in CrSpec, NEW kc \in Url, NEW app \in Url
    PROVE  Desired(o, s, kc, app) \in SpecOf(o)
<1> USE DEF Objects, Secrets, CertSecrets, Credentials, ConfigMaps, Pods, Services, Routes
<1>1. CASE o \in Secrets
  BY <1>1 DEF Desired, SpecOf, SecretSpec
<1>2. CASE o \in ConfigMaps
  <2>1. s.kcDb \in DbNames /\ s.kcExt \in Url /\ NoUrl \in Url
    BY DEF CrSpec, Url
  <2>2. innerProtocol(s) \in {"", "http", "https"}
    BY DEF innerProtocol
  <2>3. /\ postgresConfigMap(s) \in ConfigSpec
        /\ uploadConfig(s) \in ConfigSpec
        /\ noConfig \in ConfigSpec
    BY <2>1, <2>2 DEF postgresConfigMap, uploadConfig, noConfig, ConfigSpec
  <2> QED BY <1>2, <2>3 DEF Desired, SpecOf
<1>3. CASE o \in Services
  <2>1. s.svc \in ServiceTypes /\ s.kcSvc \in ServiceTypes
    BY DEF CrSpec
  <2>2. serviceType(s.svc) \in ServiceTypes /\ serviceType(s.kcSvc) \in ServiceTypes
    BY <2>1, serviceTypeType
  <2>3. postgresService \in ServiceSpec
    BY DEF postgresService, ServiceSpec, ServiceTypes
  <2>4. keycloakService(s) \in ServiceSpec
    BY <2>2 DEF keycloakService, ServiceSpec
  <2>5. servicePort(s) \in {80, 443, 5432}
    BY DEF servicePort
  <2>6. appService(s) \in ServiceSpec
    BY <2>2, <2>5 DEF appService, ServiceSpec
  <2> QED BY <1>3, <2>3, <2>4, <2>6 DEF Desired, SpecOf
<1>4. CASE o \in Routes
  <2>1. s.rhost \in Hosts \cup {""} /\ s.kcHost \in Hosts \cup {""}
    BY DEF CrSpec
  <2>2. keycloakRoute(s) \in RouteSpec /\ appRoute(s) \in RouteSpec
    BY <2>1, tlsType DEF keycloakRoute, appRoute, RouteSpec
  <2> QED BY <1>4, <2>2 DEF Desired, SpecOf
<1>5. CASE o \in Pods
  <2>1. s.image["db-pod"] \in Images /\ NoUrl \in Url
    BY DEF CrSpec, Url
  <2>2. postgresPod(s) \in PodSpec
    BY <2>1 DEF postgresPod, PodSpec
  <2>3. keycloakPod(s, kc) \in PodSpec /\ appPod(s, kc, app) \in PodSpec
    BY keycloakPodType, appPodType
  <2> QED BY <1>5, <2>2, <2>3 DEF Desired, SpecOf
<1> QED BY <1>1, <1>2, <1>3, <1>4, <1>5

----------------------------------------------------------------------------
(* The program of a pass.                                                  *)

\* The steps the program for s is made of: only pods, services and routes are
\* ever removed, only certificates are made by createCA and createServiceCert,
\* and a load balancer or an external Keycloak is a matter of the spec.
Ops == {"Ensure", "CheckRoute"}
Removable == Pods \cup Services \cup Routes
Certificates == CertSecrets \cup {"service-ca"}
Balanced(s) == s.svc = "LoadBalancer" \/ s.kcSvc = "LoadBalancer"
StepSet(s) ==
    (Ops \X Objects) \cup ({"Present"} \X Certificates)
    \cup ({"Remove"} \X Removable) \cup ({"RouteUrl"} \X Routes)
    \cup ({"NodePort", "NoUrl"} \X Services)
    \cup {x \in {"LoadBalancer"} \X Services : Balanced(s)}
    \cup {x \in {"External"} \X Pods : s.kcExt # NoUrl}

LEMMA StepsType ==
    ASSUME NEW s, NEW op, NEW S, NEW objs \in Seq(S), {op} \X S \subseteq StepSet(s)
    PROVE  Steps(op, objs) \in Seq(StepSet(s))
<1>1. \A i \in DOMAIN objs : objs[i] \in S
  OBVIOUS
<1>2. \A i \in DOMAIN objs : <<op, objs[i]>> \in StepSet(s)
  BY <1>1
<1>3. DOMAIN objs = 1..Len(objs) /\ Len(objs) \in Nat
  OBVIOUS
<1> QED BY <1>2, <1>3 DEF Steps

LEMMA OpSteps ==
    ASSUME NEW s, NEW op \in Ops, NEW objs \in Seq(Objects)
    PROVE  Steps(op, objs) \in Seq(StepSet(s))
<1>1. {op} \X Objects \subseteq StepSet(s)
  BY DEF StepSet
<1> QED BY <1>1, StepsType

LEMMA PresentSteps ==
    ASSUME NEW s, NEW objs \in Seq(Certificates)
    PROVE  Steps("Present", objs) \in Seq(StepSet(s))
<1>1. {"Present"} \X Certificates \subseteq StepSet(s)
  BY DEF StepSet
<1> QED BY <1>1, StepsType

LEMMA RemoveSteps ==
    ASSUME NEW s, NEW objs \in Seq(Removable)
    PROVE  Steps("Remove", objs) \in Seq(StepSet(s))
<1>1. {"Remove"} \X Removable \subseteq StepSet(s)
  BY DEF StepSet
<1> QED BY <1>1, StepsType

LEMMA ExternalSteps ==
    ASSUME NEW s, s.kcExt # NoUrl
    PROVE  Steps("External", <<"keycloak-pod">>) \in Seq(StepSet(s))
<1>1. {"External"} \X Pods \subseteq StepSet(s)
  BY DEF StepSet
<1>2. <<"keycloak-pod">> \in Seq(Pods)
  BY DEF Pods
<1> QED BY <1>1, <1>2, StepsType

LEMMA Concat ==
    ASSUME NEW S, NEW p \in Seq(S), NEW q \in Seq(S)
    PROVE  p \o q \in Seq(S)
BY ConcatProperties

LEMMA SecretStepsType == ASSUME NEW s PROVE SecretSteps \in Seq(StepSet(s))
<1>1. <<"service-ca">> \in Seq(Objects)
  BY DEF Objects, ConfigMaps
<1>2. <<"ca-certs", "service-ca", "app-certs", "keycloak-certs">> \in Seq(Certificates)
  BY DEF Certificates, CertSecrets
<1>3. <<"db-admin", "app", "keycloak-admin", "keycloak-db", "admin">> \in Seq(Objects)
  BY DEF Objects, Secrets, Credentials
<1>4. "Ensure" \in Ops
  BY DEF Ops
<1>5. Steps("Ensure", <<"service-ca">>) \in Seq(StepSet(s))
  BY <1>1, <1>4, OpSteps
<1>6. Steps("Present", <<"ca-certs", "service-ca", "app-certs", "keycloak-certs">>)
        \in Seq(StepSet(s))
  BY <1>2, PresentSteps
<1>7. Steps("Ensure", <<"db-admin", "app", "keycloak-admin", "keycloak-db", "admin">>)
        \in Seq(StepSet(s))
  BY <1>3, <1>4, OpSteps
<1> QED BY <1>5, <1>6, <1>7, Concat DEF SecretSteps

LEMMA PostgresStepsType ==
    ASSUME NEW s PROVE PostgresSteps(s) \in Seq(StepSet(s))
<1>1. <<"postgresql-start", "db-pod", "db-svc">> \in Seq(Objects)
  BY DEF Objects, ConfigMaps, Pods, Services
<1>2. <<"db-pod", "db-svc">> \in Seq(Removable)
  BY DEF Removable, Pods, Services
<1>3. Steps("Ensure", <<"postgresql-start", "db-pod", "db-svc">>) \in Seq(StepSet(s))
  BY <1>1, OpSteps DEF Ops
<1>4. Steps("Remove", <<"db-pod", "db-svc">>) \in Seq(StepSet(s))
  BY <1>2, RemoveSteps
<1> QED BY <1>3, <1>4, Zenon DEF PostgresSteps

LEMMA UrlStepsType ==
    ASSUME NEW s, NEW t, t = "LoadBalancer" => Balanced(s),
           NEW svc \in Services, NEW rt \in Routes
    PROVE  UrlSteps(t, svc, rt) \in Seq(StepSet(s))
<1>1. svc \in Objects /\ rt \in Objects
  BY DEF Objects
<1>2. /\ <<"NodePort", svc>> \in StepSet(s)
      /\ t = "LoadBalancer" => <<"LoadBalancer", svc>> \in StepSet(s)
      /\ <<"Ensure", rt>> \in StepSet(s) /\ <<"RouteUrl", rt>> \in StepSet(s)
      /\ <<"NoUrl", svc>> \in StepSet(s)
  BY <1>1 DEF StepSet, Ops
<1>3. \A x \in StepSet(s), y \in StepSet(s) :
        <<x>> \in Seq(StepSet(s)) /\ <<x, y>> \in Seq(StepSet(s))
  OBVIOUS
<1>4. /\ <<<<"NodePort", svc>>>> \in Seq(StepSet(s))
      /\ t = "LoadBalancer" => <<<<"LoadBalancer", svc>>>> \in Seq(StepSet(s))
      /\ <<<<"Ensure", rt>>, <<"RouteUrl", rt>>>> \in Seq(StepSet(s))
      /\ <<<<"NoUrl", svc>>>> \in Seq(StepSet(s))
  BY <1>2, <1>3, Zenon
<1> QED BY <1>4, Zenon DEF UrlSteps

LEMMA KeycloakStepsType ==
    ASSUME NEW s PROVE KeycloakSteps(s) \in Seq(StepSet(s))
<1>1. /\ <<"keycloak-route">> \in Seq(Objects)
      /\ <<"keycloak-svc">> \in Seq(Objects)
      /\ <<"keycloak-pod">> \in Seq(Objects)
  BY DEF Objects, Pods, Services, Routes
<1>2. /\ <<"keycloak-pod", "keycloak-svc">> \in Seq(Removable)
      /\ <<"keycloak-route">> \in Seq(Removable)
      /\ <<>> \in Seq(StepSet(s))
  BY DEF Removable, Pods, Services, Routes
<1>3. "Ensure" \in Ops /\ "CheckRoute" \in Ops
  BY DEF Ops
<1>4. /\ Steps("CheckRoute", <<"keycloak-route">>) \in Seq(StepSet(s))
      /\ Steps("Ensure", <<"keycloak-svc">>) \in Seq(StepSet(s))
      /\ Steps("Ensure", <<"keycloak-pod">>) \in Seq(StepSet(s))
  BY <1>1, <1>3, OpSteps
<1>5. /\ Steps("Remove", <<"keycloak-pod", "keycloak-svc">>) \in Seq(StepSet(s))
      /\ Steps("Remove", <<"keycloak-route">>) \in Seq(StepSet(s))
  BY <1>2, RemoveSteps
<1>6. UrlSteps(s.kcSvc, "keycloak-svc", "keycloak-route") \in Seq(StepSet(s))
  BY UrlStepsType DEF Services, Routes, Balanced
<1>7. CASE s.kcExt = NoUrl
  BY <1>4, <1>6, <1>7, Concat DEF KeycloakSteps
<1>8. CASE s.kcExt # NoUrl
  BY <1>2, <1>4, <1>5, <1>8, ExternalSteps, Concat DEF KeycloakSteps
<1> QED BY <1>7, <1>8

LEMMA AppStepsType ==
    ASSUME NEW s PROVE AppSteps(s) \in Seq(StepSet(s))
<1>1. /\ <<"app-route">> \in Seq(Objects)
      /\ <<"app-svc">> \in Seq(Objects)
      /\ <<"app-pod", "upload">> \in Seq(Objects)
  BY DEF Objects, Pods, Services, Routes, ConfigMaps
<1>2. "Ensure" \in Ops /\ "CheckRoute" \in Ops
  BY DEF Ops
<1>3. /\ Steps("CheckRoute", <<"app-route">>) \in Seq(StepSet(s))
      /\ Steps("Ensure", <<"app-svc">>) \in Seq(StepSet(s))
      /\ Steps("Ensure", <<"app-pod", "upload">>) \in Seq(StepSet(s))
  BY <1>1, <1>2, OpSteps
<1>4. UrlSteps(s.svc, "app-svc", "app-route") \in Seq(StepSet(s))
  BY UrlStepsType DEF Services, Routes, Balanced
<1> QED BY <1>3, <1>4, Concat DEF AppSteps

LEMMA ProgramType == ASSUME NEW s PROVE Program(s) \in Seq(StepSet(s))
BY SecretStepsType, PostgresStepsType, KeycloakStepsType, AppStepsType, Concat
   DEF Program

\* A pass that is at a step is in the middle, at a step of its program.
LEMMA AtStep ==
    ASSUME PassOK, NEW op, NEW o, At(op, o)
    PROVE  /\ pc # 0
           /\ up
           /\ pc \in 1..Len(Program(mem.spec)) /\ Program(mem.spec)[pc] = <<op, o>>
           /\ op = "Remove" => o \in Removable
           /\ op = "RouteUrl" => o \in Routes
           /\ op = "Present" => o \in Certificates
           /\ op = "LoadBalancer" => Balanced(mem.spec)
           /\ op = "External" => mem.spec.kcExt # NoUrl
<1>1. mem.spec \in Specs
  BY DEF PassOK, Mem
<1>2. Programs[mem.spec] = Program(mem.spec) /\ Program(mem.spec) \in Seq(StepSet(mem.spec))
  BY <1>1, ProgramType DEF Programs
<1>3. pc \in 1..Len(Program(mem.spec))
  BY <1>2 DEF At
<1>4. <<op, o>> \in StepSet(mem.spec)
  BY <1>2, <1>3 DEF At
<1>5. /\ op = "Remove" => o \in Removable
      /\ op = "RouteUrl" => o \in Routes
      /\ op = "Present" => o \in Certificates
      /\ op = "LoadBalancer" => Balanced(mem.spec)
      /\ op = "External" => mem.spec.kcExt # NoUrl
  BY <1>4 DEF StepSet, Ops
<1> QED BY <1>2, <1>3, <1>5 DEF At

----------------------------------------------------------------------------
(* Types are preserved by what the actions are built from.                 *)

LEMMA IdleType == Idle \in Mem /\ NoStatus \in Status
<1>1. NoStatus \in Status
  BY DEF NoStatus, Status, StatusValues, Url
<1> QED BY <1>1, SpecsAssumption DEF Idle, Mem

LEMMA setStatusType ==
    ASSUME NEW m \in Mem, NEW status \in StatusValues
    PROVE  setStatus(m, status) \in Mem
BY DEF setStatus, Mem, Status

LEMMA StoreUpdate ==
    ASSUME NEW f, IsStore(f), NEW o \in Objects, NEW x \in Object(o) \cup {Absent}
    PROVE  IsStore([f EXCEPT ![o] = x])
BY DEF IsStore

LEMMA NewObjectType ==
    ASSUME NEW o \in Objects, NEW spec \in SpecOf(o), NEW port \in NodePorts \cup {0}
    PROVE  NewObject(o, spec, port) \in Object(o)
BY DEF NewObject, Object, Conditions

LEMMA PassUrls == ASSUME PassOK PROVE mem.st.kcUrl \in Url /\ mem.st.url \in Url
BY DEF PassOK, Mem, Status

\* What a Create leaves in the API server: a store that differs in o only.
LEMMA CreatedType ==
    ASSUME TypeOK, NEW o \in Objects, NEW newApi \in Created(o)
    PROVE  IsStore(newApi) /\ \A x \in Objects \ {o} : newApi[x] = api[x]
<1> DEFINE want == Desired(o, mem.spec, mem.st.kcUrl, mem.st.url)
<1>1. mem.spec \in CrSpec
  BY SpecsAssumption DEF TypeOK, PassOK, Mem
<1>2. want \in SpecOf(o)
  BY <1>1, PassUrls, DesiredType DEF TypeOK
<1>3. PICK p \in PortsFor(want) : newApi = [api EXCEPT ![o] = NewObject(o, want, p)]
  BY DEF Created
<1>4. p \in NodePorts \cup {0}
  BY <1>3 DEF PortsFor
<1>5. NewObject(o, want, p) \in Object(o)
  BY <1>2, <1>4, NewObjectType
<1>6. IsStore(api)
  BY DEF TypeOK, ClusterOK
<1> QED BY <1>3, <1>5, <1>6, StoreUpdate DEF IsStore

\* What a Delete leaves: a store that differs in o only.
LEMMA DeletedType ==
    ASSUME IsStore(api), NEW o \in Objects, api[o] # Absent, NEW newApi \in Deleted(o)
    PROVE  IsStore(newApi) /\ \A x \in Objects \ {o} : newApi[x] = api[x]
<1>1. api[o] \in Object(o)
  BY DEF IsStore
<1>2. [api[o] EXCEPT !.dying = TRUE] \in Object(o)
  BY <1>1 DEF Object
<1>3. \/ newApi = [api EXCEPT ![o] = Absent]
      \/ newApi = [api EXCEPT ![o].dying = TRUE]
  BY DEF Deleted
<1> QED BY <1>2, <1>3, StoreUpdate DEF IsStore

LEMMA CommitType ==
    ASSUME ClusterOK, NEW newApi, IsStore(newApi), NEW newCr \in Horreum,
           NEW crChanged, NEW requeue, Commit(newApi, newCr, crChanged, requeue)
    PROVE  ClusterOK'
<1> USE DEF Commit, ClusterOK
<1>1. cr' \in Horreum /\ crCache' \in Horreum
  OBVIOUS
<1>2. IsStore(api')
  OBVIOUS
<1>3. IsStore(cache')
  BY DEF IsStore
<1>4. crFresh' \in BOOLEAN /\ dirty' \in BOOLEAN
  OBVIOUS
<1> QED BY <1>1, <1>2, <1>3, <1>4 DEF IsStore

LEMMA WriteStatusType ==
    ASSUME ClusterOK, BudgetOK, NEW newApi, IsStore(newApi), NEW m \in Mem,
           NEW current, NEW requeue, NEW f \in {0, 1}, budget["fault"] >= f,
           WriteStatus(newApi, m, current, requeue, f)
    PROVE  ClusterOK' /\ BudgetOK'
<1>1. cr \in Horreum /\ [cr EXCEPT !.st = m.st] \in Horreum
  BY DEF ClusterOK, Horreum, Mem
<1>2. ClusterOK'
  BY <1>1, CommitType DEF WriteStatus
<1>3. BudgetOK'
  <2>1. budget["fault"] \in Nat
    BY DEF BudgetOK, Disturbances
  <2>2. budget["fault"] - f \in Nat /\ (budget["fault"] > f => budget["fault"] - f - 1 \in Nat)
    BY <2>1
  <2> QED BY <2>2 DEF WriteStatus, BudgetOK
<1> QED BY <1>2, <1>3

LEMMA EndPassType == ASSUME PassOK, EndPass PROVE PassOK'
BY IdleType DEF EndPass, PassOK

LEMMA ContinueType ==
    ASSUME PassOK, NEW m \in Mem, Continue(m) PROVE PassOK'
BY DEF Continue, PassOK

LEMMA FailType ==
    ASSUME TypeOK, NEW newApi, IsStore(newApi), NEW reported, NEW f \in {0, 1},
           budget["fault"] >= f, Fail(newApi, reported, f)
    PROVE  TypeOK'
<1> USE DEF TypeOK
<1>1. PassOK'
  BY EndPassType DEF Fail
<1>2. CASE reported
  <2>1. setStatus(mem, "Error") \in Mem
    BY setStatusType DEF PassOK, StatusValues
  <2> QED BY <1>1, <1>2, <2>1, WriteStatusType DEF Fail
<1>3. CASE ~reported
  <2>1. ClusterOK'
    BY <1>3, CommitType DEF Fail, ClusterOK
  <2>2. budget["fault"] \in Nat
    BY DEF BudgetOK, Disturbances
  <2>3. BudgetOK'
    BY <1>3, <2>2 DEF Fail, BudgetOK
  <2> QED BY <1>1, <2>1, <2>3
<1> QED BY <1>2, <1>3

\* A failure that is not injected, and one that is.
LEMMA Fail0Type == ASSUME TypeOK, NEW reported, Fail(api, reported, 0) PROVE TypeOK'
<1>1. IsStore(api) /\ budget["fault"] >= 0
  BY DEF TypeOK, ClusterOK, BudgetOK, Disturbances
<1> QED BY <1>1, FailType

LEMMA Fail1Type ==
    ASSUME TypeOK, NEW reported, budget["fault"] > 0, Fail(api, reported, 1) PROVE TypeOK'
<1>1. IsStore(api) /\ budget["fault"] >= 1
  BY DEF TypeOK, ClusterOK, BudgetOK, Disturbances
<1> QED BY <1>1, FailType

LEMMA WaitType == ASSUME TypeOK, Wait PROVE TypeOK'
<1> USE DEF TypeOK
<1>1. PassOK'
  BY EndPassType DEF Wait
<1>2. setStatus(mem, "Pending") \in Mem
  BY setStatusType DEF PassOK, StatusValues
<1>3. IsStore(api) /\ budget["fault"] >= 0
  BY DEF ClusterOK, BudgetOK, Disturbances
<1> QED BY <1>1, <1>2, <1>3, WriteStatusType DEF Wait

LEMMA WriteFailsType ==
    ASSUME TypeOK, NEW refused, NEW outcomes, NEW reported,
           ~refused => \A newApi \in outcomes : IsStore(newApi),
           WriteFails(refused, outcomes, reported)
    PROVE  TypeOK'
<1>1. budget["fault"] \in Nat /\ IsStore(api)
  BY DEF TypeOK, BudgetOK, ClusterOK, Disturbances
<1>2. CASE refused /\ Fail(api, reported, 0)
  BY <1>1, <1>2, FailType
<1>3. CASE /\ ~refused /\ budget["fault"] > 0
           /\ \E newApi \in outcomes \cup {api} : Fail(newApi, reported, 1)
  <2>1. PICK newApi \in outcomes \cup {api} : Fail(newApi, reported, 1)
    BY <1>3
  <2>2. IsStore(newApi) /\ budget["fault"] >= 1
    BY <1>1, <1>3
  <2> QED BY <2>1, <2>2, FailType
<1> QED BY <1>2, <1>3 DEF WriteFails

LEMMA SpendType == ASSUME BudgetOK, NEW d \in Disturbances, Spend(d) PROVE BudgetOK'
<1>1. budget[d] \in Nat /\ budget[d] > 0
  BY DEF BudgetOK, Spend
<1> QED BY <1>1 DEF BudgetOK, Spend

LEMMA ReadOnlyType == ASSUME ClusterOK, BudgetOK, ReadOnly PROVE ClusterOK' /\ BudgetOK'
BY DEF ReadOnly, apiServer, informers, ClusterOK, BudgetOK, IsStore

----------------------------------------------------------------------------
(* Type correctness: one lemma per action of the operator.                 *)

LEMMA InitType == Init => TypeOK
<1> SUFFICES ASSUME Init PROVE TypeOK
  OBVIOUS
<1>1. cr \in Horreum
  BY IdleType, SpecsAssumption DEF Init, Horreum
<1>2. IsStore(api)
  <2>1. \A o \in DOMAIN GivenSecrets :
          [spec |-> [data |-> "given"], cond |-> GivenSecrets[o], port |-> 0,
           owned |-> FALSE, dying |-> FALSE] \in Object(o)
    <3> SUFFICES ASSUME NEW o \in DOMAIN GivenSecrets
                 PROVE  [spec |-> [data |-> "given"], cond |-> GivenSecrets[o], port |-> 0,
                         owned |-> FALSE, dying |-> FALSE] \in Object(o)
      OBVIOUS
    <3>1. o \in Secrets /\ GivenSecrets[o] \in Conditions
      BY GivenAssumption DEF Secrets
    <3>2. SpecOf(o) = SecretSpec
      BY <3>1 DEF SpecOf, Secrets, CertSecrets, Credentials, ConfigMaps, Pods, Services,
                  Routes
    <3>3. [data |-> "given"] \in SecretSpec
      BY DEF SecretSpec
    <3> QED BY <3>1, <3>2, <3>3 DEF Object
  <2> QED BY <2>1 DEF Init, IsStore
<1>3. ClusterOK
  BY <1>1, <1>2 DEF Init, ClusterOK
<1>4. PassOK
  BY IdleType DEF Init, PassOK
<1>5. BudgetOK
  BY BoundsAssumption DEF Init, BudgetOK
<1> QED BY <1>3, <1>4, <1>5 DEF TypeOK

LEMMA BeginType == ASSUME TypeOK, Begin PROVE TypeOK'
<1> USE DEF TypeOK
<1> DEFINE m == [Idle EXCEPT !.spec = crCache.spec, !.st = crCache.st]
<1>1. m \in Mem
  BY IdleType DEF ClusterOK, Horreum, Mem
<1>2. setStatus(m, "Error") \in Mem /\ setStatus(m, "Ready") \in Mem
  BY <1>1, setStatusType DEF StatusValues
<1>3. CASE dirty' = FALSE /\ UNCHANGED <<apiServer, informers, pass, budget>>
  BY <1>3 DEF ClusterOK, IsStore, PassOK, BudgetOK, apiServer, informers, pass
<1>4. CASE WriteStatus(api, setStatus(m, "Error"), crFresh, TRUE, 0) /\ UNCHANGED pass
  <2>1. IsStore(api) /\ budget["fault"] >= 0
    BY DEF ClusterOK, BudgetOK, Disturbances
  <2>2. ClusterOK' /\ BudgetOK'
    BY <1>2, <1>4, <2>1, WriteStatusType
  <2> QED BY <1>4, <2>2 DEF PassOK, pass
<1>5. CASE /\ pc' = 1 /\ fresh' = crFresh /\ dirty' = FALSE
           /\ mem' = IF m.st.status = "Ready" THEN m ELSE setStatus(m, "Ready")
           /\ UNCHANGED <<apiServer, informers, up, budget>>
  <2>1. ClusterOK' /\ BudgetOK'
    BY <1>5 DEF ClusterOK, IsStore, BudgetOK, apiServer, informers
  <2>2. PassOK'
    BY <1>1, <1>2, <1>5 DEF PassOK, ClusterOK
  <2> QED BY <2>1, <2>2
<1> QED BY <1>3, <1>4, <1>5 DEF Begin

LEMMA GetFailsType == ASSUME TypeOK, NEW o \in Objects, GetFails(o) PROVE TypeOK'
<1>1. IsStore(api) /\ budget["fault"] \in Nat
  BY DEF TypeOK, ClusterOK, BudgetOK, Disturbances
<1> QED BY <1>1, FailType DEF GetFails

LEMMA EnsureCreateType ==
    ASSUME TypeOK, NEW o \in Objects, EnsureCreate(o) PROVE TypeOK'
<1> DEFINE m == [mem EXCEPT !.redo = FALSE,
                            !.found = IF mem.redo THEN @ ELSE Absent]
<1>1. CASE WriteFails(api[o] # Absent, Created(o), TRUE)
  BY <1>1, CreatedType, WriteFailsType
<1>2. CASE /\ \E newApi \in Created(o) : Commit(newApi, cr, FALSE, FALSE)
           /\ Continue(setStatus(m, "Pending"))
           /\ UNCHANGED budget
  <2>1. m \in Mem
    BY DEF TypeOK, PassOK, Mem
  <2>2. setStatus(m, "Pending") \in Mem
    BY <2>1, setStatusType DEF StatusValues
  <2>3. PassOK'
    BY <1>2, <2>2, ContinueType DEF TypeOK
  <2>4. ClusterOK'
    BY <1>2, CreatedType, CommitType DEF TypeOK, ClusterOK
  <2> QED BY <1>2, <2>3, <2>4 DEF TypeOK, BudgetOK
<1> QED BY <1>1, <1>2 DEF EnsureCreate

LEMMA FoundType ==
    ASSUME TypeOK, NEW o \in Objects, NEW x,
           x = IF o \in Routes THEN cache[o] ELSE Absent
    PROVE  [mem EXCEPT !.found = x] \in Mem /\ [mem EXCEPT !.redo = TRUE, !.found = x] \in Mem
<1>1. o \in Routes => Object(o) = Object("app-route")
  BY DEF Object, SpecOf, Routes, Secrets, CertSecrets, Credentials, ConfigMaps,
         Services, Pods
<1>2. x \in Object("app-route") \cup {Absent}
  BY <1>1 DEF TypeOK, ClusterOK, IsStore
<1> QED BY <1>2 DEF TypeOK, PassOK, Mem

LEMMA EnsureMatchType ==
    ASSUME TypeOK, NEW o \in Objects, EnsureMatch(o) PROVE TypeOK'
<1> DEFINE m == [mem EXCEPT !.found = IF o \in Routes THEN cache[o] ELSE Absent]
           health == check(o, cache[o])
<1>1. m \in Mem
  BY FoundType
<1>2. cache[o] \in Object(o)
  BY DEF TypeOK, ClusterOK, IsStore, EnsureMatch
<1>3. health \in StatusValues
  BY <1>2 DEF check, Object, Conditions, StatusValues
<1>4. (IF health = "Ready" THEN m ELSE setStatus(m, health)) \in Mem
  BY <1>1, <1>3, setStatusType
<1>5. Continue(IF health = "Ready" THEN m ELSE setStatus(m, health)) /\ ReadOnly
  BY DEF EnsureMatch
<1> QED BY <1>4, <1>5, ContinueType, ReadOnlyType DEF TypeOK

LEMMA EnsureReplaceType ==
    ASSUME TypeOK, NEW o \in Objects, EnsureReplace(o) PROVE TypeOK'
<1> DEFINE m == [mem EXCEPT !.redo = TRUE,
                            !.found = IF o \in Routes THEN cache[o] ELSE Absent]
<1>1. IsStore(api)
  BY DEF TypeOK, ClusterOK
<1>2. CASE WriteFails(api[o] = Absent, Deleted(o), TRUE)
  BY <1>1, <1>2, DeletedType, WriteFailsType
<1>3. CASE /\ api[o] # Absent
           /\ \E newApi \in Deleted(o) : Commit(newApi, cr, FALSE, FALSE)
           /\ mem' = m
           /\ UNCHANGED <<up, pc, fresh, budget>>
  <2>1. m \in Mem
    BY FoundType
  <2>2. pc # 0
    <3>1. At("Ensure", o) /\ PassOK
      BY DEF TypeOK, EnsureReplace
    <3> QED BY <3>1, AtStep
  <2>3. PassOK'
    BY <1>3, <2>1, <2>2 DEF TypeOK, PassOK
  <2>4. ClusterOK'
    BY <1>1, <1>3, DeletedType, CommitType DEF TypeOK, ClusterOK
  <2> QED BY <1>3, <2>3, <2>4 DEF TypeOK, BudgetOK
<1> QED BY <1>2, <1>3 DEF EnsureReplace

LEMMA EnsureDeletedType ==
    ASSUME TypeOK, NEW o \in Objects, EnsureDeleted(o) PROVE TypeOK'
<1>1. IsStore(api) /\ mem \in Mem
  BY DEF TypeOK, ClusterOK, PassOK
<1>2. CASE Continue(mem) /\ ReadOnly
  BY <1>1, <1>2, ContinueType, ReadOnlyType DEF TypeOK
<1>3. CASE WriteFails(api[o] = Absent, Deleted(o), TRUE)
  BY <1>1, <1>3, DeletedType, WriteFailsType
<1>4. CASE /\ api[o] # Absent
           /\ \E newApi \in Deleted(o) : Commit(newApi, cr, FALSE, FALSE)
           /\ Continue(mem)
           /\ UNCHANGED budget
  <2>1. ClusterOK'
    BY <1>1, <1>4, DeletedType, CommitType DEF TypeOK, ClusterOK
  <2> QED BY <1>1, <1>4, <2>1, ContinueType DEF TypeOK, BudgetOK
<1> QED BY <1>2, <1>3, <1>4 DEF EnsureDeleted

LEMMA PresentType == ASSUME TypeOK, NEW o \in Objects, Present(o) PROVE TypeOK'
<1>1. mem \in Mem
  BY DEF TypeOK, PassOK
<1>2. CASE Continue(mem) /\ ReadOnly
  BY <1>1, <1>2, ContinueType, ReadOnlyType DEF TypeOK
<1>3. CASE WriteFails(api[o] # Absent, Created(o), o = "ca-certs")
  BY <1>3, CreatedType, WriteFailsType
<1>4. CASE /\ \E newApi \in Created(o) : Commit(newApi, cr, FALSE, FALSE)
           /\ Continue(mem)
           /\ UNCHANGED budget
  <2>1. ClusterOK'
    BY <1>4, CreatedType, CommitType DEF TypeOK, ClusterOK
  <2> QED BY <1>1, <1>4, <2>1, ContinueType DEF TypeOK, BudgetOK
<1> QED BY <1>2, <1>3, <1>4 DEF Present

LEMMA CheckRouteType == ASSUME TypeOK, NEW o \in Objects, CheckRoute(o) PROVE TypeOK'
<1>0. mem \in Mem
  BY DEF TypeOK, PassOK
<1>1. CASE Continue(mem) /\ ReadOnly
  BY <1>0, <1>1, ContinueType, ReadOnlyType DEF TypeOK
<1>2. CASE Fail(api, FALSE, 0) \/ Fail(api, TRUE, 0)
  BY <1>2, Fail0Type, Zenon
<1>3. CASE budget["fault"] > 0 /\ Fail(api, TRUE, 1)
  BY <1>3, Fail1Type, Zenon
<1> QED BY <1>1, <1>2, <1>3 DEF CheckRoute

LEMMA LearnUrlType ==
    ASSUME TypeOK, NEW o, NEW url \in Url, LearnUrl(o, url) PROVE TypeOK'
<1> DEFINE m1 == [mem EXCEPT !.st.kcUrl = url, !.found = Absent]
           m2 == [mem EXCEPT !.st.url = url, !.found = Absent]
<1>1. m1 \in Mem /\ m2 \in Mem
  BY DEF TypeOK, PassOK, Mem, Status
<1>2. (Continue(m1) \/ Continue(m2)) /\ ReadOnly
  BY DEF LearnUrl
<1>3. PassOK'
  BY <1>1, <1>2, ContinueType DEF TypeOK
<1>4. ClusterOK' /\ BudgetOK'
  BY <1>2, ReadOnlyType DEF TypeOK
<1> QED BY <1>3, <1>4 DEF TypeOK

LEMMA NodePortType == ASSUME TypeOK, NEW o \in Objects, NodePort(o) PROVE TypeOK'
<1>2. CASE Fail(api, FALSE, 0)
  BY <1>2, Fail0Type, Zenon
<1>3. CASE Wait
  BY <1>3, WaitType
<1>4. CASE /\ cache[o] # Absent /\ cache[o].port # 0
           /\ LearnUrl(o, <<"https", mem.spec.nodeHost, cache[o].port>>)
  <2>1. cache[o] \in Object(o)
    BY <1>4 DEF TypeOK, ClusterOK, IsStore
  <2>2. cache[o].port \in NodePorts \cup {0}
    BY <2>1 DEF Object
  <2>3. mem.spec.nodeHost \in Hosts \cup {""}
    BY SpecsAssumption DEF TypeOK, PassOK, Mem, CrSpec
  <2>4. <<"https", mem.spec.nodeHost, cache[o].port>> \in Url
    BY <2>2, <2>3 DEF Url
  <2> QED BY <1>4, <2>4, LearnUrlType
<1> QED BY <1>2, <1>3, <1>4 DEF NodePort

LEMMA RouteUrlType == ASSUME TypeOK, NEW o \in Objects, RouteUrl(o) PROVE TypeOK'
<1>1. CASE Wait
  BY <1>1, WaitType
<1>2. CASE LearnUrl(o, getRouteUrl(o, mem.found)) /\ ~Wait
  <2>1. o \in Routes
    <3>1. PassOK /\ At("RouteUrl", o)
      BY DEF TypeOK, RouteUrl
    <3> QED BY <3>1, AtStep
  <2>2. mem.found \in Object("app-route") \cup {Absent}
    BY DEF TypeOK, PassOK, Mem
  <2>3. SpecOf("app-route") = RouteSpec
    BY DEF SpecOf, Secrets, CertSecrets, Credentials, ConfigMaps, Pods, Services, Routes
  <2>4. mem.found # Absent => mem.found.spec.host \in Hosts \cup {""}
    <3>1. mem.found # Absent => mem.found.spec \in SpecOf("app-route")
      BY <2>2 DEF Object
    <3>2. mem.found # Absent => mem.found.spec \in RouteSpec
      BY <2>3, <3>1
    <3>3. \A r \in RouteSpec : r.host \in Hosts \cup {""}
      BY DEF RouteSpec
    <3> QED BY <3>2, <3>3
  <2>5. getRouteUrl(o, mem.found) \in Url
    BY <2>1, <2>4 DEF getRouteUrl, Url, NoUrl
  <2> QED BY <1>2, <2>5, LearnUrlType
<1> QED BY <1>1, <1>2 DEF RouteUrl

LEMMA PanicType ==
    ASSUME ClusterOK, Panic
    PROVE  ClusterOK' /\ PassOK'
BY IdleType DEF Panic, apiServer, informers, ClusterOK, PassOK, IsStore

LEMMA LoadBalancerType ==
    ASSUME TypeOK, NEW o \in Objects, LoadBalancer(o) PROVE TypeOK'
<1>1. CASE Wait
  BY <1>1, WaitType
<1>2. CASE Panic /\ UNCHANGED budget
  BY <1>2, PanicType DEF TypeOK, BudgetOK
<1>3. CASE Panic /\ Spend("fault")
  BY <1>3, PanicType, SpendType DEF TypeOK, Disturbances
<1> QED BY <1>1, <1>2, <1>3 DEF LoadBalancer

LEMMA ExternalType == ASSUME TypeOK, NEW o \in Objects, External(o) PROVE TypeOK'
<1>1. CASE Panic /\ UNCHANGED budget
  BY <1>1, PanicType DEF TypeOK, BudgetOK
<1>2. CASE LearnUrl(o, mem.spec.kcExt)
  <2>1. mem.spec.kcExt \in Url
    BY SpecsAssumption DEF TypeOK, PassOK, Mem, CrSpec
  <2> QED BY <1>2, <2>1, LearnUrlType
<1> QED BY <1>1, <1>2 DEF External

LEMMA FinishType == ASSUME TypeOK, Finish PROVE TypeOK'
<1>1. WriteStatus(api, mem, fresh, FALSE, 0) /\ EndPass
  BY DEF Finish
<1>2. IsStore(api) /\ budget["fault"] >= 0 /\ mem \in Mem
  BY DEF TypeOK, ClusterOK, BudgetOK, PassOK, Disturbances
<1>3. ClusterOK' /\ BudgetOK'
  BY <1>1, <1>2, WriteStatusType DEF TypeOK
<1> QED BY <1>1, <1>3, EndPassType DEF TypeOK

LEMMA RestartType == ASSUME TypeOK, Restart PROVE TypeOK'
<1>1. ClusterOK'
  BY DEF Restart, apiServer, TypeOK, ClusterOK, IsStore, Horreum
<1> QED BY <1>1 DEF Restart, TypeOK, PassOK, BudgetOK

LEMMA OperatorType == ASSUME TypeOK, Operator PROVE TypeOK'
<1>1. ASSUME NEW o \in Objects, Step(o) PROVE TypeOK'
  <2>1. NoUrlWait(o) => TypeOK'
    BY WaitType DEF NoUrlWait
  <2> QED BY <1>1, <2>1, GetFailsType, EnsureCreateType, EnsureMatchType, EnsureReplaceType,
             EnsureDeletedType, PresentType, CheckRouteType, NodePortType,
             RouteUrlType, LoadBalancerType, ExternalType DEF Step
<1> QED BY <1>1, BeginType, FinishType, RestartType DEF Operator

----------------------------------------------------------------------------
(* Type correctness: the rest of the cluster.                              *)

LEMMA InformersType == ASSUME TypeOK, Informers PROVE TypeOK'
<1>1. ASSUME NEW k \in Kinds, Sync(k) PROVE TypeOK'
  BY <1>1 DEF Sync, apiServer, pass, TypeOK, ClusterOK, IsStore, PassOK, BudgetOK
<1>2. CASE SyncHorreum
  BY <1>2 DEF SyncHorreum, apiServer, pass, TypeOK, ClusterOK, IsStore, PassOK, BudgetOK
<1>3. CASE Resync
  BY <1>3 DEF Resync, apiServer, informers, pass, TypeOK, ClusterOK, IsStore, PassOK,
              BudgetOK
<1> QED BY <1>1, <1>2, <1>3 DEF Informers

\* An action that commits to the API server and leaves the pass alone.
LEMMA OutsideType ==
    ASSUME ClusterOK, PassOK, NEW newApi, IsStore(newApi), NEW newCr \in Horreum,
           NEW crChanged, Commit(newApi, newCr, crChanged, FALSE), UNCHANGED pass
    PROVE  ClusterOK' /\ PassOK'
<1>1. ClusterOK'
  <2>1. \A requeue : Commit(newApi, newCr, crChanged, requeue) => ClusterOK'
    BY CommitType
  <2> QED BY <2>1, Zenon
<1> QED BY <1>1 DEF pass, PassOK

LEMMA ChangeType ==
    ASSUME TypeOK, NEW o \in Objects, NEW obj \in Object(o) \cup {Absent}, Change(o, obj)
    PROVE  ClusterOK' /\ PassOK'
<1>1. IsStore([api EXCEPT ![o] = obj]) /\ cr \in Horreum
  BY StoreUpdate DEF TypeOK, ClusterOK
<1>2. \A crChanged : Commit([api EXCEPT ![o] = obj], cr, crChanged, FALSE) /\ UNCHANGED pass
                      => ClusterOK' /\ PassOK'
  BY <1>1, OutsideType DEF TypeOK
<1> QED BY <1>2, Zenon DEF Change

LEMMA ClusterType == ASSUME TypeOK, Cluster PROVE TypeOK'
<1>1. ASSUME NEW o \in Objects, BecomeOk(o) PROVE TypeOK'
  <2>1. api[o] \in Object(o)
    BY <1>1 DEF BecomeOk, TypeOK, ClusterOK, IsStore
  <2>2. [api[o] EXCEPT !.cond = "ok"] \in Object(o)
    BY <2>1 DEF Object, Conditions
  <2> QED BY <1>1, <2>2, ChangeType DEF BecomeOk, TypeOK, BudgetOK
<1>2. ASSUME NEW o \in Objects, Terminate(o) PROVE TypeOK'
  BY <1>2, ChangeType DEF Terminate, TypeOK, BudgetOK
<1>3. ASSUME CollectGarbage PROVE TypeOK'
  <2> DEFINE garbage == {o \in Objects : Owned(api[o])}
             left == [o \in Objects |-> IF o \in garbage THEN Absent ELSE api[o]]
  <2>1. IsStore(left) /\ cr \in Horreum
    BY DEF TypeOK, ClusterOK, IsStore
  <2>2. \A crChanged : Commit(left, cr, crChanged, FALSE) /\ UNCHANGED pass
                        => ClusterOK' /\ PassOK'
    BY <2>1, OutsideType DEF TypeOK
  <2>3. Commit(left, cr, FALSE, FALSE) /\ UNCHANGED pass /\ UNCHANGED budget
    BY <1>3 DEF CollectGarbage
  <2>4. ClusterOK' /\ PassOK'
    BY <2>2, <2>3, Zenon
  <2> QED BY <2>3, <2>4 DEF TypeOK, BudgetOK
<1> QED BY <1>1, <1>2, <1>3 DEF Cluster

LEMMA TroubleType == ASSUME TypeOK, Trouble PROVE TypeOK'
<1>1. ASSUME NEW o \in Objects, BecomeBad(o) PROVE TypeOK'
  <2>1. api[o] \in Object(o)
    BY <1>1 DEF BecomeBad, TypeOK, ClusterOK, IsStore
  <2>2. \A c \in Conditions : [api[o] EXCEPT !.cond = c] \in Object(o)
    BY <2>1 DEF Object
  <2>3. PICK c \in Conditions : Change(o, [api[o] EXCEPT !.cond = c])
    BY <1>1 DEF BecomeBad, Conditions
  <2>4. ClusterOK' /\ PassOK'
    BY <2>2, <2>3, ChangeType
  <2> QED BY <1>1, <2>4, SpendType DEF BecomeBad, TypeOK, Disturbances
<1>2. ASSUME NEW o \in Objects, DeleteObject(o) PROVE TypeOK'
  <2>1. api[o] # Absent /\ IsStore(api) /\ cr \in Horreum
    BY <1>2 DEF DeleteObject, Owned, TypeOK, ClusterOK
  <2>2. PICK newApi \in Deleted(o) : Commit(newApi, cr, FALSE, FALSE)
    BY <1>2 DEF DeleteObject
  <2>3. IsStore(newApi)
    BY <2>1, DeletedType
  <2>4. \A crChanged : Commit(newApi, cr, crChanged, FALSE) /\ UNCHANGED pass
                        => ClusterOK' /\ PassOK'
    BY <2>1, <2>3, OutsideType DEF TypeOK
  <2>5. ClusterOK' /\ PassOK'
    BY <1>2, <2>2, <2>4, Zenon DEF DeleteObject
  <2> QED BY <1>2, <2>5, SpendType DEF DeleteObject, TypeOK, Disturbances
<1>3. ASSUME NEW newCr \in Horreum, Commit(api, newCr, TRUE, FALSE),
             fresh' = FALSE, UNCHANGED <<up, pc, mem>>
      PROVE  ClusterOK' /\ PassOK'
  <2>1. \A crChanged, requeue : Commit(api, newCr, crChanged, requeue) => ClusterOK'
    BY CommitType DEF TypeOK, ClusterOK
  <2>2. ClusterOK'
    BY <1>3, <2>1, Zenon
  <2> QED BY <1>3, <2>2 DEF TypeOK, PassOK
<1>4. ASSUME NEW s \in Specs, EditSpec(s) PROVE TypeOK'
  <2>1. [cr EXCEPT !.spec = s] \in Horreum
    BY DEF TypeOK, ClusterOK, Horreum
  <2>2. ClusterOK' /\ PassOK'
    BY <1>3, <1>4, <2>1 DEF EditSpec
  <2> QED BY <1>4, <2>2, SpendType DEF EditSpec, TypeOK, Disturbances
<1>5. ASSUME DeleteHorreum PROVE TypeOK'
  <2>1. [cr EXCEPT !.live = FALSE] \in Horreum
    BY DEF TypeOK, ClusterOK, Horreum
  <2>2. ClusterOK' /\ PassOK'
    BY <1>3, <1>5, <2>1 DEF DeleteHorreum
  <2> QED BY <1>5, <2>2, SpendType DEF DeleteHorreum, TypeOK, Disturbances
<1>6. ASSUME Crash PROVE TypeOK'
  <2>1. ClusterOK' /\ PassOK'
    BY <1>6, IdleType DEF Crash, apiServer, informers, TypeOK, ClusterOK, PassOK, IsStore
  <2> QED BY <1>6, <2>1, SpendType DEF Crash, TypeOK, Disturbances
<1> QED BY <1>1, <1>2, <1>4, <1>5, <1>6 DEF Trouble

LEMMA NextTypeOK == ASSUME TypeOK, Next PROVE TypeOK'
BY OperatorType, InformersType, ClusterType, TroubleType DEF Next

\* Every reachable state is well typed, whatever the specs users write, however
\* often the operator is disturbed and whichever informers lag: in particular
\* a finished, failed or killed pass leaves nothing behind for the next one.
THEOREM TypeCorrect == Spec => []TypeOK
<1>1. TypeOK /\ [Next]_vars => TypeOK'
  <2> SUFFICES ASSUME TypeOK, [Next]_vars PROVE TypeOK'
    OBVIOUS
  <2>1. CASE UNCHANGED vars
    BY <2>1 DEF vars, TypeOK, ClusterOK, IsStore, PassOK, BudgetOK
  <2>2. CASE Next
    BY <2>2, NextTypeOK
  <2> QED BY <2>1, <2>2
<1> QED BY <1>1, InitType, PTL DEF Spec

----------------------------------------------------------------------------
(* Secrets are kept.                                                       *)

\* The secrets a state holds are all in another one, and so is the config map
\* with the bundle.
Kept == Secrets \cup {"service-ca"}
Keeps(newApi) == \A x \in Kept : api[x] # Absent => newApi[x] = api[x]

LEMMA NotSecret == \A o \in Kept : o \in Objects /\ o \notin Removable
BY DEF Kept, Objects, Secrets, CertSecrets, Credentials, ConfigMaps, Removable, Pods,
       Services, Routes

LEMMA CreatedKeeps ==
    ASSUME TypeOK, NEW o \in Objects, api[o] = Absent, NEW newApi \in Created(o)
    PROVE  Keeps(newApi)
BY CreatedType, NotSecret DEF Keeps

LEMMA DeletedKeeps ==
    ASSUME TypeOK, NEW o \in Objects \ Kept, api[o] # Absent, NEW newApi \in Deleted(o)
    PROVE  Keeps(newApi)
<1>1. IsStore(api)
  BY DEF TypeOK, ClusterOK
<1> QED BY <1>1, DeletedType, NotSecret DEF Keeps

LEMMA FailKeeps ==
    ASSUME NEW newApi, Keeps(newApi), NEW reported, NEW f, Fail(newApi, reported, f)
    PROVE  Keeps(api')
<1>1. api' = newApi
  BY DEF Fail, WriteStatus, Commit
<1> QED BY <1>1

LEMMA WaitKeeps == ASSUME Wait PROVE Keeps(api')
<1>1. api' = api
  BY DEF Wait, WriteStatus, Commit
<1> QED BY <1>1 DEF Keeps

LEMMA WriteFailsKeeps ==
    ASSUME NEW refused, NEW outcomes, NEW reported,
           ~refused => \A newApi \in outcomes : Keeps(newApi),
           WriteFails(refused, outcomes, reported)
    PROVE  Keeps(api')
<1>1. Keeps(api)
  BY DEF Keeps
<1> QED BY <1>1, FailKeeps DEF WriteFails

\* No step of a pass loses or changes a secret.
LEMMA StepKeeps == ASSUME TypeOK, NEW o \in Objects, Step(o) PROVE Keeps(api')
<1> USE DEF TypeOK
<1>1. Keeps(api)
  BY DEF Keeps
<1>2. CASE GetFails(o)
  BY <1>1, <1>2, FailKeeps DEF GetFails
<1>3. CASE EnsureCreate(o)
  <2>1. CASE WriteFails(api[o] # Absent, Created(o), TRUE)
    <3>1. \A reported : WriteFails(api[o] # Absent, Created(o), reported) => Keeps(api')
      BY CreatedKeeps, WriteFailsKeeps
    <3> QED BY <2>1, <3>1, Zenon
  <2>2. CASE api[o] = Absent /\ \E newApi \in Created(o) : Commit(newApi, cr, FALSE, FALSE)
    BY <2>2, CreatedKeeps DEF Commit
  <2> QED BY <1>3, <2>1, <2>2 DEF EnsureCreate
<1>4. CASE EnsureMatch(o)
  BY <1>1, <1>4 DEF EnsureMatch, ReadOnly, apiServer
<1>5. CASE EnsureReplace(o)
  <2>1. o \notin Kept
    BY <1>5 DEF EnsureReplace, compare, Kept, Secrets, CertSecrets, Credentials, Pods,
                Services, Routes
  <2>2. CASE WriteFails(api[o] = Absent, Deleted(o), TRUE)
    <3>1. \A reported : WriteFails(api[o] = Absent, Deleted(o), reported) => Keeps(api')
      BY <2>1, DeletedKeeps, WriteFailsKeeps
    <3> QED BY <2>2, <3>1, Zenon
  <2>3. CASE api[o] # Absent /\ \E newApi \in Deleted(o) : Commit(newApi, cr, FALSE, FALSE)
    BY <2>1, <2>3, DeletedKeeps DEF Commit
  <2> QED BY <1>5, <2>2, <2>3 DEF EnsureReplace
<1>6. CASE EnsureDeleted(o)
  <2>1. At("Remove", o) /\ PassOK
    BY <1>6 DEF EnsureDeleted
  <2>2. o \notin Kept
    BY <2>1, AtStep, NotSecret
  <2>3. CASE WriteFails(api[o] = Absent, Deleted(o), TRUE)
    <3>1. \A reported : WriteFails(api[o] = Absent, Deleted(o), reported) => Keeps(api')
      BY <2>2, DeletedKeeps, WriteFailsKeeps
    <3> QED BY <2>3, <3>1, Zenon
  <2>4. CASE api[o] # Absent /\ \E newApi \in Deleted(o) : Commit(newApi, cr, FALSE, FALSE)
    BY <2>2, <2>4, DeletedKeeps DEF Commit
  <2>5. CASE ReadOnly
    BY <1>1, <2>5 DEF ReadOnly, apiServer
  <2> QED BY <1>6, <2>3, <2>4, <2>5 DEF EnsureDeleted
<1>7. CASE Present(o)
  <2>1. CASE ReadOnly
    BY <1>1, <2>1 DEF ReadOnly, apiServer
  <2>2. CASE api[o] = Absent /\ \E newApi \in Created(o) : Commit(newApi, cr, FALSE, FALSE)
    BY <2>2, CreatedKeeps DEF Commit
  <2>3. CASE WriteFails(api[o] # Absent, Created(o), o = "ca-certs")
    BY <2>3, CreatedKeeps, WriteFailsKeeps
  <2> QED BY <1>7, <2>1, <2>2, <2>3 DEF Present
<1>8. CASE CheckRoute(o)
  <2>1. \A reported, f : Fail(api, reported, f) => Keeps(api')
    BY <1>1, FailKeeps
  <2>2. \/ ReadOnly
        \/ Fail(api, FALSE, 0) \/ Fail(api, TRUE, 0) \/ Fail(api, TRUE, 1)
    BY <1>8 DEF CheckRoute
  <2>3. CASE ReadOnly
    BY <1>1, <2>3 DEF ReadOnly, apiServer
  <2> QED BY <2>1, <2>2, <2>3, Zenon
<1>9. CASE NodePort(o)
  <2>1. \A reported, f : Fail(api, reported, f) => Keeps(api')
    BY <1>1, FailKeeps
  <2>2. Fail(api, FALSE, 0) \/ Wait \/ ReadOnly
    BY <1>9 DEF NodePort, LearnUrl
  <2>3. CASE ReadOnly
    BY <1>1, <2>3 DEF ReadOnly, apiServer
  <2> QED BY <2>1, <2>2, <2>3, WaitKeeps, Zenon
<1>10. CASE RouteUrl(o)
  BY <1>1, <1>10, WaitKeeps DEF RouteUrl, LearnUrl, ReadOnly, apiServer
<1>11. CASE LoadBalancer(o)
  BY <1>1, <1>11, WaitKeeps DEF LoadBalancer, Panic, apiServer
<1>12. CASE NoUrlWait(o)
  BY <1>12, WaitKeeps DEF NoUrlWait
<1>13. CASE External(o)
  BY <1>1, <1>13 DEF External, Panic, LearnUrl, ReadOnly, apiServer
<1> QED BY <1>2, <1>3, <1>4, <1>5, <1>6, <1>7, <1>8, <1>9, <1>10, <1>11, <1>12, <1>13
        DEF Step

LEMMA SecretsStep ==
    ASSUME TypeOK, Next
    PROVE  \/ Keeps(api')
           \/ ~cr.live
           \/ budget'["delete"] < budget["delete"]
<1>1. Keeps(api)
  BY DEF Keeps
<1>2. CASE Operator
  <2>1. CASE Begin
    BY <1>1, <2>1 DEF Begin, WriteStatus, Commit, apiServer
  <2>2. CASE Finish
    BY <1>1, <2>2 DEF Finish, WriteStatus, Commit
  <2>3. CASE Restart
    BY <1>1, <2>3 DEF Restart, apiServer
  <2> QED BY <1>2, <2>1, <2>2, <2>3, StepKeeps DEF Operator
<1>3. CASE Informers
  BY <1>1, <1>3 DEF Informers, Sync, SyncHorreum, Resync, apiServer
<1>4. ASSUME NEW o \in Removable, NEW obj, Change(o, obj) PROVE Keeps(api')
  <2>1. api' = [api EXCEPT ![o] = obj]
    BY <1>4 DEF Change, Commit
  <2> QED BY <2>1, NotSecret DEF Keeps, TypeOK, ClusterOK, IsStore
<1>5. CASE Cluster
  <2>1. ASSUME NEW o \in Objects, BecomeOk(o) \/ Terminate(o) PROVE Keeps(api')
    BY <1>4, <2>1 DEF BecomeOk, Terminate, Removable
  <2>2. CASE CollectGarbage
    BY <2>2 DEF CollectGarbage
  <2> QED BY <1>5, <2>1, <2>2 DEF Cluster
<1>6. CASE Trouble
  <2>1. ASSUME NEW o \in Objects, BecomeBad(o) PROVE Keeps(api')
    BY <1>4, <2>1 DEF BecomeBad, Removable
  <2>2. ASSUME NEW o \in Objects, DeleteObject(o)
        PROVE  budget'["delete"] < budget["delete"]
    <3>1. budget["delete"] \in Nat /\ Spend("delete")
      BY <2>2 DEF DeleteObject, TypeOK, BudgetOK, Disturbances
    <3> QED BY <3>1 DEF Spend, TypeOK, BudgetOK, Disturbances
  <2>3. ASSUME NEW s \in Specs, EditSpec(s) PROVE Keeps(api')
    BY <1>1, <2>3 DEF EditSpec, Commit
  <2>4. CASE DeleteHorreum
    BY <1>1, <2>4 DEF DeleteHorreum, Commit
  <2>5. CASE Crash
    BY <1>1, <2>5 DEF Crash, apiServer
  <2> QED BY <1>6, <2>1, <2>2, <2>3, <2>4, <2>5 DEF Trouble
<1> QED BY <1>2, <1>3, <1>5, <1>6 DEF Next

\* Passwords and certificates are safe from the operator: as long as the
\* resource lives no pass, retry, crash or edit ever loses or changes a secret,
\* given by the user or generated, with caches however old.
THEOREM SecretsAreKept == Spec => SecretsKept
<1>1. TypeOK /\ [Next]_vars =>
        [\A o \in Secrets : api[o] # Absent /\ api'[o] # api[o]
           => ~cr.live \/ budget'["delete"] < budget["delete"]]_vars
  BY SecretsStep DEF Keeps, Kept
<1> QED BY <1>1, TypeCorrect, PTL DEF Spec, SecretsKept

=============================================================================
