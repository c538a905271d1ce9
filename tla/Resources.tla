----------------------------- MODULE Resources -----------------------------
(***************************************************************************)
(* What the operator wants in the cluster, as a function of the Horreum    *)
(* custom resource: the objects it manages, the desired content of each    *)
(* (app.go, keycloak.go, postgres.go, defaults.go, utils.go) and the       *)
(* functions that compare a desired object with the one found and judge    *)
(* its health (the compare... and check... functions of                    *)
(* horreum_controller.go).                                                 *)
(*                                                                         *)
(* A name, an image, a host or a port is a token.  A public URL is a       *)
(* tuple <<scheme, host, port>> and NoUrl is the empty tuple.  Secret     *)
(* names and spec.keycloak.external.internalUri keep their defaults.       *)
(***************************************************************************)
EXTENDS Naturals, Sequences, SequencesExt

CONSTANTS
    Images,           \* image references
    Hosts,            \* host names
    DbNames,          \* database names
    NodePorts,        \* the ports the API server allocates node ports from
    RoutesAvailable,  \* the cluster serves route.openshift.io
    Absent            \* stands for "no such object"

----------------------------------------------------------------------------
(* The managed objects.  "route-tls" is the secret spec.route.tls names:   *)
(* the operator reads it and never writes it.                              *)

CertSecrets == {"ca-certs", "app-certs", "keycloak-certs"}
Credentials == {"db-admin", "app", "keycloak-admin", "keycloak-db", "admin"}
Secrets     == CertSecrets \cup Credentials \cup {"route-tls"}
ConfigMaps  == {"service-ca", "postgresql-start", "upload"}
Pods        == {"db-pod", "keycloak-pod", "app-pod"}
Services    == {"db-svc", "keycloak-svc", "app-svc"}
Routes      == {"keycloak-route", "app-route"}
Objects     == Secrets \cup ConfigMaps \cup Pods \cup Services \cup Routes

Kinds == {"Secret", "ConfigMap", "Pod", "Service", "Route"}
OfKind(k) == CASE k = "Secret"    -> Secrets
               [] k = "ConfigMap" -> ConfigMaps
               [] k = "Pod"       -> Pods
               [] k = "Service"   -> Services
               [] k = "Route"     -> Routes

----------------------------------------------------------------------------
(* The fields of HorreumSpec that decide what is deployed.                 *)

ServiceTypes == {"", "ClusterIP", "NodePort", "LoadBalancer"}
RouteTypes   == {"", "http", "passthrough", "edge", "reencrypt", "invalid"}
TlsSecrets   == {"", "route-tls"}
NoUrl == <<>>
Url   == {NoUrl} \cup
         ({"", "http", "https"} \X (Hosts \cup Routes \cup {""}) \X (NodePorts \cup {0}))
hostOf(url) == IF url = NoUrl THEN NoUrl ELSE <<"", url[2], url[3]>>

CrSpec ==
    [image    : [Pods -> Images],
     java     : BOOLEAN,                     \* annotation java-options
     nodeHost : Hosts \cup {""},
     svc      : ServiceTypes,
     rtype    : RouteTypes, rhost : Hosts \cup {""}, rtls : TlsSecrets,
     db       : BOOLEAN,                     \* postgres.enabled is not false
     kcExt    : Url,                         \* keycloak.external.publicUri
     kcSvc    : ServiceTypes,
     kcRtype  : RouteTypes, kcHost : Hosts \cup {""},
     kcDb     : DbNames]

----------------------------------------------------------------------------
(* Services: their type, the node port rule and the port.                  *)

serviceType(t) ==
    IF t # "" THEN t ELSE IF RoutesAvailable THEN "ClusterIP" ELSE "NodePort"

isNodePort(t) == t = "NodePort" \/ (t = "" /\ ~RoutesAvailable)

\* The plain-text flavours of spec.route.type.
plain(s) == s.rtype \in {"http", "edge"}
innerProtocol(s) == IF plain(s) THEN "http" ELSE "https"
servicePort(s)   == IF plain(s) THEN 80 ELSE 443

(* Routes.  tls looks at spec.route whichever route it is called for.      *)

tlsInvalid(s) == s.rtype \notin {"http", "passthrough", "edge", "reencrypt", ""}
tlsReads(s)   == s.rtype \notin {"http", "passthrough"} /\ s.rtls # ""
tls(s) == CASE s.rtype = "http"        -> <<>>
            [] s.rtype = "passthrough" -> <<"passthrough", "">>
            [] s.rtype = "edge"        -> <<"edge", s.rtls>>
            [] OTHER                   -> <<"reencrypt", s.rtls>>

keycloakRouteInvalid(s) == s.kcRtype \notin {"passthrough", "reencrypt", ""}

----------------------------------------------------------------------------
(* Desired contents.  kc and app are the public URLs known so far.         *)

Tls     == {<<>>} \cup ({"passthrough", "edge", "reencrypt"} \X TlsSecrets)
Options == {"java", "app-certs"} \cup TlsSecrets

SecretSpec  == [data : {"given", "generated"}]
ConfigSpec  == [db : DbNames \cup {""}, kc : Url, proto : {"", "http", "https"}]
ServiceSpec == [type : ServiceTypes, port : {80, 443, 5432}]
RouteSpec   == [host : Hosts \cup {""}, tls : Tls]
PodSpec     == [image : Images, kc : Url, app : Url, ext : Url,
                proto : {"", "http", "https"}, db : DbNames \cup {""},
                certs : {"", "keycloak-certs", "keycloak-tls"}, opt : Seq(Options)]
SpecOf(o) == CASE o \in Secrets    -> SecretSpec
               [] o \in ConfigMaps -> ConfigSpec
               [] o \in Services   -> ServiceSpec
               [] o \in Routes     -> RouteSpec
               [] o \in Pods       -> PodSpec

\* What a config map holds that depends on the spec: the name of the database
\* to create, the address of Keycloak and the scheme of the application.
noConfig == [db |-> "", kc |-> NoUrl, proto |-> ""]
postgresConfigMap(s) == [noConfig EXCEPT !.db = s.kcDb]
uploadConfig(s)      == [noConfig EXCEPT !.kc = s.kcExt, !.proto = innerProtocol(s)]

postgresService    == [type |-> "ClusterIP", port |-> 5432]
keycloakService(s) == [type |-> serviceType(s.kcSvc), port |-> 443]
appService(s)      == [type |-> serviceType(s.svc), port |-> servicePort(s)]

keycloakRoute(s) == [host |-> s.kcHost, tls |-> tls(s)]
appRoute(s)      == [host |-> s.rhost, tls |-> tls(s)]

\* opt holds what is appended to the lists of the pod only in some
\* configurations: the JAVA_OPTIONS variable, then the certificate variables
\* together with the mount and the volume they go with.
postgresPod(s) ==
    [image |-> s.image["db-pod"], kc |-> NoUrl, app |-> NoUrl, ext |-> NoUrl,
     proto |-> "", db |-> "", certs |-> "", opt |-> <<>>]

keycloakPod(s, kc) ==
    [image |-> s.image["keycloak-pod"], kc |-> hostOf(kc), app |-> NoUrl, ext |-> NoUrl,
     proto |-> "", db |-> s.kcDb, opt |-> <<>>,
     certs |-> IF s.kcRtype = "passthrough" THEN "keycloak-tls" ELSE "keycloak-certs"]

appCerts(s) ==
    IF plain(s) THEN <<>>
    ELSE IF s.rtype = "passthrough" THEN <<s.rtls>> ELSE <<"app-certs">>

appPod(s, kc, app) ==
    [image |-> s.image["app-pod"], kc |-> kc, app |-> app, ext |-> s.kcExt,
     proto |-> innerProtocol(s), db |-> "", certs |-> "",
     opt |-> (IF s.java THEN <<"java">> ELSE <<>>) \o appCerts(s)]

Desired(o, s, kc, app) ==
    CASE o \in Secrets            -> [data |-> "generated"]
      [] o = "postgresql-start"   -> postgresConfigMap(s)
      [] o = "upload"             -> uploadConfig(s)
      [] o = "service-ca"         -> noConfig
      [] o = "db-svc"             -> postgresService
      [] o = "keycloak-svc"       -> keycloakService(s)
      [] o = "app-svc"            -> appService(s)
      [] o = "keycloak-route"     -> keycloakRoute(s)
      [] o = "app-route"          -> appRoute(s)
      [] o = "db-pod"             -> postgresPod(s)
      [] o = "keycloak-pod"       -> keycloakPod(s, kc)
      [] o = "app-pod"            -> appPod(s, kc, app)

----------------------------------------------------------------------------
(* Objects as the API server holds them.  cond is the part of the status   *)
(* the operator looks at: a pod is "new" until its PodReady condition is   *)
(* true and "bad" when its image cannot be pulled, a route is "new" until  *)
(* its ingress appears and then admitted ("ok") or rejected ("bad"), a     *)
(* load balancer is "new" until its ingress is assigned, a secret is "bad" *)
(* when a required key is missing.                                         *)

Conditions == {"new", "ok", "bad"}
Object(o) == [spec  : SpecOf(o),
              cond  : Conditions,
              port  : NodePorts \cup {0},  \* node port of a service
              owned : BOOLEAN,             \* controller reference to the Horreum
              dying : BOOLEAN]             \* deletionTimestamp is set

\* Mutant: fields the API server fills in count.
comparePods_Strict(want, have) == FALSE

\* Mutant: only the optional parts of a pod are compared.
comparePods_Options(want, have) == IsPrefix(want.opt, have.opt)

comparePods(want, have) ==
    /\ IsPrefix(want.opt, have.opt)
    /\ [want EXCEPT !.opt = <<>>] = [have EXCEPT !.opt = <<>>]

\* Mutant: TLS is not looked at.
compareRoute_HostOnly(want, have) == want.host = have.host

compareRoute(want, have) ==
    IF want.host = "" THEN have.host = ""
    ELSE want = have

\* Mutant: secrets are compared, nothing else is.
compare_Secrets(o, want, have) == o \in Secrets => want = have

\* The comparison ensureSame is given for the object (nocompare for the rest).
compare(o, want, have) ==
    CASE o \in Pods     -> comparePods(want, have)
      [] o \in Services -> want = have
      [] o \in Routes   -> compareRoute(want, have)
      [] o = "postgresql-start" -> want = have
      [] OTHER -> TRUE

\* Mutant: the health of routes and pods is not checked.
check_SecretsOnly(o, obj) ==
    IF o \in Secrets /\ obj.cond = "bad" THEN "Error" ELSE "Ready"

\* The health check ensureSame is given for the object, as the status it asks
\* for ("Ready" when there is nothing to report; nocheck for the rest).
check(o, obj) ==
    IF o \notin Secrets \cup Pods \cup Routes THEN "Ready"
    ELSE CASE obj.cond = "ok"  -> "Ready"
           [] obj.cond = "new" -> "Pending"
           [] obj.cond = "bad" -> "Error"

\* Public URL of a route, from the ingress in its status.
getRouteUrl(o, obj) ==
    IF obj = Absent \/ obj.cond = "new" THEN NoUrl
    ELSE <<IF obj.spec.tls = <<>> THEN "http" ELSE "https",
           IF obj.spec.host = "" THEN o ELSE obj.spec.host, 0>>

=============================================================================
