---------------------------- MODULE MCReconcile ----------------------------
(***************************************************************************)
(* Instances of Reconcile for TLC: the specs users switch between on       *)
(* vanilla Kubernetes and on OpenShift, and the bounds on disturbances.    *)
(***************************************************************************)
EXTENDS ReconcileProperties

MCImages    == {"v1", "v2"}
MCHosts     == {"node", "h1", "sso"}
MCDbNames   == {"keycloak", "kc2"}
MCNodePorts == {30001, 30002, 30003}

plainSpec ==
    [image |-> [p \in Pods |-> "v1"], java |-> FALSE, nodeHost |-> "",
     svc |-> "", rtype |-> "", rhost |-> "", rtls |-> "", db |-> TRUE,
     kcExt |-> NoUrl, kcSvc |-> "", kcRtype |-> "", kcHost |-> "",
     kcDb |-> "keycloak"]

\* Vanilla Kubernetes: node ports. Without a database pod, to keep the
\* instances small.
lean         == [plainSpec EXCEPT !.nodeHost = "node", !.db = FALSE]
leanImage    == [lean EXCEPT !.image["app-pod"] = "v2"]
moved        == [leanImage EXCEPT !.nodeHost = "h1"]
leanBalanced == [lean EXCEPT !.svc = "LoadBalancer"]
clusterIp    == [lean EXCEPT !.svc = "ClusterIP"]
external     == [leanImage EXCEPT !.kcExt = <<"https", "sso", 0>>]

LeanSpecs     == {lean, moved, clusterIp, leanBalanced}
TroubleSpecs  == {lean, external}
BalancedSpecs == {leanBalanced}

\* OpenShift: routes.
openshift   == [plainSpec EXCEPT !.db = FALSE]
edge        == [openshift EXCEPT !.rtype = "edge", !.rhost = "h1",
                                 !.rtls = "route-tls", !.kcHost = "sso"]
passthrough == [edge EXCEPT !.rtype = "passthrough", !.kcRtype = "passthrough",
                            !.java = TRUE]
nodePort    == [edge EXCEPT !.svc = "NodePort", !.nodeHost = "node"]
externalSso == [nodePort EXCEPT !.kcExt = <<"https", "sso", 0>>, !.db = TRUE]
openSso     == [openshift EXCEPT !.kcExt = <<"https", "sso", 0>>]

OpenShiftSpecs == {edge, passthrough, externalSso}
StaleSpecs     == {openshift, edge, nodePort, openSso}

\* Specs the operator does not cope with, without their TLS secret.
noSecret    == [edge EXCEPT !.rtype = ""]
noScheme    == [openshift EXCEPT !.kcExt = <<"", "sso", 0>>]
balanced    == [openshift EXCEPT !.svc = "LoadBalancer"]
badType     == [openshift EXCEPT !.rtype = "invalid"]
badKeycloak == [openshift EXCEPT !.kcRtype = "edge"]
noHost      == [openshift EXCEPT !.svc = "NodePort"]

\* A route without a host: compareRoute does not see that its type differs.
http == [openshift EXCEPT !.rtype = "http"]

\* An external Keycloak from the start.
sso      == [openshift EXCEPT !.kcExt = <<"https", "sso", 0>>, !.rhost = "h1"]
ssoImage == [sso EXCEPT !.image["app-pod"] = "v2"]

SsoSpecs == {sso, ssoImage}

HardSpecs == {openshift, noSecret, noScheme, balanced, badType, badKeycloak, noHost, http}

\* An option that is removed, an address without a scheme.
plainJava == [edge EXCEPT !.java = TRUE]

UnschemedSpecs == {noScheme}
JavaSpecs      == {edge, plainJava}

\* Secrets that exist before the resource is created.
NoSecrets   == <<>>
TlsSecret   == [o \in {"route-tls"} |-> "ok"]
GoodSecrets == [o \in {"admin", "db-admin"} |-> "ok"]
BadSecret   == [GoodSecrets EXCEPT !["admin"] = "bad"]

\* Kinds whose informer lags.
NoKind        == {}
StaleSecrets  == {"Secret", "Horreum"}
StaleServices == {"Service"}
StaleRoutes   == {"Service", "Route"}

Budget(fault, crash, edit, remove, delete, upset) ==
    [fault |-> fault, crash |-> crash, edit |-> edit, remove |-> remove,
     delete |-> delete, upset |-> upset]

Calm        == Budget(0, 0, 0, 0, 0, 0)
EditOnce    == Budget(0, 0, 1, 0, 0, 0)
EditTwice   == Budget(0, 0, 2, 0, 0, 0)
EditFault   == Budget(1, 0, 1, 0, 0, 0)
EditTrouble == Budget(0, 0, 1, 0, 1, 1)
Lifetime    == Budget(1, 1, 1, 1, 0, 0)

\* The hypotheses of the theorems on QuietObjects and QuietStatus: every run
\* meets the first, and the runs that check QuietObjects meet the second, which
\* the removed option and the route without a host break.
ASSUME Witnessed
ASSUME Specs \in {TroubleSpecs, StaleSpecs, SsoSpecs} => ToldApart
ASSUME Specs = TroubleSpecs => TellsApart(LeanSpecs)
ASSUME Specs = StaleSpecs => TellsApart(OpenShiftSpecs)
ASSUME Specs \in {JavaSpecs, HardSpecs} => ~ToldApart

=============================================================================
