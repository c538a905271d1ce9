------------------------ MODULE ReconcileProperties ------------------------
(***************************************************************************)
(* What the reconciliation loop promises: the state of the cluster and of  *)
(* the status whenever the operator has nothing left to do, what no step   *)
(* may ever do, and what must eventually happen.                           *)
(***************************************************************************)
EXTENDS Reconcile

IsStore(f) ==
    /\ f = [o \in Objects |-> f[o]]
    /\ \A o \in Objects : f[o] \in Object(o) \cup {Absent}

ClusterOK == /\ cr \in Horreum /\ crCache \in Horreum
             /\ IsStore(api) /\ IsStore(cache)
             /\ crFresh \in BOOLEAN /\ dirty \in BOOLEAN
PassOK    == /\ up \in BOOLEAN /\ pc \in Nat /\ mem \in Mem /\ fresh \in BOOLEAN
             /\ pc = 0 => mem = Idle
BudgetOK  == budget \in [Disturbances -> Nat]

\* Every variable has its type, every object the content of its kind, and
\* nothing a pass found out survives it.
TypeOK == ClusterOK /\ PassOK /\ BudgetOK

----------------------------------------------------------------------------
(* The cluster a spec asks for, stated without the program of a pass.      *)

Wanted(s) ==
    Credentials
    \cup (IF RoutesAvailable THEN {"service-ca"} ELSE CertSecrets \cup {"service-ca"})
    \cup (IF s.db THEN {"postgresql-start", "db-pod", "db-svc"} ELSE {})
    \cup (IF s.kcExt = NoUrl THEN {"keycloak-pod", "keycloak-svc"} ELSE {})
    \cup {"app-pod", "app-svc", "upload"}
    \cup (IF RoutesAvailable /\ s.kcExt = NoUrl /\ s.kcSvc \in {"", "ClusterIP"}
          THEN {"keycloak-route"} ELSE {})
    \cup (IF RoutesAvailable /\ s.svc \in {"", "ClusterIP"} THEN {"app-route"} ELSE {})

Unwanted(s) ==
    (IF s.db THEN {} ELSE {"db-pod", "db-svc"})
    \cup (IF s.kcExt = NoUrl THEN {} ELSE {"keycloak-pod", "keycloak-svc", "keycloak-route"})

\* The address a component is reached at, given what the cluster holds.
AddressIn(h, s, t, svc, rt) ==
    IF isNodePort(t)
    THEN IF h[svc] = Absent THEN NoUrl ELSE <<"https", s.nodeHost, h[svc].port>>
    ELSE getRouteUrl(rt, h[rt])

KeycloakIn(h, s) ==
    IF s.kcExt # NoUrl THEN s.kcExt
    ELSE AddressIn(h, s, s.kcSvc, "keycloak-svc", "keycloak-route")
AppIn(h, s) == AddressIn(h, s, s.svc, "app-svc", "app-route")

KeycloakAddress(s) == KeycloakIn(api, s)
AppAddress(s)      == AppIn(api, s)

Matches(o, s) ==
    /\ api[o] # Absent
    /\ o \notin Secrets =>
         api[o].spec = Desired(o, s, KeycloakAddress(s), AppAddress(s))

Leaves(obj) == obj = Absent \/ obj.dying
Gone(o)     == Leaves(api[o])

\* The operator has nothing left to do until somebody changes something.
Quiet ==
    /\ up /\ pc = 0 /\ ~dirty
    /\ cr.live /\ crFresh /\ cache = api

\* When QuietObjects holds: what somebody else deletes, an informer has shown to
\* the operator, which so comes to notice that it is gone.
Shown ==
    \A o \in Objects : DeleteObject(o) /\ ~api[o].dying => cache[o] # Absent /\ ~cache[o].dying

\* Two reasons for which it has: the events of all kinds arrive one by one, or
\* nobody deletes.
Witnessed == LaggingKinds \subseteq {"Horreum"} \/ Bounds["delete"] = 0

\* And the comparison functions tell any two specs apart whose objects differ:
\* no spec has an option list that another one extends while the rest of the
\* pod agrees, nor another TLS section on a route without host.
TellsApart(specs) ==
    \A s, t \in specs, o \in {"app-pod"} \cup Routes :
      compare(o, Desired(o, s, NoUrl, NoUrl), Desired(o, t, NoUrl, NoUrl))
        => Desired(o, s, NoUrl, NoUrl) = Desired(o, t, NoUrl, NoUrl)

ToldApart == TellsApart(Specs)

\* Whenever the operator is at rest with nothing queued and its caches are
\* current, every object the spec asks for exists with exactly the content the
\* spec and the current addresses call for, and what the spec rules out is
\* gone: no change made during a pass is forgotten (Reconcile and its watches).
\* The upload config map, never compared, is exempt.
QuietObjects ==
    Quiet => /\ \A o \in Wanted(cr.spec) \ {"upload"} : Matches(o, cr.spec)
             /\ \A o \in Unwanted(cr.spec) : Gone(o)

\* Whoever reads status Ready of an operator at rest finds the cluster as the
\* spec asks for it (the comment on Reconcile).
ReadyAsWanted == cr.st.status = "Ready" => QuietObjects

\* When QuietStatus holds too: the last status update of no pass fails, whose
\* error Reconcile drops.
Spared == Finish => UNCHANGED budget

\* The conditions of the objects whose health counts.
HealthIn(h, s) == {h[o].cond : o \in {x \in Wanted(s) \cap (Secrets \cup Pods \cup Routes) :
                                        h[x] # Absent}}
Health(s) == HealthIn(api, s)

Reported(res, h, st) ==
    /\ st.status = IF "bad" \in HealthIn(h, res.spec) THEN "Error"
                   ELSE IF "new" \in HealthIn(h, res.spec) THEN "Pending" ELSE "Ready"
    /\ st.kcUrl = KeycloakIn(h, res.spec)
    /\ st.url = AppIn(h, res.spec)

\* At rest with current caches, the status is the worst health of the objects
\* the spec asks for, and the two URLs in it are where the components are
\* reached: no health change between the steps of a pass is lost (setStatus,
\* ensureSame, the last update of Reconcile).
QuietStatus == Quiet => Reported(cr, api, cr.st)

\* Whoever reads status Ready finds both public URLs next to it, in whatever
\* order passes were cut short (the waits of Reconcile write Pending).
ReadyHasUrls == cr.st.status = "Ready" => cr.st.kcUrl # NoUrl /\ cr.st.url # NoUrl

\* No pod of a live resource ever runs before the credentials it mounts, the
\* service CA and, off OpenShift, the certificates exist, however old the
\* caches are and wherever passes were cut short (the order of Reconcile),
\* unless somebody deletes them.
DependenciesFirst ==
    cr.live /\ budget["delete"] = Bounds["delete"] /\ (\E p \in Pods : api[p] # Absent) =>
        /\ \A o \in Credentials \cup {"service-ca"} : api[o] # Absent
        /\ ~RoutesAvailable => \A o \in CertSecrets : api[o] # Absent

\* Credentials and certificates outlive every pass, crash and edit: while the
\* resource lives, a secret is lost or changed only when somebody deletes it,
\* never by the operator (nocompare for secrets; createCA and createServiceCert
\* keep what they find).
SecretsKept ==
    [][\A o \in Secrets : api[o] # Absent /\ api'[o] # api[o]
         => ~cr.live \/ budget'["delete"] < budget["delete"]]_vars

\* The operator never dies of a nil pointer: it stops only when it is killed.
NoPanic == [][up /\ ~up' => budget'["crash"] < budget["crash"]]_vars

----------------------------------------------------------------------------
(* The abstract specification.                                             *)

\* The objects are as far as the operator can tell what the spec asks for.
Suited(res, h) ==
    /\ \A o \in Wanted(res.spec) :
         /\ h[o] # Absent
         /\ compare(o, Desired(o, res.spec, KeycloakIn(h, res.spec), AppIn(h, res.spec)),
                    h[o].spec)
    /\ \A o \in Unwanted(res.spec) : Leaves(h[o])

K == INSTANCE Keeper WITH
       Preserved <- Secrets,
       Suits     <- Suited,
       Tells     <- Reported,
       want      <- [live |-> cr.live, spec |-> cr.spec],
       have      <- api,
       told      <- cr.st,
       owed      <- ~Quiet

\* The passes of the operator, with their caches and queue, implement Keeper,
\* for specs that the comparison functions cannot tell apart as well: it works
\* only while it owes, keeps its hands off what is there to stay, and owes
\* nothing only when everything is in place and reported.
ImplementsKeeper == K!Spec

\* The program under the hypotheses on deletions and last status updates.
CarefulSpec == Init /\ [][Next /\ Shown /\ Spared]_vars

----------------------------------------------------------------------------
(* Liveness, under FairSpec.                                               *)

Converged ==
    /\ \A o \in Wanted(cr.spec) \ {"upload"} : Matches(o, cr.spec)
    /\ \A o \in Unwanted(cr.spec) : Gone(o)

\* Once the disturbances end, the cluster comes to match the spec and stays
\* so, and the status comes to say Ready and stays so.
Settles == <>[](cr.live => Converged /\ cr.st.status = "Ready")

\* After the resource is deleted, even in the middle of a pass, everything the
\* operator created for it is eventually gone for good.
DeletionCleansUp ==
    ~cr.live ~> [](\A o \in Objects \ DOMAIN GivenSecrets : api[o] = Absent)

----------------------------------------------------------------------------
(* What a comment says and the code does not do.                            *)

\* A load balancer is an "alternative service type when routes are not
\* available" (HorreumSpec.ServiceType): the URL of the application comes to be
\* known once the balancer is up (getLoadBalancer).
BalancerServed == <>(cr.st.url # NoUrl)

=============================================================================
