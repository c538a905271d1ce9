------------------------ MODULE ReconcileRestProofs ------------------------
(***************************************************************************)
(* Proof that the operator only rests when its work is done: QuietObjects, *)
(* for all specs the comparison functions tell apart.                      *)
(***************************************************************************)
EXTENDS ReconcileOrderProofs

----------------------------------------------------------------------------
(* The order of the steps of a program.                                    *)

Writing == {"Ensure", "Present", "Remove"}
OfApp   == {"app-svc", "app-route", "app-pod", "upload"}

\* A later step y would undo or outdate what step x has done: it writes the
\* same object, or changes a URL that x has used or found out.
Disturbs(y, x) ==
    \/ y[1] \in Writing /\ x[1] \in Writing /\ y[2] = x[2]
    \/ /\ KeycloakUrlStep(y)
       /\ KeycloakUrlStep(x) \/ x \in {"Ensure"} \X {"keycloak-pod", "app-pod"}
    \/ AppUrlStep(y) /\ (AppUrlStep(x) \/ x = <<"Ensure", "app-pod">>)

Sound(p) == \A i, j \in 1..Len(p) : i < j => ~Disturbs(p[j], p[i])

\* The step that reads the URL of a route comes right after the one that
\* ensures it.
Paired(p) ==
    \A j \in 1..Len(p) : p[j][1] = "RouteUrl" => j > 1 /\ p[j - 1] = <<"Ensure", p[j][2]>>

LEMMA ConcatSound ==
    ASSUME NEW S, NEW p \in Seq(S), NEW q \in Seq(S), Sound(p), Sound(q),
           \A x \in ToSet(p), y \in ToSet(q) : ~Disturbs(y, x)
    PROVE  Sound(p \o q)
<1>1. /\ p \o q \in Seq(S) /\ Len(p \o q) = Len(p) + Len(q)
      /\ \A i \in 1..Len(p) : (p \o q)[i] = p[i]
      /\ \A i \in Len(p) + 1 .. Len(p) + Len(q) : (p \o q)[i] = q[i - Len(p)]
  BY ConcatProperties
<1>2. /\ Len(p) \in Nat /\ DOMAIN p = 1..Len(p)
      /\ Len(q) \in Nat /\ DOMAIN q = 1..Len(q)
  OBVIOUS
<1> SUFFICES ASSUME NEW i \in 1..(Len(p) + Len(q)), NEW j \in 1..(Len(p) + Len(q)), i < j
             PROVE  ~Disturbs((p \o q)[j], (p \o q)[i])
  BY <1>1 DEF Sound
<1>3. CASE j <= Len(p)
  <2>1. i \in 1..Len(p) /\ j \in 1..Len(p)
    BY <1>2, <1>3
  <2> QED BY <1>1, <2>1 DEF Sound
<1>4. CASE i > Len(p)
  <2>1. /\ i \in Len(p) + 1 .. Len(p) + Len(q) /\ j \in Len(p) + 1 .. Len(p) + Len(q)
        /\ i - Len(p) \in 1..Len(q) /\ j - Len(p) \in 1..Len(q) /\ i - Len(p) < j - Len(p)
    BY <1>2, <1>4
  <2>2. (p \o q)[i] = q[i - Len(p)] /\ (p \o q)[j] = q[j - Len(p)]
    BY <1>1, <2>1
  <2> QED BY <2>1, <2>2 DEF Sound
<1>5. CASE i <= Len(p) /\ j > Len(p)
  <2>1. /\ i \in 1..Len(p) /\ j \in Len(p) + 1 .. Len(p) + Len(q)
        /\ j - Len(p) \in 1..Len(q)
    BY <1>2, <1>5
  <2>2. (p \o q)[i] = p[i] /\ (p \o q)[j] = q[j - Len(p)]
    BY <1>1, <2>1
  <2>3. p[i] \in ToSet(p) /\ q[j - Len(p)] \in ToSet(q)
    BY <1>2, <2>1 DEF ToSet
  <2> QED BY <2>2, <2>3
<1> QED BY <1>2, <1>3, <1>4, <1>5

LEMMA ConcatPaired ==
    ASSUME NEW S, NEW p \in Seq(S), NEW q \in Seq(S), Paired(p), Paired(q)
    PROVE  Paired(p \o q)
<1>1. /\ p \o q \in Seq(S) /\ Len(p \o q) = Len(p) + Len(q)
      /\ \A i \in 1..Len(p) : (p \o q)[i] = p[i]
      /\ \A i \in Len(p) + 1 .. Len(p) + Len(q) : (p \o q)[i] = q[i - Len(p)]
  BY ConcatProperties
<1>2. Len(p) \in Nat /\ Len(q) \in Nat
  OBVIOUS
<1> SUFFICES ASSUME NEW j \in 1..(Len(p) + Len(q)), (p \o q)[j][1] = "RouteUrl"
             PROVE  j > 1 /\ (p \o q)[j - 1] = <<"Ensure", (p \o q)[j][2]>>
  BY <1>1 DEF Paired
<1>3. CASE j <= Len(p)
  <2>1. j \in 1..Len(p)
    BY <1>2, <1>3
  <2>2. j > 1 /\ p[j - 1] = <<"Ensure", p[j][2]>>
    BY <1>1, <2>1 DEF Paired
  <2>3. j - 1 \in 1..Len(p)
    BY <1>2, <2>1, <2>2
  <2> QED BY <1>1, <2>1, <2>2, <2>3
<1>4. CASE j > Len(p)
  <2> DEFINE k == j - Len(p)
  <2>1. k \in 1..Len(q) /\ j \in Len(p) + 1 .. Len(p) + Len(q)
    BY <1>2, <1>4
  <2>2. (p \o q)[j] = q[k]
    BY <1>1, <2>1
  <2>3. k > 1 /\ q[k - 1] = <<"Ensure", q[k][2]>>
    BY <2>1, <2>2 DEF Paired
  <2>4. j - 1 \in Len(p) + 1 .. Len(p) + Len(q) /\ (j - 1) - Len(p) = k - 1
    BY <1>2, <2>1, <2>3
  <2>5. (p \o q)[j - 1] = q[k - 1]
    BY <1>1, <2>4
  <2> QED BY <1>2, <1>4, <2>2, <2>3, <2>5
<1> QED BY <1>2, <1>3, <1>4

\* Steps of one kind on different objects.
LEMMA StepsSound ==
    ASSUME NEW op, NEW S, NEW objs \in Seq(S), op \notin UrlOps,
           \A i, j \in 1..Len(objs) : i < j => objs[i] # objs[j]
    PROVE  /\ Sound(Steps(op, objs)) /\ Paired(Steps(op, objs))
           /\ ToSet(Steps(op, objs)) = {<<op, objs[i]>> : i \in 1..Len(objs)}
<1>1. DOMAIN objs = 1..Len(objs) /\ Len(objs) \in Nat
  OBVIOUS
<1>2. /\ Len(Steps(op, objs)) = Len(objs) /\ DOMAIN Steps(op, objs) = 1..Len(objs)
      /\ \A i \in 1..Len(objs) : Steps(op, objs)[i] = <<op, objs[i]>>
  BY <1>1, StepsHold DEF Steps
<1>3. Sound(Steps(op, objs))
  BY <1>2 DEF Sound, Disturbs, KeycloakUrlStep, AppUrlStep
<1>4. Paired(Steps(op, objs))
  BY <1>2 DEF Paired, UrlOps
<1>5. ToSet(Steps(op, objs)) = {<<op, objs[i]>> : i \in 1..Len(objs)}
  BY <1>2 DEF ToSet
<1> QED BY <1>3, <1>4, <1>5

LEMMA OneStep ==
    ASSUME NEW op, NEW o, op # "RouteUrl"
    PROVE  /\ Sound(Steps(op, <<o>>)) /\ Paired(Steps(op, <<o>>))
           /\ ToSet(Steps(op, <<o>>)) = {<<op, o>>}
<1> DEFINE p == Steps(op, <<o>>)
<1>1. p \in Seq({op} \X {o}) /\ Len(p) = 1 /\ DOMAIN p = 1..1 /\ p[1] = <<op, o>>
  <2>1. <<o>> \in Seq({o}) /\ Len(<<o>>) = 1 /\ <<o>>[1] = o /\ DOMAIN <<o>> = 1..1
    OBVIOUS
  <2>2. p \in Seq({op} \X {o})
    BY <2>1, StepsHold
  <2> QED BY <2>1, <2>2 DEF Steps
<1> HIDE DEF p
<1>2. Sound(p)
  BY <1>1 DEF Sound
<1>3. Paired(p)
  BY <1>1 DEF Paired
<1>4. ToSet(p) = {<<op, o>>}
  BY <1>1 DEF ToSet
<1> QED BY <1>2, <1>3, <1>4 DEF p

LEMMA TwoSteps ==
    ASSUME NEW op, NEW a, NEW b, a # b, op \notin UrlOps
    PROVE  /\ Sound(Steps(op, <<a, b>>)) /\ Paired(Steps(op, <<a, b>>))
           /\ ToSet(Steps(op, <<a, b>>)) = {<<op, a>>, <<op, b>>}
<1> DEFINE objs == <<a, b>>
<1>1. objs \in Seq({a, b}) /\ Len(objs) = 2 /\ objs[1] = a /\ objs[2] = b
  OBVIOUS
<1> HIDE DEF objs
<1>2. /\ Sound(Steps(op, objs)) /\ Paired(Steps(op, objs))
      /\ ToSet(Steps(op, objs)) = {<<op, objs[i]>> : i \in 1..Len(objs)}
  <2>1. \A i, j \in 1..Len(objs) : i < j => objs[i] # objs[j]
    BY <1>1
  <2> QED BY <1>1, <2>1, StepsSound
<1>3. {<<op, objs[i]>> : i \in 1..Len(objs)} = {<<op, a>>, <<op, b>>}
  BY <1>1
<1> QED BY <1>2, <1>3 DEF objs

\* A part of a program for s that is in order and holds the steps T.
Part(p, s, T) == p \in Seq(StepSet(s)) /\ Sound(p) /\ Paired(p) /\ ToSet(p) = T

LEMMA PartsJoin ==
    ASSUME NEW s, NEW p, NEW q, NEW T, NEW U, Part(p, s, T), Part(q, s, U),
           \A x \in T, y \in U : ~Disturbs(y, x)
    PROVE  Part(p \o q, s, T \cup U)
BY Concat, ConcatHolds, ConcatSound, ConcatPaired DEF Part

SecretSet ==
    (IF RoutesAvailable THEN {<<"Ensure", "service-ca">>} ELSE {"Present"} \X Certificates)
    \cup ({"Ensure"} \X Credentials)

PostgresSet(s) ==
    IF s.db THEN {"Ensure"} \X {"postgresql-start", "db-pod", "db-svc"}
    ELSE {"Remove"} \X {"db-pod", "db-svc"}

UrlSet(t, svc, rt) ==
    IF isNodePort(t)           THEN {<<"NodePort", svc>>}
    ELSE IF t = "LoadBalancer" THEN {<<"LoadBalancer", svc>>}
    ELSE IF RoutesAvailable    THEN {<<"Ensure", rt>>, <<"RouteUrl", rt>>}
    ELSE {<<"NoUrl", svc>>}

KeycloakSet(s) ==
    {<<"CheckRoute", "keycloak-route">>} \cup
    (IF s.kcExt = NoUrl
     THEN {<<"Ensure", "keycloak-svc">>}
          \cup UrlSet(s.kcSvc, "keycloak-svc", "keycloak-route")
          \cup {<<"Ensure", "keycloak-pod">>}
     ELSE {<<"External", "keycloak-pod">>}
          \cup {<<"Remove", "keycloak-pod">>, <<"Remove", "keycloak-svc">>}
          \cup (IF RoutesAvailable THEN {<<"Remove", "keycloak-route">>} ELSE {}))

AppSet(s) ==
    {<<"CheckRoute", "app-route">>} \cup {<<"Ensure", "app-svc">>}
    \cup UrlSet(s.svc, "app-svc", "app-route")
    \cup {<<"Ensure", "app-pod">>, <<"Ensure", "upload">>}

LEMMA SecretPart == ASSUME NEW s PROVE Part(SecretSteps, s, SecretSet)
<1> DEFINE certs == <<"ca-certs", "service-ca", "app-certs", "keycloak-certs">>
           creds == <<"db-admin", "app", "keycloak-admin", "keycloak-db", "admin">>
<1>1. Part(Steps("Ensure", <<"service-ca">>), s, {<<"Ensure", "service-ca">>})
  <2>1. <<"service-ca">> \in Seq(Objects)
    BY DEF Objects, ConfigMaps
  <2> QED BY <2>1, OpSteps, OneStep DEF Part, Ops
<1>2. Part(Steps("Present", certs), s, {"Present"} \X Certificates)
  <2>1. /\ certs \in Seq(Certificates) /\ Len(certs) = 4
        /\ certs[1] = "ca-certs" /\ certs[2] = "service-ca" /\ certs[3] = "app-certs"
        /\ certs[4] = "keycloak-certs"
    BY DEF Certificates, CertSecrets
  <2> HIDE DEF certs
  <2>2. Steps("Present", certs) \in Seq(StepSet(s))
    BY <2>1, PresentSteps
  <2>3. \A i, j \in 1..Len(certs) : i < j => certs[i] # certs[j]
    BY <2>1
  <2>4. /\ Sound(Steps("Present", certs)) /\ Paired(Steps("Present", certs))
        /\ ToSet(Steps("Present", certs)) = {<<"Present", certs[i]>> : i \in 1..Len(certs)}
    <3>1. "Present" \notin UrlOps /\ certs \in Seq(Certificates)
      BY <2>1 DEF UrlOps
    <3> QED BY <2>3, <3>1, StepsSound
  <2>5. {<<"Present", certs[i]>> : i \in 1..Len(certs)} = {"Present"} \X Certificates
    BY <2>1 DEF Certificates, CertSecrets
  <2> QED BY <2>2, <2>4, <2>5 DEF Part
<1>3. Part(Steps("Ensure", creds), s, {"Ensure"} \X Credentials)
  <2>1. /\ creds \in Seq(Objects) /\ Len(creds) = 5
        /\ creds[1] = "db-admin" /\ creds[2] = "app" /\ creds[3] = "keycloak-admin"
        /\ creds[4] = "keycloak-db" /\ creds[5] = "admin"
    BY DEF Objects, Secrets, Credentials
  <2> HIDE DEF creds
  <2>2. Steps("Ensure", creds) \in Seq(StepSet(s))
    BY <2>1, OpSteps DEF Ops
  <2>3. \A i, j \in 1..Len(creds) : i < j => creds[i] # creds[j]
    BY <2>1
  <2>4. /\ Sound(Steps("Ensure", creds)) /\ Paired(Steps("Ensure", creds))
        /\ ToSet(Steps("Ensure", creds)) = {<<"Ensure", creds[i]>> : i \in 1..Len(creds)}
    BY <2>1, <2>3, StepsSound DEF UrlOps
  <2>5. {<<"Ensure", creds[i]>> : i \in 1..Len(creds)} = {"Ensure"} \X Credentials
    BY <2>1 DEF Credentials
  <2> QED BY <2>2, <2>4, <2>5 DEF Part
<1>4. \A x \in ({"Ensure", "Present"} \X Certificates), y \in {"Ensure"} \X Credentials :
        ~Disturbs(y, x)
  BY DEF Disturbs, KeycloakUrlStep, AppUrlStep, UrlOps, Certificates, CertSecrets, Credentials
<1>5. <<"Ensure", "service-ca">> \in {"Ensure", "Present"} \X Certificates
  BY DEF Certificates
<1> HIDE DEF certs, creds
<1>6. CASE RoutesAvailable
  <2>1. SecretSteps = Steps("Ensure", <<"service-ca">>) \o Steps("Ensure", creds)
    BY <1>6 DEF SecretSteps, creds
  <2>2. \A x \in {<<"Ensure", "service-ca">>}, y \in {"Ensure"} \X Credentials : ~Disturbs(y, x)
    BY <1>4, <1>5
  <2>3. SecretSet = {<<"Ensure", "service-ca">>} \cup ({"Ensure"} \X Credentials)
    BY <1>6 DEF SecretSet
  <2> QED BY <1>1, <1>3, <2>1, <2>2, <2>3, PartsJoin
<1>7. CASE ~RoutesAvailable
  <2>1. SecretSteps = Steps("Present", certs) \o Steps("Ensure", creds)
    BY <1>7 DEF SecretSteps, creds, certs
  <2>2. \A x \in {"Present"} \X Certificates, y \in {"Ensure"} \X Credentials : ~Disturbs(y, x)
    BY <1>4
  <2>3. SecretSet = ({"Present"} \X Certificates) \cup ({"Ensure"} \X Credentials)
    BY <1>7 DEF SecretSet
  <2> QED BY <1>2, <1>3, <2>1, <2>2, <2>3, PartsJoin
<1> QED BY <1>6, <1>7

LEMMA PostgresPart == ASSUME NEW s PROVE Part(PostgresSteps(s), s, PostgresSet(s))
<1>1. CASE s.db
  <2> DEFINE objs == <<"postgresql-start", "db-pod", "db-svc">>
  <2>1. /\ objs \in Seq(Objects) /\ Len(objs) = 3
        /\ objs[1] = "postgresql-start" /\ objs[2] = "db-pod" /\ objs[3] = "db-svc"
    BY DEF Objects, ConfigMaps, Pods, Services
  <2>2. PostgresSteps(s) = Steps("Ensure", objs)
    BY <1>1 DEF PostgresSteps
  <2> HIDE DEF objs
  <2>3. \A i, j \in 1..Len(objs) : i < j => objs[i] # objs[j]
    BY <2>1
  <2>4. /\ Sound(Steps("Ensure", objs)) /\ Paired(Steps("Ensure", objs))
        /\ ToSet(Steps("Ensure", objs)) = {<<"Ensure", objs[i]>> : i \in 1..Len(objs)}
    BY <2>1, <2>3, StepsSound DEF UrlOps
  <2>5. {<<"Ensure", objs[i]>> : i \in 1..Len(objs)} = PostgresSet(s)
    BY <1>1, <2>1 DEF PostgresSet
  <2> QED BY <2>2, <2>4, <2>5, PostgresStepsType DEF Part
<1>2. CASE ~s.db
  <2>1. PostgresSteps(s) = Steps("Remove", <<"db-pod", "db-svc">>)
    BY <1>2 DEF PostgresSteps
  <2>2. /\ Sound(PostgresSteps(s)) /\ Paired(PostgresSteps(s))
        /\ ToSet(PostgresSteps(s)) = {<<"Remove", "db-pod">>, <<"Remove", "db-svc">>}
    BY <2>1, TwoSteps DEF UrlOps
  <2>3. PostgresSet(s) = {<<"Remove", "db-pod">>, <<"Remove", "db-svc">>}
    BY <1>2 DEF PostgresSet
  <2> QED BY <2>2, <2>3, PostgresStepsType DEF Part
<1> QED BY <1>1, <1>2

\* A step on its own.
LEMMA SinglePart ==
    ASSUME NEW s, NEW x \in StepSet(s), x[1] # "RouteUrl" PROVE Part(<<x>>, s, {x})
<1> DEFINE p == <<x>>
<1>1. p \in Seq(StepSet(s)) /\ Len(p) = 1 /\ DOMAIN p = 1..1 /\ p[1] = x
  OBVIOUS
<1> HIDE DEF p
<1>2. Sound(p)
  BY <1>1 DEF Sound
<1>3. Paired(p)
  BY <1>1 DEF Paired
<1>4. ToSet(p) = {x}
  BY <1>1 DEF ToSet
<1> QED BY <1>1, <1>2, <1>3, <1>4 DEF Part, p

LEMMA UrlPart ==
    ASSUME NEW s, NEW t, t = "LoadBalancer" => Balanced(s),
           NEW svc \in Services, NEW rt \in Routes
    PROVE  Part(UrlSteps(t, svc, rt), s, UrlSet(t, svc, rt))
<1>1. UrlSteps(t, svc, rt) \in Seq(StepSet(s))
  BY UrlStepsType
<1>2. \A x \in StepSet(s) : x[1] # "RouteUrl" => Part(<<x>>, s, {x})
  BY SinglePart
<1>3. CASE isNodePort(t)
  <2>1. <<"NodePort", svc>> \in StepSet(s)
    BY DEF StepSet
  <2>2. Part(<<<<"NodePort", svc>>>>, s, {<<"NodePort", svc>>})
    BY <2>1, SinglePart
  <2> QED BY <1>3, <2>2, Zenon DEF UrlSteps, UrlSet
<1>4. CASE ~isNodePort(t) /\ t = "LoadBalancer"
  <2>1. <<"LoadBalancer", svc>> \in StepSet(s)
    BY <1>4 DEF StepSet
  <2>2. Part(<<<<"LoadBalancer", svc>>>>, s, {<<"LoadBalancer", svc>>})
    BY <2>1, SinglePart
  <2> QED BY <1>4, <2>2, Zenon DEF UrlSteps, UrlSet
<1>5. CASE ~isNodePort(t) /\ t # "LoadBalancer" /\ ~RoutesAvailable
  <2>1. <<"NoUrl", svc>> \in StepSet(s)
    BY DEF StepSet
  <2>2. Part(<<<<"NoUrl", svc>>>>, s, {<<"NoUrl", svc>>})
    BY <2>1, SinglePart
  <2> QED BY <1>5, <2>2, Zenon DEF UrlSteps, UrlSet
<1>6. CASE ~isNodePort(t) /\ t # "LoadBalancer" /\ RoutesAvailable
  <2> DEFINE e == <<"Ensure", rt>>
             r == <<"RouteUrl", rt>>
             p == <<e, r>>
  <2>1. UrlSteps(t, svc, rt) = p /\ UrlSet(t, svc, rt) = {e, r}
    BY <1>6, Zenon DEF UrlSteps, UrlSet
  <2>2. ~Disturbs(r, e)
    BY DEF Disturbs, KeycloakUrlStep, AppUrlStep, UrlOps, Writing, Routes
  <2>3. e[1] = "Ensure" /\ r[1] = "RouteUrl" /\ e = <<"Ensure", r[2]>>
    OBVIOUS
  <2> HIDE DEF e, r
  <2>4. Len(p) = 2 /\ DOMAIN p = 1..2 /\ p[1] = e /\ p[2] = r
    OBVIOUS
  <2> HIDE DEF p
  <2>5. Sound(p)
    BY <2>2, <2>4 DEF Sound
  <2>6. Paired(p)
    BY <2>3, <2>4 DEF Paired
  <2>7. ToSet(p) = {e, r}
    BY <2>4 DEF ToSet
  <2> QED BY <1>1, <2>1, <2>5, <2>6, <2>7 DEF Part
<1> QED BY <1>3, <1>4, <1>5, <1>6

LEMMA KeycloakPart == ASSUME NEW s PROVE Part(KeycloakSteps(s), s, KeycloakSet(s))
<1> DEFINE C == Steps("CheckRoute", <<"keycloak-route">>)
           S == Steps("Ensure", <<"keycloak-svc">>)
           U == UrlSteps(s.kcSvc, "keycloak-svc", "keycloak-route")
           V == UrlSet(s.kcSvc, "keycloak-svc", "keycloak-route")
           P == Steps("Ensure", <<"keycloak-pod">>)
           X == Steps("External", <<"keycloak-pod">>)
           R == Steps("Remove", <<"keycloak-pod", "keycloak-svc">>)
           Q == IF RoutesAvailable THEN Steps("Remove", <<"keycloak-route">>) ELSE <<>>
           W == IF RoutesAvailable THEN {<<"Remove", "keycloak-route">>} ELSE {}
<1>1. /\ <<"keycloak-route">> \in Seq(Objects) /\ <<"keycloak-svc">> \in Seq(Objects)
      /\ <<"keycloak-pod">> \in Seq(Objects)
      /\ <<"keycloak-pod", "keycloak-svc">> \in Seq(Removable)
      /\ <<"keycloak-route">> \in Seq(Removable)
  BY DEF Objects, Pods, Services, Routes, Removable
<1>2. Part(C, s, {<<"CheckRoute", "keycloak-route">>})
  BY <1>1, OpSteps, OneStep DEF Part, Ops
<1>3. CASE s.kcExt = NoUrl
  <2>1. /\ Part(S, s, {<<"Ensure", "keycloak-svc">>})
        /\ Part(P, s, {<<"Ensure", "keycloak-pod">>})
    BY <1>1, OpSteps, OneStep DEF Part, Ops
  <2>2. Part(U, s, V)
    BY UrlPart DEF Services, Routes, Balanced
  <2>3. KeycloakSteps(s) = C \o (S \o U \o P)
    BY <1>3 DEF KeycloakSteps
  <2>4. /\ \A x \in {<<"Ensure", "keycloak-svc">>}, y \in V : ~Disturbs(y, x)
        /\ \A x \in {<<"Ensure", "keycloak-svc">>} \cup V, y \in {<<"Ensure", "keycloak-pod">>} :
             ~Disturbs(y, x)
    BY DEF Disturbs, KeycloakUrlStep, AppUrlStep, UrlOps, Writing, UrlSet, OfKeycloak
  <2>5. \A x \in {<<"CheckRoute", "keycloak-route">>},
          y \in {<<"Ensure", "keycloak-svc">>} \cup V \cup {<<"Ensure", "keycloak-pod">>} :
            ~Disturbs(y, x)
    BY DEF Disturbs, KeycloakUrlStep, AppUrlStep, UrlOps, Writing, UrlSet, OfKeycloak
  <2>6. KeycloakSet(s) = {<<"CheckRoute", "keycloak-route">>} \cup
          ({<<"Ensure", "keycloak-svc">>} \cup V \cup {<<"Ensure", "keycloak-pod">>})
    BY <1>3 DEF KeycloakSet
  <2> HIDE DEF C, S, U, V, P
  <2>7. Part(S \o U, s, {<<"Ensure", "keycloak-svc">>} \cup V)
    BY <2>1, <2>2, <2>4, PartsJoin
  <2>8. Part(S \o U \o P, s,
             {<<"Ensure", "keycloak-svc">>} \cup V \cup {<<"Ensure", "keycloak-pod">>})
    BY <2>1, <2>4, <2>7, PartsJoin
  <2> QED BY <1>2, <2>3, <2>5, <2>6, <2>8, PartsJoin
<1>4. CASE s.kcExt # NoUrl
  <2> DEFINE r == {<<"Remove", "keycloak-pod">>, <<"Remove", "keycloak-svc">>}
             e == {<<"External", "keycloak-pod">>}
  <2>1. Part(X, s, e)
    BY <1>4, ExternalSteps, OneStep DEF Part
  <2>2. Part(R, s, r)
    BY <1>1, RemoveSteps, TwoSteps DEF Part, UrlOps
  <2>3. Part(Q, s, W)
    <3>1. CASE RoutesAvailable
      <4>1. Part(Steps("Remove", <<"keycloak-route">>), s, {<<"Remove", "keycloak-route">>})
        BY <1>1, RemoveSteps, OneStep DEF Part
      <4> QED BY <3>1, <4>1, Zenon
    <3>2. CASE ~RoutesAvailable
      <4>1. Part(<<>>, s, {})
        BY DEF Part, Sound, Paired, ToSet
      <4> QED BY <3>2, <4>1, Zenon
    <3> QED BY <3>1, <3>2
  <2>4. KeycloakSteps(s) = C \o (X \o R \o Q)
    BY <1>4 DEF KeycloakSteps
  <2>5. /\ \A x \in e, y \in r : ~Disturbs(y, x)
        /\ \A x \in e \cup r, y \in W : ~Disturbs(y, x)
    BY DEF Disturbs, KeycloakUrlStep, AppUrlStep, UrlOps, Writing, OfKeycloak
  <2>6. \A x \in {<<"CheckRoute", "keycloak-route">>}, y \in e \cup r \cup W : ~Disturbs(y, x)
    BY DEF Disturbs, KeycloakUrlStep, AppUrlStep, UrlOps, Writing, OfKeycloak
  <2>7. KeycloakSet(s) = {<<"CheckRoute", "keycloak-route">>} \cup (e \cup r \cup W)
    BY <1>4 DEF KeycloakSet
  <2> HIDE DEF C, X, R, Q, W, r, e
  <2>8. Part(X \o R, s, e \cup r)
    BY <2>1, <2>2, <2>5, PartsJoin
  <2>9. Part(X \o R \o Q, s, e \cup r \cup W)
    BY <2>3, <2>5, <2>8, PartsJoin
  <2> QED BY <1>2, <2>4, <2>6, <2>7, <2>9, PartsJoin
<1> QED BY <1>3, <1>4

LEMMA AppPart == ASSUME NEW s PROVE Part(AppSteps(s), s, AppSet(s))
<1> DEFINE C == Steps("CheckRoute", <<"app-route">>)
           S == Steps("Ensure", <<"app-svc">>)
           U == UrlSteps(s.svc, "app-svc", "app-route")
           V == UrlSet(s.svc, "app-svc", "app-route")
           P == Steps("Ensure", <<"app-pod", "upload">>)
           c == {<<"CheckRoute", "app-route">>}
           e == {<<"Ensure", "app-svc">>}
           f == {<<"Ensure", "app-pod">>, <<"Ensure", "upload">>}
<1>1. /\ <<"app-route">> \in Seq(Objects) /\ <<"app-svc">> \in Seq(Objects)
      /\ <<"app-pod", "upload">> \in Seq(Objects)
  BY DEF Objects, Pods, Services, Routes, ConfigMaps
<1>2. Part(C, s, c) /\ Part(S, s, e)
  BY <1>1, OpSteps, OneStep DEF Part, Ops
<1>3. Part(P, s, f)
  BY <1>1, OpSteps, TwoSteps DEF Part, Ops, UrlOps
<1>4. Part(U, s, V)
  BY UrlPart DEF Services, Routes, Balanced
<1>5. AppSteps(s) = C \o S \o U \o P
  BY DEF AppSteps
<1>6. /\ \A x \in c, y \in e : ~Disturbs(y, x)
      /\ \A x \in c \cup e, y \in V : ~Disturbs(y, x)
      /\ \A x \in c \cup e \cup V, y \in f : ~Disturbs(y, x)
  BY DEF Disturbs, KeycloakUrlStep, AppUrlStep, UrlOps, Writing, UrlSet, OfKeycloak
<1>7. AppSet(s) = c \cup e \cup V \cup f
  BY DEF AppSet
<1> HIDE DEF C, S, U, V, P, c, e, f
<1>8. Part(C \o S, s, c \cup e)
  BY <1>2, <1>6, PartsJoin
<1>9. Part(C \o S \o U, s, c \cup e \cup V)
  BY <1>4, <1>6, <1>8, PartsJoin
<1> QED BY <1>3, <1>5, <1>6, <1>7, <1>9, PartsJoin

\* The whole program: its steps, in an order in which none undoes another.
LEMMA ProgramPart ==
    ASSUME NEW s
    PROVE  Part(Program(s), s, SecretSet \cup PostgresSet(s) \cup KeycloakSet(s) \cup AppSet(s))
<1> DEFINE Early == Kept \cup {"postgresql-start", "db-pod", "db-svc"}
<1>1. /\ \A x \in SecretSet : x[1] \notin UrlOps /\ x[2] \in Kept
      /\ \A x \in PostgresSet(s) :
           x[1] \notin UrlOps /\ x[2] \in {"postgresql-start", "db-pod", "db-svc"}
      /\ \A x \in KeycloakSet(s) : x[2] \in OfKeycloak
      /\ \A x \in AppSet(s) : x[2] \in OfApp
  BY DEF SecretSet, PostgresSet, KeycloakSet, AppSet, UrlSet, UrlOps, OfKeycloak, OfApp, Kept,
         Certificates, Secrets, CertSecrets, Credentials
<1>2. /\ Kept \cap {"postgresql-start", "db-pod", "db-svc"} = {}
      /\ Early \cap OfKeycloak = {} /\ (Early \cup OfKeycloak) \cap OfApp = {}
  BY DEF Kept, Secrets, CertSecrets, Credentials, OfKeycloak, OfApp
<1>3. "keycloak-pod" \in OfKeycloak /\ "app-pod" \in OfApp
  BY DEF OfKeycloak, OfApp
<1>4. \A x \in SecretSet, y \in PostgresSet(s) : ~Disturbs(y, x)
  BY <1>1, <1>2 DEF Disturbs, KeycloakUrlStep, AppUrlStep
<1>5. \A x \in SecretSet \cup PostgresSet(s) : x[1] \notin UrlOps /\ x[2] \in Early
  BY <1>1
<1>6. \A x \in SecretSet \cup PostgresSet(s), y \in KeycloakSet(s) : ~Disturbs(y, x)
  <2> SUFFICES ASSUME NEW x \in SecretSet \cup PostgresSet(s), NEW y \in KeycloakSet(s)
               PROVE  ~Disturbs(y, x)
    OBVIOUS
  <2>1. x[1] \notin UrlOps /\ x[2] \in Early /\ y[2] \in OfKeycloak
    BY <1>1, <1>5
  <2> HIDE DEF Early
  <2> QED BY <1>2, <1>3, <2>1 DEF Disturbs, KeycloakUrlStep, AppUrlStep
<1>7. \A x \in SecretSet \cup PostgresSet(s) \cup KeycloakSet(s), y \in AppSet(s) :
        ~Disturbs(y, x)
  <2> SUFFICES ASSUME NEW x \in SecretSet \cup PostgresSet(s) \cup KeycloakSet(s),
                      NEW y \in AppSet(s)
               PROVE  ~Disturbs(y, x)
    OBVIOUS
  <2>1. /\ x[2] \in Early \cup OfKeycloak /\ (x[1] \notin UrlOps \/ x[2] \in OfKeycloak)
        /\ y[2] \in OfApp /\ y[2] \notin OfKeycloak
    BY <1>1, <1>2, <1>5
  <2> HIDE DEF Early
  <2> QED BY <1>2, <1>3, <2>1 DEF Disturbs, KeycloakUrlStep, AppUrlStep
<1>8. Part(SecretSteps \o PostgresSteps(s), s, SecretSet \cup PostgresSet(s))
  BY <1>4, SecretPart, PostgresPart, PartsJoin
<1>9. Part(SecretSteps \o PostgresSteps(s) \o KeycloakSteps(s), s,
           SecretSet \cup PostgresSet(s) \cup KeycloakSet(s))
  BY <1>6, <1>8, KeycloakPart, PartsJoin
<1> QED BY <1>7, <1>9, AppPart, PartsJoin DEF Program

----------------------------------------------------------------------------
(* The invariant.                                                          *)

\* What may be found under a name: the secret the user gave, or an object the
\* operator made for some spec and some addresses.
Given(o) == [spec |-> [data |-> "given"], cond |-> GivenSecrets[o],
             port |-> 0, owned |-> FALSE, dying |-> FALSE]
Authored(o, x) ==
    /\ x.owned /\ (o \in Routes => RoutesAvailable)
    /\ \E t \in Specs, kc, app \in Url : x.spec = Desired(o, t, kc, app)
Proper(o, x) ==
    IF o \in DOMAIN GivenSecrets THEN x = Given(o) ELSE x = Absent \/ Authored(o, x)

\* How the informers relate to the API server.
Views ==
    /\ crFresh => crCache = cr
    /\ "Horreum" \notin LaggingKinds => crFresh
    /\ \A o \in Objects : ~Lags(o) => cache[o] = api[o]
    /\ \A o \in Objects : Proper(o, api[o]) /\ Proper(o, cache[o])

\* An object that is as the spec and the URLs want it.
Fine(o, s, kc, app, x) == x # Absent /\ compare(o, Desired(o, s, kc, app), x.spec)

\* The informer has news: what the caches hold as alive is going or gone.
\* seen is what the caches hold, held what the API server holds.
Missed(o, seen, held) == ~Leaves(seen[o]) /\ Leaves(held[o])

\* It is seen to be fine, or the operator has just made it, or the news that
\* it goes is on its way.
Made(o, s, kc, app, seen, held) ==
    \/ Fine(o, s, kc, app, seen[o])
    \/ Fine(o, s, kc, app, held[o]) /\ ~held[o].dying
    \/ Missed(o, seen, held)

urlOf(o, kc, app) == IF o \in OfKeycloak THEN kc ELSE app

\* What step x has seen to.
Achieved(x, s, kc, app, seen, held) ==
    /\ x[1] \in {"Ensure", "Present"} => Made(x[2], s, kc, app, seen, held)
    /\ x[1] = "Remove" => seen[x[2]] = Absent \/ Leaves(held[x[2]])
    /\ x[1] = "NodePort" =>
         /\ seen[x[2]] # Absent
         /\ urlOf(x[2], kc, app) = <<"https", s.nodeHost, seen[x[2]].port>>
    /\ x[1] = "RouteUrl" => urlOf(x[2], kc, app) = getRouteUrl(x[2], seen[x[2]])
    /\ x[1] = "External" => urlOf(x[2], kc, app) = s.kcExt
    /\ x[1] \notin {"LoadBalancer", "NoUrl"}

\* The route the pass remembers is the one in the cache.
FoundRoute ==
    /\ mem.redo => \E o \in Objects : At("Ensure", o) /\ (o \in Routes => mem.found = cache[o])
    /\ \A rt \in Routes : At("RouteUrl", rt) => mem.found \in {cache[rt], Absent}

\* Nothing is queued or about to be, and the resource is known as it is.
Tranquil == up /\ ~dirty /\ crFresh /\ cr.live

\* The steps of s before the n-th have seen to their object or URL.
Passed(n, s, kc, app, seen, held) ==
    \A i \in 1..Len(Program(s)) : i < n => Achieved(Program(s)[i], s, kc, app, seen, held)

Underway == /\ mem.spec = cr.spec /\ FoundRoute
            /\ Passed(pc, mem.spec, mem.st.kcUrl, mem.st.url, cache, api)
Complete == \E kc, app \in Url : Passed(Len(Program(cr.spec)) + 1, cr.spec, kc, app, cache, api)

WorkDone == Tranquil => IF pc = 0 THEN Complete ELSE Underway

----------------------------------------------------------------------------
(* Every step of a pass either ends it with the request queued, or sees to *)
(* its object.                                                             *)

LEMMA CommitQueues ==
    ASSUME NEW newApi, NEW newCr, NEW crChanged, Commit(newApi, newCr, crChanged, TRUE)
    PROVE  dirty'
BY Zenon DEF Commit

LEMMA WriteStatusQueues ==
    ASSUME NEW newApi, NEW m, NEW current, NEW f, WriteStatus(newApi, m, current, TRUE, f)
    PROVE  dirty'
<1>1. \E newCr, crChanged : Commit(newApi, newCr, crChanged, TRUE)
  BY Zenon DEF WriteStatus
<1> QED BY <1>1, CommitQueues

LEMMA FailQueues ==
    ASSUME NEW newApi, NEW reported, NEW f, Fail(newApi, reported, f) PROVE dirty'
<1>1. \/ WriteStatus(newApi, setStatus(mem, "Error"), fresh, TRUE, f)
      \/ Commit(newApi, cr, FALSE, TRUE)
  BY Zenon DEF Fail
<1>2. \A m, current : WriteStatus(newApi, m, current, TRUE, f) => dirty'
  BY WriteStatusQueues
<1>3. \A newCr, crChanged : Commit(newApi, newCr, crChanged, TRUE) => dirty'
  BY CommitQueues
<1> QED BY <1>1, <1>2, <1>3, Zenon

LEMMA WaitQueues == ASSUME Wait PROVE dirty'
BY WriteStatusQueues DEF Wait

LEMMA WriteFailsQueues ==
    ASSUME NEW refused, NEW outcomes, NEW reported, WriteFails(refused, outcomes, reported)
    PROVE  dirty'
BY FailQueues DEF WriteFails

\* The first half of a replacement.
Halfway(o) ==
    /\ At("Ensure", o) /\ pc' = pc /\ mem'.spec = mem.spec /\ mem'.st = mem.st
    /\ api[o] # Absent /\ api' \in Deleted(o)
    /\ o \in Routes => mem'.found = cache[o]

\* The URLs of the pass with url for the component o belongs to.
Learns(o, url) ==
    /\ mem'.st.kcUrl = (IF o \in OfKeycloak THEN url ELSE mem.st.kcUrl)
    /\ mem'.st.url   = (IF o \in OfKeycloak THEN mem.st.url ELSE url)

\* A step the pass goes on from.
Forward(op, o) ==
    /\ At(op, o) /\ op \in Writing \cup UrlOps \cup {"CheckRoute"}
    /\ pc' = pc + 1 /\ mem'.spec = mem.spec
    /\ mem'.redo => op # "Ensure" /\ mem.redo
    /\ op = "Ensure" =>
         \/ /\ api' = api /\ Fine(o, mem.spec, mem.st.kcUrl, mem.st.url, cache[o])
            /\ o \in Routes => mem'.found = cache[o]
         \/ /\ api[o] = Absent /\ api' \in Created(o)
            /\ mem'.found = IF mem.redo THEN mem.found ELSE Absent
    /\ op = "Present" => \/ api' = api /\ cache[o] # Absent
                         \/ api[o] = Absent /\ api' \in Created(o)
    /\ op = "Remove" => \/ api' = api /\ cache[o] = Absent
                        \/ api[o] # Absent /\ api' \in Deleted(o)
    /\ op \notin Writing => api' = api
    /\ op \notin UrlOps => mem'.st.kcUrl = mem.st.kcUrl /\ mem'.st.url = mem.st.url
    /\ op \in UrlOps => op \in {"NodePort", "RouteUrl", "External"}
    /\ op = "NodePort" =>
         cache[o] # Absent /\ Learns(o, <<"https", mem.spec.nodeHost, cache[o].port>>)
    /\ op = "RouteUrl" => mem.found # Absent /\ Learns(o, getRouteUrl(o, mem.found))
    /\ op = "External" => Learns(o, mem.spec.kcExt)

Outcome(o) == dirty' \/ ~up' \/ Halfway(o) \/ \E op : Forward(op, o)

LEMMA EnsureCreateOutcome ==
    ASSUME TypeOK, NEW o \in Objects, EnsureCreate(o) PROVE Outcome(o)
<1> DEFINE m == [mem EXCEPT !.redo = FALSE,
                            !.found = IF mem.redo THEN @ ELSE Absent]
<1>1. At("Ensure", o)
  BY DEF EnsureCreate
<1>2. CASE WriteFails(api[o] # Absent, Created(o), TRUE)
  <2>1. \A reported : WriteFails(api[o] # Absent, Created(o), reported) => dirty'
    BY WriteFailsQueues
  <2> QED BY <1>2, <2>1, Zenon DEF Outcome
<1>3. CASE /\ api[o] = Absent
           /\ \E newApi \in Created(o) : Commit(newApi, cr, FALSE, FALSE)
           /\ Continue(setStatus(m, "Pending"))
  <2>1. api' \in Created(o)
    BY <1>3 DEF Commit
  <2>2. /\ m \in Mem /\ m.spec = mem.spec /\ ~m.redo
        /\ m.found = IF mem.redo THEN mem.found ELSE Absent
        /\ m.st.kcUrl = mem.st.kcUrl /\ m.st.url = mem.st.url
    BY DEF TypeOK, PassOK, Mem
  <2>3. pc' = pc + 1 /\ mem' = setStatus(m, "Pending")
    BY <1>3 DEF Continue
  <2> HIDE DEF m
  <2>4. setStatus(m, "Pending").redo = m.redo /\ setStatus(m, "Pending").found = m.found
    BY <2>2 DEF setStatus, Mem
  <2>5. /\ mem'.spec = mem.spec /\ ~mem'.redo
        /\ mem'.found = IF mem.redo THEN mem.found ELSE Absent
        /\ mem'.st.kcUrl = mem.st.kcUrl /\ mem'.st.url = mem.st.url
    BY <2>2, <2>3, <2>4, setStatusUrls DEF StatusValues
  <2>6. Forward("Ensure", o)
    BY <1>1, <1>3, <2>1, <2>3, <2>5 DEF Forward, UrlOps, Writing
  <2> QED BY <2>6 DEF Outcome
<1> QED BY <1>2, <1>3 DEF EnsureCreate

LEMMA EnsureMatchOutcome ==
    ASSUME TypeOK, NEW o \in Objects, EnsureMatch(o) PROVE Outcome(o)
<1> DEFINE m == [mem EXCEPT !.found = IF o \in Routes THEN cache[o] ELSE Absent]
           health == check(o, cache[o])
           next == IF health = "Ready" THEN m ELSE setStatus(m, health)
<1>1. /\ At("Ensure", o) /\ cache[o] # Absent /\ api' = api /\ pc' = pc + 1
      /\ mem' = next /\ ~mem.redo
      /\ Fine(o, mem.spec, mem.st.kcUrl, mem.st.url, cache[o])
  BY DEF EnsureMatch, ReadOnly, apiServer, Continue, Fine
<1>2. /\ m \in Mem /\ m.spec = mem.spec /\ m.redo = mem.redo
      /\ o \in Routes => m.found = cache[o]
      /\ m.st.kcUrl = mem.st.kcUrl /\ m.st.url = mem.st.url
  BY FoundType DEF TypeOK, PassOK, Mem
<1>3. cache[o] \in Object(o)
  BY <1>1 DEF TypeOK, ClusterOK, IsStore
<1>4. health \in StatusValues
  BY <1>3 DEF check, Object, Conditions, StatusValues
<1> HIDE DEF m, health
<1>5. setStatus(m, health).redo = m.redo /\ setStatus(m, health).found = m.found
  BY <1>2 DEF setStatus, Mem
<1>6. /\ mem'.spec = mem.spec /\ ~mem'.redo
      /\ o \in Routes => mem'.found = cache[o]
      /\ mem'.st.kcUrl = mem.st.kcUrl /\ mem'.st.url = mem.st.url
  BY <1>1, <1>2, <1>4, <1>5, setStatusUrls
<1>7. Forward("Ensure", o)
  BY <1>1, <1>6 DEF Forward, UrlOps, Writing
<1> QED BY <1>7 DEF Outcome

LEMMA EnsureReplaceOutcome ==
    ASSUME TypeOK, NEW o \in Objects, EnsureReplace(o) PROVE Outcome(o)
<1>1. CASE WriteFails(api[o] = Absent, Deleted(o), TRUE)
  <2>1. \A reported : WriteFails(api[o] = Absent, Deleted(o), reported) => dirty'
    BY WriteFailsQueues
  <2> QED BY <1>1, <2>1, Zenon DEF Outcome
<1>2. CASE /\ api[o] # Absent
           /\ \E newApi \in Deleted(o) : Commit(newApi, cr, FALSE, FALSE)
           /\ mem' = [mem EXCEPT !.redo = TRUE,
                                 !.found = IF o \in Routes THEN cache[o] ELSE Absent]
           /\ UNCHANGED <<up, pc, fresh, budget>>
  <2>1. api' \in Deleted(o)
    BY <1>2 DEF Commit
  <2>2. At("Ensure", o)
    BY DEF EnsureReplace
  <2>3. Halfway(o)
    BY <1>2, <2>1, <2>2 DEF Halfway, TypeOK, PassOK, Mem
  <2> QED BY <2>3 DEF Outcome
<1> QED BY <1>1, <1>2 DEF EnsureReplace

LEMMA EnsureDeletedOutcome ==
    ASSUME TypeOK, NEW o \in Objects, EnsureDeleted(o) PROVE Outcome(o)
<1>1. At("Remove", o)
  BY DEF EnsureDeleted
<1>2. CASE WriteFails(api[o] = Absent, Deleted(o), TRUE)
  <2>1. \A reported : WriteFails(api[o] = Absent, Deleted(o), reported) => dirty'
    BY WriteFailsQueues
  <2> QED BY <1>2, <2>1, Zenon DEF Outcome
<1>3. CASE Continue(mem) /\ (\/ cache[o] = Absent /\ ReadOnly
                             \/ /\ api[o] # Absent
                                /\ \E newApi \in Deleted(o) : Commit(newApi, cr, FALSE, FALSE))
  <2>1. \/ api' = api /\ cache[o] = Absent
        \/ api[o] # Absent /\ api' \in Deleted(o)
    BY <1>3 DEF ReadOnly, apiServer, Commit
  <2>2. Forward("Remove", o)
    BY <1>1, <1>3, <2>1 DEF Continue, Forward, UrlOps, Writing
  <2> QED BY <2>2 DEF Outcome
<1> QED BY <1>2, <1>3 DEF EnsureDeleted

LEMMA PresentOutcome == ASSUME TypeOK, NEW o \in Objects, Present(o) PROVE Outcome(o)
<1>1. At("Present", o)
  BY DEF Present
<1>2. CASE WriteFails(api[o] # Absent, Created(o), o = "ca-certs")
  BY <1>2, WriteFailsQueues DEF Outcome
<1>3. CASE Continue(mem) /\ (\/ cache[o] # Absent /\ ReadOnly
                             \/ /\ api[o] = Absent
                                /\ \E newApi \in Created(o) : Commit(newApi, cr, FALSE, FALSE))
  <2>1. \/ api' = api /\ cache[o] # Absent
        \/ api[o] = Absent /\ api' \in Created(o)
    BY <1>3 DEF ReadOnly, apiServer, Commit
  <2>2. Forward("Present", o)
    BY <1>1, <1>3, <2>1 DEF Continue, Forward, UrlOps, Writing
  <2> QED BY <2>2 DEF Outcome
<1> QED BY <1>2, <1>3 DEF Present

LEMMA CheckRouteOutcome == ASSUME TypeOK, NEW o \in Objects, CheckRoute(o) PROVE Outcome(o)
<1>1. \A reported, f : Fail(api, reported, f) => dirty'
  BY FailQueues
<1>2. \/ Continue(mem) /\ ReadOnly
      \/ Fail(api, FALSE, 0) \/ Fail(api, TRUE, 0) \/ Fail(api, TRUE, 1)
  BY DEF CheckRoute
<1>3. CASE Continue(mem) /\ ReadOnly
  <2>1. Forward("CheckRoute", o)
    BY <1>3, ReadOnlyApi DEF CheckRoute, Continue, Forward, UrlOps, Writing
  <2> QED BY <2>1 DEF Outcome
<1> QED BY <1>1, <1>2, <1>3, Zenon DEF Outcome

LEMMA LearnUrlLearns ==
    ASSUME TypeOK, NEW o \in Objects, NEW url, LearnUrl(o, url)
    PROVE  /\ api' = api /\ pc' = pc + 1 /\ mem'.spec = mem.spec /\ mem'.redo = mem.redo
           /\ Learns(o, url)
<1>1. api' = api /\ pc' = pc + 1
  BY DEF LearnUrl, Continue, ReadOnly, apiServer
<1>2. CASE o \in OfKeycloak
  <2>1. mem' = [mem EXCEPT !.st.kcUrl = url, !.found = Absent]
    BY <1>2 DEF LearnUrl, Continue, OfKeycloak
  <2> QED BY <1>1, <1>2, <2>1 DEF Learns, TypeOK, PassOK, Mem, Status
<1>3. CASE o \notin OfKeycloak
  <2>1. mem' = [mem EXCEPT !.st.url = url, !.found = Absent]
    BY <1>3 DEF LearnUrl, Continue, OfKeycloak
  <2> QED BY <1>1, <1>3, <2>1 DEF Learns, TypeOK, PassOK, Mem, Status
<1> QED BY <1>2, <1>3

LEMMA NodePortOutcome == ASSUME TypeOK, NEW o \in Objects, NodePort(o) PROVE Outcome(o)
<1>1. CASE Fail(api, FALSE, 0)
  <2>1. \A reported : Fail(api, reported, 0) => dirty'
    BY FailQueues
  <2> QED BY <1>1, <2>1, Zenon DEF Outcome
<1>2. CASE Wait
  BY <1>2, WaitQueues DEF Outcome
<1>3. CASE cache[o] # Absent /\ LearnUrl(o, <<"https", mem.spec.nodeHost, cache[o].port>>)
  <2>1. Forward("NodePort", o)
    BY <1>3, LearnUrlLearns DEF NodePort, Forward, UrlOps, Writing
  <2> QED BY <2>1 DEF Outcome
<1> QED BY <1>1, <1>2, <1>3 DEF NodePort

LEMMA RouteUrlOutcome == ASSUME TypeOK, NEW o \in Objects, RouteUrl(o) PROVE Outcome(o)
<1>1. CASE Wait
  BY <1>1, WaitQueues DEF Outcome
<1>2. CASE getRouteUrl(o, mem.found) # NoUrl /\ LearnUrl(o, getRouteUrl(o, mem.found))
  <2>1. mem.found # Absent
    BY <1>2 DEF getRouteUrl
  <2>2. Forward("RouteUrl", o)
    BY <1>2, <2>1, LearnUrlLearns DEF RouteUrl, Forward, UrlOps, Writing
  <2> QED BY <2>2 DEF Outcome
<1> QED BY <1>1, <1>2 DEF RouteUrl

LEMMA ExternalOutcome == ASSUME TypeOK, NEW o \in Objects, External(o) PROVE Outcome(o)
<1>1. CASE Panic
  BY <1>1 DEF Panic, Outcome
<1>2. CASE LearnUrl(o, mem.spec.kcExt)
  <2>1. Forward("External", o)
    BY <1>2, LearnUrlLearns DEF External, Forward, UrlOps, Writing
  <2> QED BY <2>1 DEF Outcome
<1> QED BY <1>1, <1>2 DEF External

LEMMA StepOutcome == ASSUME TypeOK, NEW o \in Objects, Step(o) PROVE Outcome(o)
<1>1. CASE GetFails(o)
  <2>1. \A reported, f : Fail(api, reported, f) => dirty'
    BY FailQueues
  <2> QED BY <1>1, <2>1 DEF GetFails, Outcome
<1>2. CASE LoadBalancer(o)
  BY <1>2, WaitQueues DEF LoadBalancer, Panic, Outcome
<1>3. CASE NoUrlWait(o)
  BY <1>3, WaitQueues DEF NoUrlWait, Outcome
<1> QED BY <1>1, <1>2, <1>3, EnsureCreateOutcome, EnsureMatchOutcome, EnsureReplaceOutcome,
           EnsureDeletedOutcome, PresentOutcome, CheckRouteOutcome, NodePortOutcome,
           RouteUrlOutcome, ExternalOutcome DEF Step

----------------------------------------------------------------------------
(* How an action reaches the API server and the informers.                 *)

\* It commits, and says so when it changes the resource; or it only reads.
Commits ==
    \/ \E newApi, newCr, crChanged, requeue :
         Commit(newApi, newCr, crChanged, requeue) /\ (newCr # cr => crChanged)
    \/ UNCHANGED <<cr, api, crCache, crFresh, cache, dirty>>

LEMMA KeptCommits ==
    ASSUME NEW newApi, NEW crChanged, NEW requeue, Commit(newApi, cr, crChanged, requeue)
    PROVE  Commits
BY Zenon DEF Commits

LEMMA WriteStatusCommits ==
    ASSUME TypeOK, NEW newApi, NEW m, NEW current, NEW requeue, NEW f,
           WriteStatus(newApi, m, current, requeue, f)
    PROVE  Commits
<1>1. CASE \E crChanged \in {m.st # cr.st, m.st # cr.st \/ m.touched} :
             Commit(newApi, [cr EXCEPT !.st = m.st], crChanged, requeue)
  <2>1. PICK crChanged \in {m.st # cr.st, m.st # cr.st \/ m.touched} :
          Commit(newApi, [cr EXCEPT !.st = m.st], crChanged, requeue)
    BY <1>1
  <2>2. [cr EXCEPT !.st = m.st] # cr => crChanged
    <3>1. SUFFICES ASSUME m.st = cr.st PROVE [cr EXCEPT !.st = m.st] = cr
      BY <2>1
    <3> QED BY <3>1 DEF TypeOK, ClusterOK, Horreum
  <2> QED BY <2>1, <2>2, Zenon DEF Commits
<1>2. CASE Commit(newApi, cr, FALSE, requeue)
  BY <1>2, KeptCommits
<1> QED BY <1>1, <1>2 DEF WriteStatus

LEMMA FailCommits ==
    ASSUME TypeOK, NEW newApi, NEW reported, NEW f, Fail(newApi, reported, f)
    PROVE  Commits
<1>1. \/ WriteStatus(newApi, setStatus(mem, "Error"), fresh, TRUE, f)
      \/ Commit(newApi, cr, FALSE, TRUE)
  BY Zenon DEF Fail
<1>2. \A m, current : WriteStatus(newApi, m, current, TRUE, f) => Commits
  BY WriteStatusCommits
<1>3. \A crChanged, requeue : Commit(newApi, cr, crChanged, requeue) => Commits
  BY KeptCommits
<1> QED BY <1>1, <1>2, <1>3, Zenon

LEMMA WaitCommits == ASSUME TypeOK, Wait PROVE Commits
BY WriteStatusCommits DEF Wait

LEMMA WriteFailsCommits ==
    ASSUME TypeOK, NEW refused, NEW outcomes, NEW reported,
           WriteFails(refused, outcomes, reported)
    PROVE  Commits
BY FailCommits DEF WriteFails

LEMMA ReadOnlyCommits == ASSUME ReadOnly PROVE Commits
BY DEF ReadOnly, Commits, apiServer, informers

LEMMA StepCommits == ASSUME TypeOK, NEW o \in Objects, Step(o) PROVE Commits
<1>1. \A newApi, reported, f : Fail(newApi, reported, f) => Commits
  BY FailCommits
<1>2. \A refused, outcomes, reported : WriteFails(refused, outcomes, reported) => Commits
  BY WriteFailsCommits
<1>3. \A newApi : Commit(newApi, cr, FALSE, FALSE) => Commits
  BY KeptCommits
<1>4. CASE GetFails(o)
  <2>1. \E reported : Fail(api, reported, 1)
    BY <1>4, Zenon DEF GetFails
  <2> QED BY <1>1, <2>1, Zenon
<1>5. CASE EnsureCreate(o)
  <2>1. \/ \E newApi : Commit(newApi, cr, FALSE, FALSE)
        \/ WriteFails(api[o] # Absent, Created(o), TRUE)
    BY <1>5, Zenon DEF EnsureCreate
  <2> QED BY <1>2, <1>3, <2>1, Zenon
<1>6. CASE EnsureMatch(o)
  BY <1>6, ReadOnlyCommits DEF EnsureMatch
<1>7. CASE EnsureReplace(o)
  <2>1. \/ \E newApi : Commit(newApi, cr, FALSE, FALSE)
        \/ WriteFails(api[o] = Absent, Deleted(o), TRUE)
    BY <1>7, Zenon DEF EnsureReplace
  <2> QED BY <1>2, <1>3, <2>1, Zenon
<1>8. CASE EnsureDeleted(o)
  <2>1. \/ ReadOnly
        \/ \E newApi : Commit(newApi, cr, FALSE, FALSE)
        \/ WriteFails(api[o] = Absent, Deleted(o), TRUE)
    BY <1>8, Zenon DEF EnsureDeleted
  <2> QED BY <1>2, <1>3, <2>1, ReadOnlyCommits, Zenon
<1>9. CASE Present(o)
  <2>1. \/ ReadOnly
        \/ \E newApi : Commit(newApi, cr, FALSE, FALSE)
        \/ \E reported : WriteFails(api[o] # Absent, Created(o), reported)
    BY <1>9, Zenon DEF Present
  <2> QED BY <1>2, <1>3, <2>1, ReadOnlyCommits, Zenon
<1>10. CASE CheckRoute(o)
  <2>1. ReadOnly \/ \E reported, f : Fail(api, reported, f)
    BY <1>10, Zenon DEF CheckRoute
  <2> QED BY <1>1, <2>1, ReadOnlyCommits, Zenon
<1>11. CASE NodePort(o)
  <2>1. ReadOnly \/ Wait \/ \E reported, f : Fail(api, reported, f)
    BY <1>11, Zenon DEF NodePort, LearnUrl
  <2> QED BY <1>1, <2>1, ReadOnlyCommits, WaitCommits, Zenon
<1>12. CASE RouteUrl(o)
  BY <1>12, ReadOnlyCommits, WaitCommits DEF RouteUrl, LearnUrl
<1>13. CASE LoadBalancer(o)
  BY <1>13, WaitCommits DEF LoadBalancer, Panic, apiServer, informers, Commits
<1>14. CASE NoUrlWait(o)
  BY <1>14, WaitCommits DEF NoUrlWait
<1>15. CASE External(o)
  BY <1>15, ReadOnlyCommits DEF External, LearnUrl, Panic, apiServer, informers, Commits
<1> QED BY <1>4, <1>5, <1>6, <1>7, <1>8, <1>9, <1>10, <1>11, <1>12, <1>13, <1>14, <1>15 DEF Step

\* An action outside the passes that leaves the queue to the watches.
Elsewhere == Commits /\ UNCHANGED <<up, pc, mem>>

LEMMA ClusterCommits == ASSUME TypeOK, Cluster PROVE Elsewhere
<1>1. \E newApi : Commit(newApi, cr, FALSE, FALSE) /\ UNCHANGED pass
  BY Zenon DEF Cluster, BecomeOk, Terminate, Change, CollectGarbage, pass
<1> QED BY <1>1, KeptCommits DEF Elsewhere, pass

LEMMA TroubleCommits == ASSUME TypeOK, Trouble PROVE Elsewhere \/ Crash
<1>1. CASE \E o \in Objects : BecomeBad(o) \/ DeleteObject(o)
  <2>1. \E newApi : Commit(newApi, cr, FALSE, FALSE) /\ UNCHANGED pass
    BY <1>1, Zenon DEF BecomeBad, DeleteObject, Change, pass
  <2> QED BY <2>1, KeptCommits DEF Elsewhere, pass
<1>2. CASE (\E s \in Specs : EditSpec(s)) \/ DeleteHorreum
  <2>1. (\E newCr : Commit(api, newCr, TRUE, FALSE)) /\ UNCHANGED <<up, pc, mem>>
    BY <1>2, Zenon DEF EditSpec, DeleteHorreum
  <2>2. Commits
    BY <2>1, Zenon DEF Commits
  <2> QED BY <2>1, <2>2 DEF Elsewhere
<1> QED BY <1>1, <1>2 DEF Trouble

----------------------------------------------------------------------------
(* What is found under a name is what the user gave or the operator made.  *)

LEMMA AtProgram ==
    ASSUME PassOK, NEW op, NEW o, At(op, o)
    PROVE  /\ mem.spec \in CrSpec
           /\ <<op, o>> \in SecretSet \cup PostgresSet(mem.spec) \cup KeycloakSet(mem.spec)
                            \cup AppSet(mem.spec)
<1>1. mem.spec \in CrSpec
  BY SpecsAssumption DEF PassOK, Mem
<1>2. /\ Program(mem.spec) \in Seq(StepSet(mem.spec))
      /\ ToSet(Program(mem.spec)) = SecretSet \cup PostgresSet(mem.spec)
                                    \cup KeycloakSet(mem.spec) \cup AppSet(mem.spec)
  BY ProgramPart DEF Part
<1>3. pc \in 1..Len(Program(mem.spec)) /\ Program(mem.spec)[pc] = <<op, o>>
  BY AtStep
<1>4. DOMAIN Program(mem.spec) = 1..Len(Program(mem.spec))
  BY <1>2
<1>5. <<op, o>> \in ToSet(Program(mem.spec))
  BY <1>3, <1>4 DEF ToSet
<1> QED BY <1>1, <1>2, <1>5

\* Routes are made only where the cluster serves them.
LEMMA RouteSteps ==
    ASSUME PassOK, NEW op \in {"Ensure", "Present"}, NEW o \in Routes, At(op, o)
    PROVE  RoutesAvailable
<1>1. <<op, o>> \notin SecretSet
  BY DEF SecretSet, Certificates, CertSecrets, Credentials, Routes
<1>2. <<op, o>> \notin PostgresSet(mem.spec)
  BY DEF PostgresSet, Routes
<1>3. \A t : \A svc \in Services, rt \in Routes :
        <<op, o>> \in UrlSet(t, svc, rt) => RoutesAvailable
  BY DEF UrlSet
<1>4. <<op, o>> \in KeycloakSet(mem.spec) \cup AppSet(mem.spec)
  BY <1>1, <1>2, AtProgram
<1>5. /\ "keycloak-svc" \in Services /\ "app-svc" \in Services
      /\ "keycloak-route" \in Routes /\ "app-route" \in Routes
  BY DEF Services, Routes
<1>6. <<op, o>> \in UrlSet(mem.spec.kcSvc, "keycloak-svc", "keycloak-route")
                    \cup UrlSet(mem.spec.svc, "app-svc", "app-route")
  BY <1>4 DEF KeycloakSet, AppSet, Routes
<1> QED BY <1>3, <1>5, <1>6

LEMMA GivenType ==
    ASSUME NEW o \in DOMAIN GivenSecrets
    PROVE  /\ o \in Secrets /\ o \in Kept /\ o \in Objects
           /\ Given(o) \in Object(o) /\ Given(o) # Absent
<1>1. o \in Secrets /\ o \in Kept /\ o \in Objects
  BY GivenAssumption DEF Secrets, Kept, Objects
<1>2. Given(o) \in Object(o)
  <2>1. SpecOf(o) = SecretSpec
    BY <1>1 DEF SpecOf, Secrets, CertSecrets, Credentials, ConfigMaps, Services, Routes, Pods
  <2>2. GivenSecrets[o] \in Conditions
    BY GivenAssumption
  <2> QED BY <2>1, <2>2 DEF Given, Object, SecretSpec
<1> QED BY <1>1, <1>2, AbsentAssumption

\* A change of the API server made outside the passes: an object of the
\* operator changes its condition, a terminating pod goes, or somebody deletes.
Drifts(o) ==
    \/ api'[o] = api[o]
    \/ /\ api[o] # Absent /\ api[o].owned
       /\ \/ /\ api'[o] # Absent /\ api'[o].spec = api[o].spec /\ api'[o].owned
             /\ api'[o].dying = api[o].dying /\ api'[o].port = api[o].port
             /\ o \notin Secrets
          \/ api[o].dying /\ api'[o] = Absent
          \/ /\ DeleteObject(o) \/ ~cr.live
             /\ api'[o] # Absent =>
                  /\ api'[o].spec = api[o].spec /\ api'[o].owned /\ api'[o].dying
                  /\ o \notin Secrets

LEMMA OwnedWhenThere ==
    ASSUME Views, NEW o \in Objects \ DOMAIN GivenSecrets
    PROVE  /\ api[o] # Absent => api[o].owned
           /\ cache[o] # Absent => cache[o].owned
BY DEF Views, Proper, Authored

LEMMA ChangeDrifts ==
    ASSUME TypeOK, Views, NEW o \in Pods \cup Routes \cup Services, api[o] # Absent,
           NEW obj, Change(o, obj),
           \/ \E c \in Conditions : obj = [api[o] EXCEPT !.cond = c]
           \/ api[o].dying /\ obj = Absent
    PROVE  \A x \in Objects : Drifts(x)
<1>1. o \in Objects \ DOMAIN GivenSecrets /\ o \notin Secrets
  <2>1. o \in Objects /\ o \notin Secrets
    BY DEF Objects, Pods, Routes, Services, Secrets, CertSecrets, Credentials
  <2> QED BY <2>1, GivenType
<1>2. api' = [api EXCEPT ![o] = obj]
  BY DEF Change, Commit
<1>3. api = [x \in Objects |-> api[x]] /\ api[o] \in Object(o)
  BY <1>1 DEF TypeOK, ClusterOK, IsStore
<1>4. api'[o] = obj /\ \A x \in Objects \ {o} : api'[x] = api[x]
  BY <1>1, <1>2, <1>3
<1>5. api[o].owned
  BY <1>1, OwnedWhenThere
<1>6. Drifts(o)
  <2>1. CASE api[o].dying /\ obj = Absent
    BY <1>4, <1>5, <2>1 DEF Drifts
  <2>2. ASSUME NEW c \in Conditions, obj = [api[o] EXCEPT !.cond = c] PROVE Drifts(o)
    <3>1. /\ obj \in Object(o) /\ obj.spec = api[o].spec /\ obj.owned = api[o].owned
          /\ obj.dying = api[o].dying /\ obj.port = api[o].port
      BY <1>3, <2>2 DEF Object
    <3>2. obj # Absent
      BY <1>1, <3>1, AbsentAssumption
    <3> QED BY <1>1, <1>4, <1>5, <3>1, <3>2 DEF Drifts
  <2> QED BY <2>1, <2>2
<1> QED BY <1>4, <1>6 DEF Drifts

LEMMA CollectDrifts ==
    ASSUME TypeOK, Views, CollectGarbage PROVE \A x \in Objects : Drifts(x)
<1> TAKE x \in Objects
<1>1. api'[x] = IF Owned(api[x]) THEN Absent ELSE api[x]
  BY DEF CollectGarbage, Commit
<1> QED BY <1>1 DEF Drifts, Owned, CollectGarbage

LEMMA ClusterDrifts == ASSUME TypeOK, Views, Cluster PROVE \A x \in Objects : Drifts(x)
<1>1. CASE CollectGarbage
  BY <1>1, CollectDrifts
<1>2. ASSUME NEW o \in Objects, BecomeOk(o) PROVE \A x \in Objects : Drifts(x)
  <2>1. "ok" \in Conditions
    BY DEF Conditions
  <2> QED BY <1>2, <2>1, ChangeDrifts DEF BecomeOk
<1>3. ASSUME NEW o \in Objects, Terminate(o) PROVE \A x \in Objects : Drifts(x)
  BY <1>3, ChangeDrifts DEF Terminate
<1> QED BY <1>1, <1>2, <1>3 DEF Cluster

LEMMA DeleteDrifts ==
    ASSUME TypeOK, Views, NEW o \in Objects, DeleteObject(o)
    PROVE  \A x \in Objects : Drifts(x)
<1>1. api[o] # Absent /\ api[o].owned /\ api' \in Deleted(o)
  BY DEF DeleteObject, Owned, Commit
<1>2. api = [x \in Objects |-> api[x]] /\ api[o] \in Object(o)
  BY <1>1 DEF TypeOK, ClusterOK, IsStore
<1>3. \/ api' = [api EXCEPT ![o] = Absent]
      \/ api' = [api EXCEPT ![o].dying = TRUE] /\ o \in Pods
  BY <1>1 DEF Deleted
<1>4. /\ \A x \in Objects \ {o} : api'[x] = api[x]
      /\ api'[o] = Absent \/ (api'[o] = [api[o] EXCEPT !.dying = TRUE] /\ o \in Pods)
  BY <1>2, <1>3
<1>5. api'[o] # Absent =>
        /\ api'[o].spec = api[o].spec /\ api'[o].owned /\ api'[o].dying
        /\ o \notin Secrets
  <2>1. \A p \in Pods : p \notin Secrets
    BY DEF Pods, Secrets, CertSecrets, Credentials
  <2> QED BY <1>1, <1>2, <1>4, <2>1 DEF Object
<1> QED BY <1>1, <1>4, <1>5 DEF Drifts

LEMMA TroubleDrifts == ASSUME TypeOK, Views, Trouble PROVE \A x \in Objects : Drifts(x)
<1>1. ASSUME NEW o \in Objects, BecomeBad(o) PROVE \A x \in Objects : Drifts(x)
  <2>1. /\ o \in Pods \cup Routes \cup Services /\ api[o] # Absent
        /\ \E c \in Conditions : Change(o, [api[o] EXCEPT !.cond = c])
    BY <1>1 DEF BecomeBad, Conditions
  <2> QED BY <2>1, ChangeDrifts
<1>2. CASE (\E s \in Specs : EditSpec(s)) \/ DeleteHorreum \/ Crash
  <2>1. api' = api
    BY <1>2 DEF EditSpec, DeleteHorreum, Crash, Commit, apiServer
  <2> QED BY <2>1 DEF Drifts
<1> QED BY <1>1, <1>2, DeleteDrifts DEF Trouble

\* What a step of a pass does to the API server.
LEMMA CreatedObject ==
    ASSUME TypeOK, NEW o \in Objects, api' \in Created(o)
    PROVE  /\ \A x \in Objects \ {o} : api'[x] = api[x]
           /\ api'[o] # Absent /\ api'[o].owned /\ ~api'[o].dying
           /\ api'[o].spec = Desired(o, mem.spec, mem.st.kcUrl, mem.st.url)
<1> DEFINE want == Desired(o, mem.spec, mem.st.kcUrl, mem.st.url)
<1>1. PICK p \in PortsFor(want) : api' = [api EXCEPT ![o] = NewObject(o, want, p)]
  BY DEF Created
<1>2. api = [x \in Objects |-> api[x]]
  BY DEF TypeOK, ClusterOK, IsStore
<1>3. api'[o] = NewObject(o, want, p) /\ \A x \in Objects \ {o} : api'[x] = api[x]
  BY <1>1, <1>2
<1>4. /\ NewObject(o, want, p).owned /\ ~NewObject(o, want, p).dying
      /\ NewObject(o, want, p).spec = want
  BY DEF NewObject
<1>5. api'[o] # Absent
  BY CreatedThere
<1> QED BY <1>3, <1>4, <1>5

LEMMA DeletedObject ==
    ASSUME TypeOK, NEW o \in Objects, api[o] # Absent, api' \in Deleted(o)
    PROVE  /\ \A x \in Objects \ {o} : api'[x] = api[x]
           /\ \/ api'[o] = Absent
              \/ /\ api'[o].dying /\ api'[o].spec = api[o].spec
                 /\ api'[o].owned = api[o].owned /\ api'[o].port = api[o].port
<1>1. api = [x \in Objects |-> api[x]] /\ api[o] \in Object(o)
  BY DEF TypeOK, ClusterOK, IsStore
<1>2. \/ api' = [api EXCEPT ![o] = Absent]
      \/ api' = [api EXCEPT ![o].dying = TRUE]
  BY DEF Deleted
<1>3. /\ \A x \in Objects \ {o} : api'[x] = api[x]
      /\ api'[o] = Absent \/ api'[o] = [api[o] EXCEPT !.dying = TRUE]
  BY <1>1, <1>2
<1> QED BY <1>1, <1>3 DEF Object

LEMMA StepProper ==
    ASSUME TypeOK, Views, NEW o \in Objects, Step(o)
    PROVE  \A x \in Objects : Proper(x, api'[x])
<1>1. Writes(o) /\ Keeps(api')
  BY StepMoves, StepKeeps DEF Moves
<1>2. \A x \in Objects : Proper(x, api[x])
  BY DEF Views
<1>3. CASE api' = api
  BY <1>2, <1>3
<1>4. CASE /\ At("Ensure", o) \/ At("Present", o)
           /\ api[o] = Absent /\ api' \in Created(o)
  <2>1. o \notin DOMAIN GivenSecrets
    BY <1>2, <1>4, GivenType DEF Proper
  <2>2. /\ mem.spec \in Specs /\ mem.st.kcUrl \in Url /\ mem.st.url \in Url
        /\ o \in Routes => RoutesAvailable
    BY <1>4, PassUrls, RouteSteps DEF TypeOK, PassOK, Mem
  <2>3. Authored(o, api'[o])
    BY <1>4, <2>2, CreatedObject DEF Authored
  <2> QED BY <1>2, <1>4, <2>1, <2>3, CreatedObject DEF Proper
<1>5. CASE api[o] # Absent /\ api' \in Deleted(o)
  <2>1. CASE o \in DOMAIN GivenSecrets
    BY <1>1, <1>2, <1>5, <2>1, GivenType, DeletedObject DEF Keeps
  <2>2. CASE o \notin DOMAIN GivenSecrets
    <3>1. Authored(o, api[o])
      BY <1>2, <1>5, <2>2 DEF Proper
    <3>2. api'[o] = Absent \/ Authored(o, api'[o])
      BY <1>5, <3>1, DeletedObject DEF Authored
    <3> QED BY <1>2, <1>5, <2>2, <3>2, DeletedObject DEF Proper
  <2> QED BY <2>1, <2>2
<1> QED BY <1>1, <1>3, <1>4, <1>5 DEF Writes

LEMMA DriftProper ==
    ASSUME Views, NEW x \in Objects, Drifts(x) PROVE Proper(x, api'[x])
<1>1. Proper(x, api[x])
  BY DEF Views
<1>2. CASE api'[x] = api[x]
  BY <1>1, <1>2
<1>3. CASE /\ api[x] # Absent /\ api[x].owned
           /\ api'[x] # Absent => api'[x].spec = api[x].spec /\ api'[x].owned
  <2>1. x \notin DOMAIN GivenSecrets
    BY <1>1, <1>3 DEF Proper, Given
  <2>2. Authored(x, api[x])
    BY <1>1, <1>3, <2>1 DEF Proper
  <2>3. api'[x] = Absent \/ Authored(x, api'[x])
    BY <1>3, <2>2 DEF Authored
  <2> QED BY <2>1, <2>3 DEF Proper
<1> QED BY <1>2, <1>3 DEF Drifts

\* The other actions leave the API server as it is.
LEMMA IdleApi ==
    ASSUME TypeOK, Begin \/ Finish \/ Restart \/ Informers PROVE api' = api
<1>1. \A m, current, requeue, f : WriteStatus(api, m, current, requeue, f) => api' = api
  BY Zenon DEF WriteStatus, Commit
<1>2. CASE Begin
  BY <1>1, <1>2 DEF Begin, apiServer
<1>3. CASE Finish
  BY <1>1, <1>3 DEF Finish
<1>4. CASE Restart \/ Informers
  BY <1>4 DEF Restart, Informers, Sync, SyncHorreum, Resync, apiServer
<1> QED BY <1>2, <1>3, <1>4

LEMMA NextProper ==
    ASSUME TypeOK, Views, Next
    PROVE  \A x \in Objects : Proper(x, api'[x]) /\ Proper(x, cache'[x])
<1>1. \A x \in Objects : Proper(x, api'[x])
  <2>1. CASE \E o \in Objects : Step(o)
    BY <2>1, StepProper
  <2>2. CASE Begin \/ Finish \/ Restart \/ Informers
    BY <2>2, IdleApi DEF Views
  <2>3. CASE Cluster \/ Trouble
    BY <2>3, ClusterDrifts, TroubleDrifts, DriftProper
  <2> QED BY <2>1, <2>2, <2>3 DEF Next, Operator
<1>2. \A x \in Objects : cache'[x] \in {cache[x], api'[x]}
  BY NextShape DEF Tame
<1> QED BY <1>1, <1>2 DEF Views

----------------------------------------------------------------------------
(* The caches and the copy of the resource are what they claim to be.      *)

Tracks ==
    /\ crFresh => crCache = cr
    /\ "Horreum" \notin LaggingKinds => crFresh
    /\ \A o \in Objects : ~Lags(o) => cache[o] = api[o]

LEMMA CommitsTracks == ASSUME Tracks, Commits PROVE Tracks'
<1>1. CASE UNCHANGED <<cr, api, crCache, crFresh, cache, dirty>>
  BY <1>1 DEF Tracks, Lags
<1>2. ASSUME NEW newApi, NEW newCr, NEW crChanged, NEW requeue,
             Commit(newApi, newCr, crChanged, requeue), newCr # cr => crChanged
      PROVE  Tracks'
  <2>1. \A o \in Objects : ~Lags(o) => cache'[o] = api'[o]
    BY <1>2 DEF Commit
  <2>2. "Horreum" \notin LaggingKinds => crFresh' /\ crCache' = cr'
    BY <1>2 DEF Commit
  <2>3. "Horreum" \in LaggingKinds =>
          (crFresh' => crFresh /\ ~crChanged /\ crCache' = crCache /\ cr' = newCr)
    BY <1>2 DEF Commit
  <2>4. crFresh' => crCache' = cr'
    BY <1>2, <2>2, <2>3 DEF Tracks
  <2> QED BY <2>1, <2>2, <2>4 DEF Tracks, Lags
<1> QED BY <1>1, <1>2 DEF Commits

LEMMA SameKind == ASSUME NEW k \in Kinds, NEW o \in OfKind(k) PROVE KindOf(o) = k
BY DEF KindOf, OfKind, Kinds, Secrets, CertSecrets, Credentials, ConfigMaps, Pods, Services, Routes

LEMMA NextTracks == ASSUME TypeOK, Tracks, Next PROVE Tracks'
<1>1. CASE \E o \in Objects : Step(o)
  BY <1>1, StepCommits, CommitsTracks
<1>2. CASE Finish
  BY <1>2, WriteStatusCommits, CommitsTracks DEF Finish
<1>3. CASE Begin
  <2>1. \/ \E m : WriteStatus(api, m, crFresh, TRUE, 0)
        \/ UNCHANGED <<cr, api, crCache, crFresh, cache>>
    BY <1>3, Zenon DEF Begin, apiServer, informers
  <2>2. CASE UNCHANGED <<cr, api, crCache, crFresh, cache>>
    BY <2>2 DEF Tracks, Lags
  <2>3. CASE \E m : WriteStatus(api, m, crFresh, TRUE, 0)
    BY <2>3, WriteStatusCommits, CommitsTracks
  <2> QED BY <2>1, <2>2, <2>3
<1>4. CASE Restart
  BY <1>4 DEF Restart, Tracks, apiServer
<1>5. ASSUME NEW k \in Kinds, Sync(k) PROVE Tracks'
  <2>1. /\ UNCHANGED <<cr, api, crCache, crFresh>>
        /\ \A o \in Objects : cache'[o] = IF o \in OfKind(k) THEN api[o] ELSE cache[o]
    BY <1>5 DEF Sync, apiServer
  <2> QED BY <2>1 DEF Tracks, Lags
<1>6. CASE SyncHorreum \/ Resync
  BY <1>6 DEF SyncHorreum, Resync, Tracks, Lags, apiServer, informers
<1>7. CASE Cluster
  BY <1>7, ClusterCommits, CommitsTracks DEF Elsewhere
<1>8. CASE Trouble
  <2>1. CASE Crash
    BY <2>1 DEF Crash, Tracks, Lags, apiServer, informers
  <2>2. CASE Elsewhere
    BY <2>2, CommitsTracks DEF Elsewhere
  <2> QED BY <1>8, <2>1, <2>2, TroubleCommits
<1> QED BY <1>1, <1>2, <1>3, <1>4, <1>5, <1>6, <1>7, <1>8 DEF Next, Operator, Informers

----------------------------------------------------------------------------
(* Nothing the operator sees changes without the request being queued.     *)

LEMMA ProperNoticed ==
    ASSUME NEW x \in Objects, NEW f, NEW g, Proper(x, f[x]), Proper(x, g[x]), f[x] # g[x]
    PROVE  Noticed(x, f, g)
<1>1. x \notin DOMAIN GivenSecrets
  BY DEF Proper
<1>2. (f[x] = Absent \/ f[x].owned) /\ (g[x] = Absent \/ g[x].owned)
  BY <1>1 DEF Proper, Authored
<1> QED BY <1>2 DEF Noticed, Owned

SameSight == cr' = cr /\ \A o \in Objects : cache'[o] = cache[o]

LEMMA CommitsSame ==
    ASSUME Views, \A x \in Objects : Proper(x, api'[x]), Commits, Tranquil', up' = up
    PROVE  Tranquil /\ SameSight
<1>1. CASE UNCHANGED <<cr, api, crCache, crFresh, cache, dirty>>
  BY <1>1 DEF Tranquil, SameSight
<1>2. ASSUME NEW newApi, NEW newCr, NEW crChanged, NEW requeue,
             Commit(newApi, newCr, crChanged, requeue), newCr # cr => crChanged
      PROVE  Tranquil /\ SameSight
  <2>1. /\ cr' = newCr /\ api' = newApi
        /\ \A o \in Objects : cache'[o] = IF Lags(o) THEN cache[o] ELSE newApi[o]
    BY <1>2 DEF Commit
  <2>2. /\ ~dirty /\ ("Horreum" \notin LaggingKinds => ~crChanged)
        /\ \A o \in Objects : ~Lags(o) => ~Noticed(o, api, newApi)
    <3>1. ~dirty'
      BY DEF Tranquil
    <3>2. dirty' = (\/ dirty \/ requeue
                    \/ crChanged /\ ~("Horreum" \in LaggingKinds)
                    \/ \E o \in Objects : ~Lags(o) /\ Noticed(o, api, newApi))
      BY <1>2, Zenon DEF Commit
    <3> QED BY <3>1, <3>2, Zenon
  <2>3. "Horreum" \in LaggingKinds => crFresh /\ ~crChanged
    <3>1. crFresh'
      BY DEF Tranquil
    <3>2. crFresh' = (~("Horreum" \in LaggingKinds) \/ (crFresh /\ ~crChanged))
      BY <1>2, Zenon DEF Commit
    <3> QED BY <3>1, <3>2, Zenon
  <2>4. cr' = cr /\ crFresh
    BY <1>2, <2>1, <2>2, <2>3 DEF Views
  <2>5. ASSUME NEW o \in Objects PROVE cache'[o] = cache[o]
    <3>1. ~Lags(o) => api[o] = newApi[o]
      BY <2>1, <2>2, ProperNoticed DEF Views
    <3> QED BY <2>1, <3>1 DEF Views
  <2> QED BY <2>2, <2>4, <2>5 DEF Tranquil, SameSight
<1> QED BY <1>1, <1>2, Zenon DEF Commits

LEMMA StepUp == ASSUME TypeOK, NEW o \in Objects, Step(o), up' PROVE up' = up
BY StepMoves DEF Moves, TypeOK, PassOK

LEMMA RestUndisturbed ==
    ASSUME TypeOK, Views, Next, Tranquil'
    PROVE  \/ Begin
           \/ /\ Tranquil /\ SameSight
              /\ (\E o \in Objects : Step(o)) \/ Finish \/ ((Cluster \/ Trouble) /\ Elsewhere)
<1>1. \A x \in Objects : Proper(x, api'[x])
  BY NextProper
<1>2. up' /\ ~dirty'
  BY DEF Tranquil
<1>3. ASSUME NEW o \in Objects, Step(o) PROVE Tranquil /\ SameSight
  <2>1. up' = up
    BY <1>2, <1>3, StepUp
  <2> QED BY <1>1, <1>3, <2>1, StepCommits, CommitsSame
<1>4. ASSUME Finish PROVE Tranquil /\ SameSight
  <2>1. Commits /\ up' = up
    BY <1>4, WriteStatusCommits DEF Finish, EndPass
  <2> QED BY <1>1, <2>1, CommitsSame
<1>5. ~Restart
  BY <1>2 DEF Restart, Tranquil, apiServer
<1>6. ASSUME NEW k \in Kinds, Sync(k) PROVE FALSE
  <2>1. PICK o \in OfKind(k) : cache[o] # api[o]
    BY <1>6 DEF Sync
  <2>2. o \in Objects
    BY DEF OfKind, Kinds, Objects
  <2>3. Noticed(o, cache, api)
    BY <2>1, <2>2, ProperNoticed DEF Views
  <2>4. dirty' = (dirty \/ \E x \in OfKind(k) : Noticed(x, cache, api))
    BY <1>6 DEF Sync
  <2> QED BY <1>2, <2>3, <2>4, Zenon
<1>7. ~SyncHorreum /\ ~Resync
  BY <1>2 DEF SyncHorreum, Resync
<1>8. ASSUME Cluster PROVE Elsewhere /\ Tranquil /\ SameSight
  BY <1>1, <1>8, ClusterCommits, CommitsSame DEF Elsewhere
<1>9. ASSUME Trouble PROVE Elsewhere /\ Tranquil /\ SameSight
  BY <1>1, <1>2, <1>9, TroubleCommits, CommitsSame DEF Elsewhere, Crash
<1> QED BY <1>3, <1>4, <1>5, <1>6, <1>7, <1>8, <1>9 DEF Next, Operator, Informers

----------------------------------------------------------------------------
(* What has been seen to stays so.                                         *)

\* While the sight of the operator stays the same, an object that it has just
\* made does not go unnoticed.
LEMMA DriftKeepsMade ==
    ASSUME Shown, Tranquil, NEW o \in Objects, Drifts(o), ~Leaves(api[o])
    PROVE  \/ ~Leaves(api'[o]) /\ api'[o].spec = api[o].spec
           \/ Missed(o, cache, api')
<1>1. DeleteObject(o) => ~Leaves(cache[o])
  BY DEF Shown, Leaves
<1>2. DeleteObject(o) \/ ~cr.live => ~Leaves(cache[o])
  BY <1>1 DEF Tranquil
<1> QED BY <1>2 DEF Drifts, Missed, Leaves

\* What step x has seen to, from one content of the API server to the next.
Survives(o, seen, held, later) ==
    /\ ~Leaves(held[o]) =>
         \/ ~Leaves(later[o]) /\ later[o].spec = held[o].spec
         \/ Missed(o, seen, later)
    /\ Leaves(held[o]) => Leaves(later[o])

LEMMA AchievedKept ==
    ASSUME NEW x, NEW s, NEW kc, NEW app, NEW seen, NEW held, NEW later,
           Achieved(x, s, kc, app, seen, held),
           x[1] \in Writing => Survives(x[2], seen, held, later)
    PROVE  Achieved(x, s, kc, app, seen, later)
<1>1. x[1] \in {"Ensure", "Present"} => Made(x[2], s, kc, app, seen, later)
  BY DEF Achieved, Survives, Made, Fine, Missed, Leaves, Writing
<1>2. x[1] = "Remove" => seen[x[2]] = Absent \/ Leaves(later[x[2]])
  BY DEF Achieved, Survives, Writing
<1> QED BY <1>1, <1>2, Zenon DEF Achieved

\* A pod that is going is going, and what is gone is not brought back by
\* anybody else.
LEMMA DriftSurvives ==
    ASSUME Shown, Tranquil, NEW o \in Objects, Drifts(o)
    PROVE  Survives(o, cache, api, api')
<1>1. ~Leaves(api[o]) =>
        \/ ~Leaves(api'[o]) /\ api'[o].spec = api[o].spec
        \/ Missed(o, cache, api')
  BY DriftKeepsMade
<1>2. Leaves(api[o]) => Leaves(api'[o])
  <2>1. CASE api[o] = Absent
    BY <2>1 DEF Drifts, Leaves
  <2>2. CASE api[o] # Absent /\ api[o].dying
    BY <2>2 DEF Drifts, Leaves
  <2> QED BY <2>1, <2>2 DEF Drifts, Leaves
<1> QED BY <1>1, <1>2 DEF Survives

\* What a URL matters to.
LEMMA DesiredUrls ==
    ASSUME NEW o, NEW s, NEW kc, NEW app, NEW kc2, NEW app2
    PROVE  /\ o \notin {"keycloak-pod", "app-pod"} =>
                Desired(o, s, kc, app) = Desired(o, s, kc2, app2)
           /\ o # "app-pod" => Desired(o, s, kc, app) = Desired(o, s, kc, app2)
BY DEF Desired

LEMMA DesiredKept ==
    ASSUME NEW s, NEW x \in StepSet(s), NEW kc, NEW app, NEW kc2, NEW app2,
           x[1] \in {"Ensure", "Present"},
           \/ kc2 = kc
           \/ x \notin {"Ensure"} \X {"keycloak-pod", "app-pod"},
           app2 = app \/ x # <<"Ensure", "app-pod">>
    PROVE  Desired(x[2], s, kc2, app2) = Desired(x[2], s, kc, app)
<1>1. /\ x = <<x[1], x[2]>>
      /\ x[1] = "Present" => x[2] \in Certificates
  BY DEF StepSet, Ops
<1>2. x[1] = "Present" => x[2] \notin {"keycloak-pod", "app-pod"}
  BY <1>1 DEF Certificates, CertSecrets
<1>3. CASE x[2] \notin {"keycloak-pod", "app-pod"}
  BY <1>3, DesiredUrls
<1>4. CASE x[1] = "Ensure" /\ x[2] = "keycloak-pod"
  <2>1. kc2 = kc
    BY <1>1, <1>4
  <2> QED BY <1>4, <2>1, DesiredUrls
<1>5. CASE x[1] = "Ensure" /\ x[2] = "app-pod"
  BY <1>1, <1>5
<1> QED BY <1>2, <1>3, <1>4, <1>5

LEMMA AchievedUrls ==
    ASSUME NEW s, NEW x \in StepSet(s), NEW kc, NEW app, NEW kc2, NEW app2, NEW seen, NEW held,
           Achieved(x, s, kc, app, seen, held),
           \/ kc2 = kc
           \/ ~KeycloakUrlStep(x) /\ x \notin {"Ensure"} \X {"keycloak-pod", "app-pod"},
           app2 = app \/ (~AppUrlStep(x) /\ x # <<"Ensure", "app-pod">>)
    PROVE  Achieved(x, s, kc2, app2, seen, held)
<1>1. x[1] \in {"Ensure", "Present"} =>
        Desired(x[2], s, kc2, app2) = Desired(x[2], s, kc, app)
  BY DesiredKept
<1>2. x[1] \in UrlOps => urlOf(x[2], kc2, app2) = urlOf(x[2], kc, app)
  BY DEF KeycloakUrlStep, AppUrlStep, urlOf
<1>3. x[1] \in {"Ensure", "Present"} => Made(x[2], s, kc2, app2, seen, held)
  BY <1>1, Zenon DEF Achieved, Made, Fine
<1>4. x[1] \in {"NodePort", "RouteUrl", "External"} =>
        urlOf(x[2], kc2, app2) = urlOf(x[2], kc, app)
  BY <1>2 DEF UrlOps
<1> QED BY <1>3, <1>4 DEF Achieved

\* The steps a pass has behind it stay done while it goes on.
StepEnds(op, o) ==
    /\ op \in Writing \/ api' = api
    /\ \A x \in Objects \ {o} : api'[x] = api[x]
    /\ mem'.st.kcUrl = mem.st.kcUrl \/ (op \in UrlOps /\ o \in OfKeycloak)
    /\ mem'.st.url = mem.st.url \/ (op \in UrlOps /\ o \notin OfKeycloak)

LEMMA EarlierKept ==
    ASSUME NEW s, NEW x \in StepSet(s), NEW op, NEW o \in Objects, StepEnds(op, o),
           ~Disturbs(<<op, o>>, x),
           Achieved(x, s, mem.st.kcUrl, mem.st.url, cache, api)
    PROVE  Achieved(x, s, mem'.st.kcUrl, mem'.st.url, cache, api')
<1>1. x[1] \in Writing => x[2] \in Objects
  BY DEF StepSet, Ops, Writing, Certificates, Removable, Objects, Secrets, ConfigMaps
<1>2. x[1] \in Writing => api'[x[2]] = api[x[2]]
  BY <1>1 DEF StepEnds, Disturbs
<1>3. x[1] \in Writing => Survives(x[2], cache, api, api')
  BY <1>2 DEF Survives, Leaves
<1>4. Achieved(x, s, mem.st.kcUrl, mem.st.url, cache, api')
  BY <1>3, AchievedKept
<1>5. mem'.st.kcUrl # mem.st.kcUrl =>
        ~KeycloakUrlStep(x) /\ x \notin {"Ensure"} \X {"keycloak-pod", "app-pod"}
  BY DEF StepEnds, Disturbs, KeycloakUrlStep
<1>6. mem'.st.url # mem.st.url => ~AppUrlStep(x) /\ x # <<"Ensure", "app-pod">>
  BY DEF StepEnds, Disturbs, AppUrlStep
<1> QED BY <1>4, <1>5, <1>6, AchievedUrls

LEMMA ForwardEnds ==
    ASSUME TypeOK, NEW op, NEW o \in Objects, Forward(op, o) PROVE StepEnds(op, o)
<1>1. op \in Writing =>
        \/ api' = api
        \/ api' \in Created(o)
        \/ api[o] # Absent /\ api' \in Deleted(o)
  BY DEF Forward, Writing
<1>2. \A x \in Objects \ {o} : api'[x] = api[x]
  BY <1>1, CreatedObject, DeletedObject DEF Forward
<1>3. op \in UrlOps => \E url : Learns(o, url)
  BY DEF Forward
<1>4. op \notin UrlOps => mem'.st.kcUrl = mem.st.kcUrl /\ mem'.st.url = mem.st.url
  BY DEF Forward
<1> QED BY <1>2, <1>3, <1>4 DEF Forward, StepEnds, Learns

LEMMA HalfwayEnds ==
    ASSUME TypeOK, NEW o \in Objects, Halfway(o) PROVE StepEnds("Ensure", o)
BY DeletedObject DEF Halfway, StepEnds, Writing

\* What is made for a spec matches it.
LEMMA CompareSame ==
    ASSUME NEW o \in Objects, NEW want \in SpecOf(o) PROVE compare(o, want, want)
<1>1. CASE o \in Pods
  <2>1. want \in PodSpec
    BY <1>1 DEF SpecOf, Pods, Secrets, CertSecrets, Credentials, ConfigMaps, Services, Routes
  <2>2. want.opt \in Seq(Options)
    BY <2>1 DEF PodSpec
  <2>3. Len(want.opt) \in Nat
    BY <2>2
  <2>4. IsPrefix(want.opt, want.opt)
    BY <2>3 DEF IsPrefix
  <2>5. comparePods(want, want)
    BY <2>4 DEF comparePods
  <2> QED BY <1>1, <2>5 DEF compare, Pods, Services, Routes
<1>2. CASE o \notin Pods
  BY <1>2 DEF compare, compareRoute
<1> QED BY <1>1, <1>2

LEMMA CreatedFine ==
    ASSUME TypeOK, NEW o \in Objects, api' \in Created(o)
    PROVE  Fine(o, mem.spec, mem.st.kcUrl, mem.st.url, api'[o]) /\ ~api'[o].dying
<1>1. mem.spec \in CrSpec /\ mem.st.kcUrl \in Url /\ mem.st.url \in Url
  BY PassUrls, SpecsAssumption DEF TypeOK, PassOK, Mem
<1>2. Desired(o, mem.spec, mem.st.kcUrl, mem.st.url) \in SpecOf(o)
  BY <1>1, DesiredType
<1> QED BY <1>2, CreatedObject, CompareSame DEF Fine

LEMMA ForwardAchieves ==
    ASSUME TypeOK, FoundRoute, NEW op, NEW o \in Objects, Forward(op, o)
    PROVE  Achieved(<<op, o>>, mem.spec, mem'.st.kcUrl, mem'.st.url, cache, api')
<1> DEFINE kc == mem'.st.kcUrl
           app == mem'.st.url
           x == <<op, o>>
<1>1. At(op, o) /\ x[1] = op /\ x[2] = o
  BY DEF Forward
<1>2. op \in {"Ensure", "Present"} => Made(o, mem.spec, kc, app, cache, api')
  <2>1. SUFFICES ASSUME op \in {"Ensure", "Present"}
                 PROVE  Made(o, mem.spec, mem.st.kcUrl, mem.st.url, cache, api')
    BY DEF Forward, UrlOps
  <2>2. CASE api' \in Created(o)
    BY <2>2, CreatedFine DEF Made
  <2>3. CASE op = "Ensure" /\ Fine(o, mem.spec, mem.st.kcUrl, mem.st.url, cache[o])
    BY <2>3 DEF Made
  <2>4. CASE op = "Present" /\ cache[o] # Absent
    <3>1. o \in Certificates
      BY <1>1, <2>4, AtStep DEF TypeOK
    <3>2. o \notin Pods /\ o \notin Services /\ o \notin Routes /\ o # "postgresql-start"
      BY <3>1 DEF Certificates, CertSecrets, Pods, Services, Routes
    <3>3. compare(o, Desired(o, mem.spec, mem.st.kcUrl, mem.st.url), cache[o].spec)
      BY <3>2 DEF compare
    <3> QED BY <2>4, <3>3 DEF Made, Fine
  <2> QED BY <2>1, <2>2, <2>3, <2>4 DEF Forward
<1>3. op = "Remove" => cache[o] = Absent \/ Leaves(api'[o])
  <2>1. SUFFICES ASSUME op = "Remove" PROVE cache[o] = Absent \/ Leaves(api'[o])
    OBVIOUS
  <2> QED BY <2>1, DeletedObject DEF Forward, Leaves
<1>4. \A url : Learns(o, url) => urlOf(o, kc, app) = url
  BY DEF Learns, urlOf
<1>5. op = "NodePort" =>
        cache[o] # Absent /\ urlOf(o, kc, app) = <<"https", mem.spec.nodeHost, cache[o].port>>
  BY <1>4, Zenon DEF Forward
<1>6. op = "RouteUrl" => urlOf(o, kc, app) = getRouteUrl(o, cache[o])
  <2>1. SUFFICES ASSUME op = "RouteUrl" PROVE urlOf(o, kc, app) = getRouteUrl(o, cache[o])
    OBVIOUS
  <2>2. mem.found # Absent /\ Learns(o, getRouteUrl(o, mem.found))
    BY <2>1 DEF Forward
  <2>3. o \in Routes
    BY <1>1, <2>1, AtStep DEF TypeOK
  <2>4. mem.found = cache[o]
    BY <1>1, <2>1, <2>2, <2>3 DEF FoundRoute
  <2> QED BY <1>4, <2>2, <2>4
<1>7. op = "External" => urlOf(o, kc, app) = mem.spec.kcExt
  BY <1>4 DEF Forward
<1>8. op \notin {"LoadBalancer", "NoUrl"}
  BY DEF Forward, Writing, UrlOps
<1> HIDE DEF kc, app, x
<1>9. Achieved(x, mem.spec, kc, app, cache, api')
  BY <1>1, <1>2, <1>3, <1>5, <1>6, <1>7, <1>8, Zenon DEF Achieved
<1> QED BY <1>9 DEF kc, app, x

----------------------------------------------------------------------------
(* The pass goes on: what it has behind it stays done.                     *)

\* The current step comes after those it has behind it and does not undo them.
LEMMA ProgramOrder ==
    ASSUME NEW s
    PROVE  /\ Len(Program(s)) \in Nat /\ DOMAIN Program(s) = 1..Len(Program(s))
           /\ \A i \in 1..Len(Program(s)) : Program(s)[i] \in StepSet(s)
           /\ \A i, j \in 1..Len(Program(s)) : i < j => ~Disturbs(Program(s)[j], Program(s)[i])
           /\ \A j \in 1..Len(Program(s)) :
                Program(s)[j][1] = "RouteUrl" =>
                  j > 1 /\ Program(s)[j - 1] = <<"Ensure", Program(s)[j][2]>>
<1>1. Program(s) \in Seq(StepSet(s)) /\ Sound(Program(s)) /\ Paired(Program(s))
  BY ProgramPart DEF Part
<1>2. Len(Program(s)) \in Nat /\ DOMAIN Program(s) = 1..Len(Program(s))
  BY <1>1
<1>3. \A i \in 1..Len(Program(s)) : Program(s)[i] \in StepSet(s)
  BY <1>1
<1> QED BY <1>1, <1>2, <1>3, Zenon DEF Sound, Paired

LEMMA HalfwayPassed ==
    ASSUME TypeOK, NEW o \in Objects, Halfway(o),
           Passed(pc, mem.spec, mem.st.kcUrl, mem.st.url, cache, api)
    PROVE  Passed(pc', mem'.spec, mem'.st.kcUrl, mem'.st.url, cache, api')
<1>1. /\ pc' = pc /\ mem'.spec = mem.spec
      /\ pc \in 1..Len(Program(mem.spec)) /\ Program(mem.spec)[pc] = <<"Ensure", o>>
  BY AtStep DEF Halfway, TypeOK
<1> SUFFICES ASSUME NEW i \in 1..Len(Program(mem.spec)), i < pc
             PROVE  Achieved(Program(mem.spec)[i], mem.spec, mem'.st.kcUrl, mem'.st.url,
                             cache, api')
  BY <1>1 DEF Passed
<1>2. /\ Program(mem.spec)[i] \in StepSet(mem.spec)
      /\ ~Disturbs(<<"Ensure", o>>, Program(mem.spec)[i])
  BY <1>1, ProgramOrder
<1>3. Achieved(Program(mem.spec)[i], mem.spec, mem.st.kcUrl, mem.st.url, cache, api)
  BY DEF Passed
<1> QED BY <1>2, <1>3, HalfwayEnds, EarlierKept

LEMMA ForwardPassed ==
    ASSUME TypeOK, FoundRoute, NEW op, NEW o \in Objects, Forward(op, o),
           Passed(pc, mem.spec, mem.st.kcUrl, mem.st.url, cache, api)
    PROVE  Passed(pc', mem'.spec, mem'.st.kcUrl, mem'.st.url, cache, api')
<1>1. /\ pc' = pc + 1 /\ mem'.spec = mem.spec /\ pc \in Nat
      /\ pc \in 1..Len(Program(mem.spec)) /\ Program(mem.spec)[pc] = <<op, o>>
  BY AtStep DEF Forward, TypeOK, PassOK
<1> SUFFICES ASSUME NEW i \in 1..Len(Program(mem.spec)), i < pc + 1
             PROVE  Achieved(Program(mem.spec)[i], mem.spec, mem'.st.kcUrl, mem'.st.url,
                             cache, api')
  BY <1>1 DEF Passed
<1>2. CASE i = pc
  BY <1>1, <1>2, ForwardAchieves
<1>3. CASE i < pc
  <2>1. /\ Program(mem.spec)[i] \in StepSet(mem.spec)
        /\ ~Disturbs(<<op, o>>, Program(mem.spec)[i])
    BY <1>1, <1>3, ProgramOrder
  <2>2. Achieved(Program(mem.spec)[i], mem.spec, mem.st.kcUrl, mem.st.url, cache, api)
    BY <1>3 DEF Passed
  <2> QED BY <2>1, <2>2, ForwardEnds, EarlierKept
<1>4. i = pc \/ i < pc
  <2>1. i \in Nat
    BY <1>1, ProgramOrder
  <2> QED BY <1>1, <2>1
<1> QED BY <1>2, <1>3, <1>4

LEMMA HalfwayFound ==
    ASSUME TypeOK, TypeOK', up', NEW o \in Objects, Halfway(o), cache' = cache
    PROVE  FoundRoute'
<1>1. /\ pc' = pc /\ mem'.spec = mem.spec /\ mem.spec \in Specs
      /\ pc \in DOMAIN Programs[mem.spec] /\ Programs[mem.spec][pc] = <<"Ensure", o>>
      /\ o \in Routes => mem'.found = cache[o]
  BY DEF Halfway, At, TypeOK, PassOK, Mem
<1>2. At("Ensure", o)'
  BY <1>1 DEF At
<1>3. \A rt \in Routes : ~At("RouteUrl", rt)'
  BY <1>1 DEF At
<1>4. o \in Routes => mem'.found = cache'[o]
  BY <1>1
<1> QED BY <1>2, <1>3, <1>4 DEF FoundRoute

\* A replacement is over when the pass goes on.
LEMMA ForwardRedo ==
    ASSUME FoundRoute, NEW op, NEW o \in Objects, Forward(op, o)
    PROVE  /\ mem.redo => op = "Ensure" /\ (o \in Routes => mem.found = cache[o])
           /\ ~mem'.redo
<1>1. mem.redo => op = "Ensure" /\ (o \in Routes => mem.found = cache[o])
  <2>1. SUFFICES ASSUME mem.redo PROVE op = "Ensure" /\ (o \in Routes => mem.found = cache[o])
    OBVIOUS
  <2>2. PICK p \in Objects : At("Ensure", p) /\ (p \in Routes => mem.found = cache[p])
    BY <2>1 DEF FoundRoute
  <2>3. <<op, o>> = <<"Ensure", p>>
    BY <2>2 DEF At, Forward
  <2> QED BY <2>2, <2>3
<1> QED BY <1>1 DEF Forward

LEMMA ForwardFound ==
    ASSUME TypeOK, TypeOK', FoundRoute, NEW op, NEW o \in Objects, Forward(op, o), cache' = cache
    PROVE  FoundRoute'
<1>1. At(op, o) /\ pc' = pc + 1 /\ mem'.spec = mem.spec /\ mem.spec \in Specs /\ pc \in Nat
  BY DEF Forward, TypeOK, PassOK, Mem
<1>2. mem.redo => op = "Ensure" /\ (o \in Routes => mem.found = cache[o])
  BY ForwardRedo
<1>3. ~mem'.redo
  BY ForwardRedo
<1>4. ASSUME NEW rt \in Routes, At("RouteUrl", rt)'
      PROVE  mem'.found \in {cache'[rt], Absent}
  <2>1. /\ pc' \in 1..Len(Program(mem.spec)) /\ Program(mem.spec)[pc'] = <<"RouteUrl", rt>>
    <3>1. pc' \in DOMAIN Programs[mem'.spec] /\ Programs[mem'.spec][pc'] = <<"RouteUrl", rt>>
      BY <1>4 DEF At
    <3> QED BY <1>1, <3>1, ProgramOrder DEF Programs
  <2>2. Program(mem.spec)[pc' - 1] = <<"Ensure", rt>> /\ pc' - 1 = pc
    BY <1>1, <2>1, ProgramOrder
  <2>3. Program(mem.spec)[pc] = <<op, o>>
    BY <1>1, AtStep DEF TypeOK
  <2>4. op = "Ensure" /\ o = rt
    BY <2>2, <2>3
  <2> QED BY <1>2, <2>4 DEF Forward
<1> QED BY <1>3, <1>4 DEF FoundRoute

----------------------------------------------------------------------------
(* The inductive invariant and the theorem.                                *)

LEMMA PassedKept ==
    ASSUME NEW n, NEW s, NEW kc, NEW app, Passed(n, s, kc, app, cache, api),
           \A o \in Objects : Survives(o, cache, api, api')
    PROVE  Passed(n, s, kc, app, cache, api')
<1> SUFFICES ASSUME NEW i \in 1..Len(Program(s)), i < n
             PROVE  Achieved(Program(s)[i], s, kc, app, cache, api')
  BY DEF Passed
<1>1. Achieved(Program(s)[i], s, kc, app, cache, api)
  BY DEF Passed
<1>2. Program(s)[i] \in StepSet(s)
  BY ProgramOrder
<1>3. Program(s)[i][1] \in Writing => Program(s)[i][2] \in Objects
  BY <1>2 DEF StepSet, Ops, Writing, Certificates, Removable, Objects, Secrets, ConfigMaps
<1> QED BY <1>1, <1>3, AchievedKept

\* A pass that begins knows the current spec and has nothing behind it.
LEMMA BeginWork ==
    ASSUME TypeOK, TypeOK', Views, Begin, Tranquil'
    PROVE  pc' # 0 /\ Underway'
<1>1. ~dirty' /\ crFresh' /\ cr'.live
  BY DEF Tranquil
<1>2. ASSUME NEW m, WriteStatus(api, m, crFresh, TRUE, 0) PROVE FALSE
  BY <1>1, <1>2, WriteStatusQueues
<1>3. CASE ~crCache.live /\ UNCHANGED <<apiServer, informers>>
  BY <1>1, <1>3 DEF Views, apiServer, informers
<1>4. CASE /\ pc' = 1 /\ UNCHANGED <<apiServer, informers>>
           /\ LET m == [Idle EXCEPT !.spec = crCache.spec, !.st = crCache.st]
              IN mem' = IF m.st.status = "Ready" THEN m ELSE setStatus(m, "Ready")
  <2> DEFINE m == [Idle EXCEPT !.spec = crCache.spec, !.st = crCache.st]
  <2>1. m \in Mem /\ m.spec = crCache.spec /\ ~m.redo
    BY IdleType DEF TypeOK, ClusterOK, Horreum, Mem, Idle
  <2>2. mem' = IF m.st.status = "Ready" THEN m ELSE setStatus(m, "Ready")
    BY <1>4
  <2> HIDE DEF m
  <2>3. setStatus(m, "Ready").redo = m.redo /\ setStatus(m, "Ready").spec = m.spec
    BY <2>1 DEF setStatus, Mem
  <2>4. mem'.spec = crCache.spec /\ ~mem'.redo
    BY <2>1, <2>2, <2>3
  <2>5. crCache = cr /\ cr' = cr /\ mem'.spec \in Specs
    BY <1>1, <1>4 DEF Views, apiServer, informers, TypeOK, PassOK, Mem
  <2>6. FoundRoute'
    <3>1. \A rt \in Routes : ~At("RouteUrl", rt)'
      <4> SUFFICES ASSUME NEW rt \in Routes, At("RouteUrl", rt)' PROVE FALSE
        OBVIOUS
      <4>1. 1 \in DOMAIN Programs[mem'.spec] /\ Programs[mem'.spec][1] = <<"RouteUrl", rt>>
        BY <1>4 DEF At
      <4>2. 1 \in 1..Len(Program(mem'.spec)) /\ Program(mem'.spec)[1] = <<"RouteUrl", rt>>
        BY <2>5, <4>1, ProgramOrder DEF Programs
      <4> QED BY <4>2, ProgramOrder
    <3> QED BY <2>4, <3>1 DEF FoundRoute
  <2>7. Passed(pc', mem'.spec, mem'.st.kcUrl, mem'.st.url, cache', api')
    <3>1. \A i \in 1..Len(Program(mem'.spec)) : ~(i < 1)
      BY ProgramOrder
    <3> QED BY <1>4, <3>1 DEF Passed
  <2> QED BY <1>4, <2>4, <2>5, <2>6, <2>7 DEF Underway
<1>5. \/ ~crCache.live /\ UNCHANGED <<apiServer, informers>>
      \/ \E m : WriteStatus(api, m, crFresh, TRUE, 0)
      \/ /\ pc' = 1 /\ UNCHANGED <<apiServer, informers>>
         /\ LET m == [Idle EXCEPT !.spec = crCache.spec, !.st = crCache.st]
            IN mem' = IF m.st.status = "Ready" THEN m ELSE setStatus(m, "Ready")
  BY DEF Begin
<1> QED BY <1>2, <1>3, <1>4, <1>5

LEMMA StepWork ==
    ASSUME TypeOK, TypeOK', Tranquil', NEW o \in Objects, Step(o),
           cr' = cr, cache' = cache, pc # 0 => Underway
    PROVE  pc' # 0 /\ Underway'
<1>1. ~dirty' /\ up'
  BY DEF Tranquil
<1>2. Halfway(o) \/ \E op : Forward(op, o)
  BY <1>1, StepOutcome DEF Outcome
<1>3. CASE Halfway(o)
  <2>1. pc # 0 /\ pc' = pc /\ mem'.spec = mem.spec
    BY <1>3, AtStep DEF Halfway, TypeOK
  <2>2. FoundRoute'
    BY <1>1, <1>3, HalfwayFound
  <2>3. Passed(pc', mem'.spec, mem'.st.kcUrl, mem'.st.url, cache', api')
    BY <1>3, <2>1, HalfwayPassed DEF Underway
  <2> QED BY <2>1, <2>2, <2>3 DEF Underway
<1>4. ASSUME NEW op, Forward(op, o) PROVE pc' # 0 /\ Underway'
  <2>1. pc # 0 /\ pc' = pc + 1 /\ pc \in Nat /\ mem'.spec = mem.spec
    BY <1>4, AtStep DEF Forward, TypeOK, PassOK
  <2>2. FoundRoute'
    BY <1>4, <2>1, ForwardFound DEF Underway
  <2>3. Passed(pc', mem'.spec, mem'.st.kcUrl, mem'.st.url, cache', api')
    BY <1>4, <2>1, ForwardPassed DEF Underway
  <2> QED BY <2>1, <2>2, <2>3 DEF Underway
<1> QED BY <1>2, <1>3, <1>4

LEMMA FinishWork ==
    ASSUME TypeOK, Finish, cr' = cr, cache' = cache, Underway
    PROVE  pc' = 0 /\ Complete'
<1>1. /\ pc' = 0 /\ pc = Len(Programs[mem.spec]) + 1 /\ api' = api
  BY IdleApi DEF Finish, EndPass
<1>2. Programs[mem.spec] = Program(cr.spec) /\ mem.st.kcUrl \in Url /\ mem.st.url \in Url
  BY PassUrls DEF TypeOK, PassOK, Mem, Programs, Underway
<1>3. Passed(Len(Program(cr.spec)) + 1, cr.spec, mem.st.kcUrl, mem.st.url, cache, api)
  BY <1>1, <1>2 DEF Underway
<1> QED BY <1>1, <1>2, <1>3 DEF Complete

LEMMA ElsewhereWork ==
    ASSUME TypeOK, UNCHANGED <<up, pc, mem>>, cr' = cr, cache' = cache,
           \A o \in Objects : Survives(o, cache, api, api')
    PROVE  (Complete => Complete') /\ (Underway => Underway')
<1>1. ASSUME Complete PROVE Complete'
  <2>1. PICK kc \in Url, app \in Url :
          Passed(Len(Program(cr.spec)) + 1, cr.spec, kc, app, cache, api)
    BY <1>1 DEF Complete
  <2>2. Passed(Len(Program(cr.spec)) + 1, cr.spec, kc, app, cache, api')
    BY <2>1, PassedKept
  <2> QED BY <2>2 DEF Complete
<1>2. ASSUME Underway PROVE Underway'
  <2>1. FoundRoute'
    BY <1>2 DEF Underway, FoundRoute, At
  <2>2. Passed(pc, mem.spec, mem.st.kcUrl, mem.st.url, cache, api')
    BY <1>2, PassedKept DEF Underway
  <2> QED BY <1>2, <2>1, <2>2 DEF Underway
<1> QED BY <1>1, <1>2

RestInv == Views /\ WorkDone

LEMMA WorkDoneStep ==
    ASSUME TypeOK, TypeOK', RestInv, Next, Shown PROVE WorkDone'
<1> SUFFICES ASSUME Tranquil' PROVE IF pc' = 0 THEN Complete' ELSE Underway'
  BY DEF WorkDone
<1>1. CASE Begin
  BY <1>1, BeginWork DEF RestInv
<1>2. CASE /\ Tranquil /\ SameSight
           /\ (\E o \in Objects : Step(o)) \/ Finish \/ ((Cluster \/ Trouble) /\ Elsewhere)
  <2>1. cr' = cr /\ cache' = cache
    BY <1>2 DEF SameSight, TypeOK, ClusterOK, IsStore
  <2>2. IF pc = 0 THEN Complete ELSE Underway
    BY <1>2 DEF RestInv, WorkDone
  <2>3. CASE \E o \in Objects : Step(o)
    BY <2>1, <2>2, <2>3, StepWork
  <2>4. CASE Finish
    <3>1. pc # 0
      <4>1. Len(Programs[mem.spec]) \in Nat
        BY ProgramOrder DEF TypeOK, PassOK, Mem, Programs
      <4> QED BY <2>4, <4>1 DEF Finish
    <3> QED BY <2>1, <2>2, <2>4, <3>1, FinishWork
  <2>5. CASE (Cluster \/ Trouble) /\ Elsewhere
    <3>1. \A x \in Objects : Drifts(x)
      BY <2>5, ClusterDrifts, TroubleDrifts DEF RestInv
    <3>2. \A o \in Objects : Survives(o, cache, api, api')
      BY <1>2, <3>1, DriftSurvives
    <3> QED BY <2>1, <2>2, <2>5, <3>2, ElsewhereWork DEF Elsewhere
  <2> QED BY <1>2, <2>3, <2>4, <2>5
<1> QED BY <1>1, <1>2, RestUndisturbed DEF RestInv

SameButUrls(p, q) ==
    /\ p.image = q.image /\ p.ext = q.ext /\ p.proto = q.proto
    /\ p.db = q.db /\ p.certs = q.certs /\ p.opt = q.opt

\* Two pods that agree in everything but their options.
LEMMA SamePods ==
    ASSUME NEW p \in PodSpec, NEW q \in PodSpec
    PROVE  [p EXCEPT !.opt = <<>>] = [q EXCEPT !.opt = <<>>]
             <=> /\ p.image = q.image /\ p.kc = q.kc /\ p.app = q.app /\ p.ext = q.ext
                 /\ p.proto = q.proto /\ p.db = q.db /\ p.certs = q.certs
BY DEF PodSpec

LEMMA EqualPods ==
    ASSUME NEW p \in PodSpec, NEW q \in PodSpec, SameButUrls(p, q), p.kc = q.kc, p.app = q.app
    PROVE  p = q
<1> DEFINE P == {"", "http", "https"}
           D == DbNames \cup {""}
           C == {"", "keycloak-certs", "keycloak-tls"}
           L == Seq(Options)
           S == [image : Images, kc : Url, app : Url, ext : Url, proto : P, db : D,
                 certs : C, opt : L]
<1>1. p \in S /\ q \in S
  BY DEF PodSpec
<1> HIDE DEF P, D, C, L
<1> QED BY <1>1 DEF SameButUrls

\* The content that a comparison accepts is the content wanted.
LEMMA ComparedExactly ==
    ASSUME ToldApart, NEW s \in Specs, NEW t \in Specs, NEW o \in Objects \ Secrets,
           o # "upload", NEW kc \in Url, NEW app \in Url, NEW kc2 \in Url, NEW app2 \in Url,
           compare(o, Desired(o, s, kc, app), Desired(o, t, kc2, app2))
    PROVE  Desired(o, t, kc2, app2) = Desired(o, s, kc, app)
<1> USE DEF Pods, Services, Routes
<1>1. CASE o = "service-ca"
  BY <1>1 DEF Desired, Secrets, CertSecrets, Credentials
<1>2. CASE o \in Services \cup {"postgresql-start"}
  BY <1>2 DEF compare
<1>3. CASE o \in Routes
  <2>1. /\ Desired(o, s, kc, app) = Desired(o, s, NoUrl, NoUrl)
        /\ Desired(o, t, kc2, app2) = Desired(o, t, NoUrl, NoUrl)
    BY <1>3, DesiredUrls
  <2> QED BY <1>3, <2>1 DEF ToldApart, TellsApart
<1>4. CASE o \in {"db-pod", "keycloak-pod"}
  <2>1. \A x \in Specs, k, a \in Url :
          Desired(o, x, k, a).opt = <<>> /\ Desired(o, x, k, a) \in PodSpec
    <3> SUFFICES ASSUME NEW x \in Specs, NEW k \in Url, NEW a \in Url
                 PROVE  Desired(o, x, k, a).opt = <<>> /\ Desired(o, x, k, a) \in PodSpec
      OBVIOUS
    <3>1. x \in CrSpec
      BY SpecsAssumption
    <3>2. Desired(o, x, k, a) \in SpecOf(o)
      BY <3>1, DesiredType
    <3>3. SpecOf(o) = PodSpec
      BY <1>4 DEF SpecOf, Secrets, CertSecrets, Credentials, ConfigMaps
    <3>4. Desired(o, x, k, a) = IF o = "db-pod" THEN postgresPod(x) ELSE keycloakPod(x, k)
      BY <1>4 DEF Desired, Secrets, CertSecrets, Credentials
    <3>5. postgresPod(x).opt = <<>> /\ keycloakPod(x, k).opt = <<>>
      BY DEF postgresPod, keycloakPod
    <3> QED BY <3>2, <3>3, <3>4, <3>5
  <2>2. comparePods(Desired(o, s, kc, app), Desired(o, t, kc2, app2))
    BY <1>4 DEF compare
  <2>3. \A p \in PodSpec : p.opt = <<>> => [p EXCEPT !.opt = <<>>] = p
    BY DEF PodSpec
  <2> DEFINE want == Desired(o, s, kc, app)
             have == Desired(o, t, kc2, app2)
  <2>4. [want EXCEPT !.opt = <<>>] = want /\ [have EXCEPT !.opt = <<>>] = have
    BY <2>1, <2>3
  <2>5. [want EXCEPT !.opt = <<>>] = [have EXCEPT !.opt = <<>>]
    BY <2>2 DEF comparePods
  <2> QED BY <2>4, <2>5
<1>5. CASE o = "app-pod"
  <2>1. \A x \in Specs, k, a \in Url : Desired(o, x, k, a) = appPod(x, k, a)
    BY <1>5 DEF Desired, Secrets, CertSecrets, Credentials
  <2>2. comparePods(appPod(s, kc, app), appPod(t, kc2, app2))
    BY <1>5, <2>1 DEF compare
  <2>3. \A x \in Specs, k, a \in Url : appPod(x, k, a) \in PodSpec
    BY SpecsAssumption, appPodType
  <2>4. \A x, k, a : appPod(x, k, a).kc = k /\ appPod(x, k, a).app = a
                     /\ SameButUrls(appPod(x, k, a), appPod(x, NoUrl, NoUrl))
    BY DEF appPod, SameButUrls
  <2>5. NoUrl \in Url
    BY DEF Url
  <2> DEFINE want == appPod(s, kc, app)
             have == appPod(t, kc2, app2)
             p == appPod(s, NoUrl, NoUrl)
             q == appPod(t, NoUrl, NoUrl)
  <2>6. /\ want \in PodSpec /\ have \in PodSpec /\ p \in PodSpec /\ q \in PodSpec
        /\ want.kc = kc /\ want.app = app /\ have.kc = kc2 /\ have.app = app2
        /\ p.kc = NoUrl /\ p.app = NoUrl /\ q.kc = NoUrl /\ q.app = NoUrl
        /\ SameButUrls(want, p) /\ SameButUrls(have, q)
    BY <2>3, <2>4, <2>5
  <2>7. IsPrefix(want.opt, have.opt) /\ [want EXCEPT !.opt = <<>>] = [have EXCEPT !.opt = <<>>]
    BY <2>2 DEF comparePods
  <2>8. compare(o, p, q) => p = q
    <3>1. Desired(o, s, NoUrl, NoUrl) = p /\ Desired(o, t, NoUrl, NoUrl) = q
      BY <2>1, <2>5
    <3> QED BY <1>5, <3>1 DEF ToldApart, TellsApart
  <2> HIDE DEF want, have, p, q
  <2>10. /\ want.image = have.image /\ want.kc = have.kc /\ want.app = have.app
         /\ want.ext = have.ext /\ want.proto = have.proto /\ want.db = have.db
         /\ want.certs = have.certs
    <3>1. want \in PodSpec /\ have \in PodSpec
      BY <2>6, Zenon
    <3>2. [want EXCEPT !.opt = <<>>] = [have EXCEPT !.opt = <<>>]
      BY <2>7, Zenon
    <3> QED BY <3>1, <3>2, SamePods, Zenon
  <2>11. [p EXCEPT !.opt = <<>>] = [q EXCEPT !.opt = <<>>]
    <3>1. /\ p.image = q.image /\ p.kc = q.kc /\ p.app = q.app /\ p.ext = q.ext
          /\ p.proto = q.proto /\ p.db = q.db /\ p.certs = q.certs
      BY <2>6, <2>10 DEF SameButUrls
    <3> QED BY <2>6, <3>1, SamePods
  <2>12. comparePods(p, q)
    BY <2>6, <2>7, <2>11 DEF comparePods, SameButUrls
  <2>13. p = q
    BY <1>5, <2>8, <2>12 DEF compare
  <2>14. want = have
    <3>1. SameButUrls(want, have)
      BY <2>6, <2>13 DEF SameButUrls
    <3> QED BY <2>6, <2>10, <3>1, EqualPods
  <2> QED BY <2>1, <2>14 DEF want, have
<1> QED BY <1>1, <1>2, <1>3, <1>4, <1>5 DEF Objects, ConfigMaps

\* Every step of the program of s has been seen to, with these URLs.
AllAchieved(s, kc, app) ==
    \A x \in SecretSet \cup PostgresSet(s) \cup KeycloakSet(s) \cup AppSet(s) :
      Achieved(x, s, kc, app, api, api)

LEMMA PassedAll ==
    ASSUME NEW s, NEW kc, NEW app, Passed(Len(Program(s)) + 1, s, kc, app, api, api)
    PROVE  AllAchieved(s, kc, app)
<1>1. /\ Program(s) \in Seq(StepSet(s))
      /\ ToSet(Program(s)) = SecretSet \cup PostgresSet(s) \cup KeycloakSet(s) \cup AppSet(s)
  BY ProgramPart DEF Part
<1>2. ASSUME NEW x \in ToSet(Program(s)) PROVE Achieved(x, s, kc, app, api, api)
  <2>1. PICK i \in 1..Len(Program(s)) : x = Program(s)[i]
    BY <1>1, <1>2 DEF ToSet
  <2>2. i < Len(Program(s)) + 1
    BY ProgramOrder
  <2> QED BY <2>1, <2>2 DEF Passed
<1> QED BY <1>1, <1>2 DEF AllAchieved

LEMMA QuietAchieved ==
    ASSUME TypeOK, RestInv, Quiet
    PROVE  \E kc, app \in Url : AllAchieved(cr.spec, kc, app)
<1>1. Complete /\ cache = api
  BY DEF RestInv, WorkDone, Quiet, Tranquil
<1>2. PICK kc \in Url, app \in Url :
        Passed(Len(Program(cr.spec)) + 1, cr.spec, kc, app, api, api)
  BY <1>1 DEF Complete
<1> QED BY <1>2, PassedAll

\* The URLs are those the components are reached at.
LEMMA UrlAchieved ==
    ASSUME NEW s, NEW t, NEW svc, NEW rt, NEW kc, NEW app,
           svc \in OfKeycloak <=> rt \in OfKeycloak,
           \A x \in UrlSet(t, svc, rt) : Achieved(x, s, kc, app, api, api)
    PROVE  urlOf(svc, kc, app) = AddressIn(api, s, t, svc, rt)
<1>1. CASE isNodePort(t)
  <2>1. Achieved(<<"NodePort", svc>>, s, kc, app, api, api)
    BY <1>1 DEF UrlSet
  <2> QED BY <1>1, <2>1 DEF Achieved, AddressIn
<1>2. CASE ~isNodePort(t)
  <2>1. ~Achieved(<<"LoadBalancer", svc>>, s, kc, app, api, api)
    BY DEF Achieved
  <2>2. ~Achieved(<<"NoUrl", svc>>, s, kc, app, api, api)
    BY DEF Achieved
  <2>3. Achieved(<<"RouteUrl", rt>>, s, kc, app, api, api)
    BY <1>2, <2>1, <2>2 DEF UrlSet
  <2> QED BY <1>2, <2>3 DEF Achieved, AddressIn, urlOf
<1> QED BY <1>1, <1>2

LEMMA AddressesAchieved ==
    ASSUME NEW s, NEW kc, NEW app, AllAchieved(s, kc, app)
    PROVE  kc = KeycloakIn(api, s) /\ app = AppIn(api, s)
<1>1. app = AppIn(api, s)
  <2>1. \A x \in UrlSet(s.svc, "app-svc", "app-route") : Achieved(x, s, kc, app, api, api)
    BY DEF AllAchieved, AppSet
  <2>2. "app-svc" \notin OfKeycloak /\ "app-route" \notin OfKeycloak
    BY DEF OfKeycloak
  <2> QED BY <2>1, <2>2, UrlAchieved DEF urlOf, AppIn
<1>2. kc = KeycloakIn(api, s)
  <2>1. CASE s.kcExt = NoUrl
    <3>1. \A x \in UrlSet(s.kcSvc, "keycloak-svc", "keycloak-route") :
            Achieved(x, s, kc, app, api, api)
      BY <2>1 DEF AllAchieved, KeycloakSet
    <3>2. "keycloak-svc" \in OfKeycloak /\ "keycloak-route" \in OfKeycloak
      BY DEF OfKeycloak
    <3>3. kc = AddressIn(api, s, s.kcSvc, "keycloak-svc", "keycloak-route")
      BY <3>1, <3>2, UrlAchieved DEF urlOf
    <3> QED BY <2>1, <3>3 DEF KeycloakIn
  <2>2. CASE s.kcExt # NoUrl
    <3>1. Achieved(<<"External", "keycloak-pod">>, s, kc, app, api, api)
      BY <2>2 DEF AllAchieved, KeycloakSet
    <3> QED BY <2>2, <3>1 DEF Achieved, urlOf, OfKeycloak, KeycloakIn
  <2> QED BY <2>1, <2>2
<1> QED BY <1>1, <1>2

LEMMA WantedEnsured ==
    ASSUME NEW s, NEW o \in Wanted(s)
    PROVE  \/ <<"Ensure", o>> \in SecretSet \cup PostgresSet(s) \cup KeycloakSet(s) \cup AppSet(s)
           \/ <<"Present", o>> \in SecretSet
<1>1. CASE o \in Credentials \cup CertSecrets \cup {"service-ca"}
  BY <1>1 DEF Wanted, SecretSet, Certificates, CertSecrets, Credentials
<1>2. CASE o \in {"postgresql-start", "db-pod", "db-svc"}
  BY <1>2 DEF Wanted, PostgresSet, CertSecrets, Credentials
<1>3. CASE o \in {"keycloak-pod", "keycloak-svc"}
  BY <1>3 DEF Wanted, KeycloakSet, CertSecrets, Credentials
<1>4. CASE o \in {"app-pod", "app-svc", "upload"}
  BY <1>4 DEF AppSet
<1>5. CASE o = "keycloak-route"
  <2>1. RoutesAvailable /\ s.kcExt = NoUrl /\ s.kcSvc \in {"", "ClusterIP"}
    BY <1>5 DEF Wanted, CertSecrets, Credentials
  <2> QED BY <1>5, <2>1 DEF KeycloakSet, UrlSet, isNodePort
<1>6. CASE o = "app-route"
  <2>1. RoutesAvailable /\ s.svc \in {"", "ClusterIP"}
    BY <1>6 DEF Wanted, CertSecrets, Credentials
  <2> QED BY <1>6, <2>1 DEF AppSet, UrlSet, isNodePort
<1> QED BY <1>1, <1>2, <1>3, <1>4, <1>5, <1>6 DEF Wanted

LEMMA UnwantedRemoved ==
    ASSUME NEW s, NEW o \in Unwanted(s)
    PROVE  \/ <<"Remove", o>> \in PostgresSet(s) \cup KeycloakSet(s)
           \/ o \in Routes /\ ~RoutesAvailable
BY DEF Unwanted, PostgresSet, KeycloakSet, Routes

\* At rest every object is as far as the operator can tell what the spec asks for.
LEMMA RestSuits == ASSUME TypeOK, RestInv, Quiet PROVE Suited(cr, api)
<1> DEFINE s == cr.spec
<1>1. PICK kc \in Url, app \in Url : AllAchieved(s, kc, app)
  BY QuietAchieved
<1>2. kc = KeycloakIn(api, s) /\ app = AppIn(api, s)
  BY <1>1, AddressesAchieved
<1>3. \A o \in Objects : Proper(o, api[o])
  BY DEF RestInv, Views
<1> HIDE DEF s
<1>4. ASSUME NEW o \in Wanted(s)
      PROVE  api[o] # Absent /\ compare(o, Desired(o, s, kc, app), api[o].spec)
  <2>1. Achieved(<<"Ensure", o>>, s, kc, app, api, api)
        \/ Achieved(<<"Present", o>>, s, kc, app, api, api)
    BY <1>1, <1>4, WantedEnsured DEF AllAchieved
  <2> QED BY <2>1 DEF Achieved, Made, Fine, Missed
<1>5. ASSUME NEW o \in Unwanted(s) PROVE Leaves(api[o])
  <2>1. CASE <<"Remove", o>> \in PostgresSet(s) \cup KeycloakSet(s)
    <3>1. Achieved(<<"Remove", o>>, s, kc, app, api, api)
      BY <1>1, <2>1 DEF AllAchieved
    <3> QED BY <3>1 DEF Achieved, Leaves
  <2>2. CASE o \in Routes /\ ~RoutesAvailable
    <3>1. o \in Objects \ DOMAIN GivenSecrets
      BY <2>2, GivenType DEF Objects, Routes, Secrets, CertSecrets, Credentials
    <3> QED BY <1>3, <2>2, <3>1 DEF Proper, Authored, Leaves
  <2> QED BY <1>5, <2>1, <2>2, UnwantedRemoved
<1> QED BY <1>2, <1>4, <1>5 DEF Suited, s

LEMMA RestImplies == ASSUME ToldApart, TypeOK, RestInv PROVE QuietObjects
<1> SUFFICES ASSUME Quiet
             PROVE  /\ \A o \in Wanted(cr.spec) \ {"upload"} : Matches(o, cr.spec)
                    /\ \A o \in Unwanted(cr.spec) : Gone(o)
  BY DEF QuietObjects
<1> DEFINE s   == cr.spec
           kc  == KeycloakIn(api, s)
           app == AppIn(api, s)
<1>1. Suited(cr, api)
  BY RestSuits
<1>2. kc \in Url /\ app \in Url
  <2>1. PICK kc2 \in Url, app2 \in Url : AllAchieved(s, kc2, app2)
    BY QuietAchieved
  <2> QED BY <2>1, AddressesAchieved
<1>3. s \in Specs
  BY DEF TypeOK, ClusterOK, Horreum
<1>4. \A o \in Wanted(s) : api[o] # Absent /\ compare(o, Desired(o, s, kc, app), api[o].spec)
  BY <1>1 DEF Suited
<1>5. KeycloakAddress(s) = kc /\ AppAddress(s) = app
  BY DEF KeycloakAddress, AppAddress
<1> HIDE DEF s, kc, app
<1>6. ASSUME NEW o \in Wanted(s) \ {"upload"} PROVE Matches(o, s)
  <2>1. o \in Objects
    BY <1>6 DEF Wanted, Objects, Secrets, CertSecrets, Credentials, ConfigMaps, Pods,
                Services, Routes
  <2>2. ASSUME o \notin Secrets PROVE api[o].spec = Desired(o, s, kc, app)
    <3>1. Authored(o, api[o])
      BY <1>4, <1>6, <2>1, <2>2, GivenType DEF RestInv, Views, Proper
    <3>2. PICK t \in Specs, kc2 \in Url, app2 \in Url : api[o].spec = Desired(o, t, kc2, app2)
      BY <1>4, <1>6, <3>1 DEF Authored
    <3> QED BY <1>2, <1>3, <1>4, <1>6, <2>1, <2>2, <3>2, ComparedExactly
  <2> QED BY <1>4, <1>5, <1>6, <2>2 DEF Matches
<1>7. ASSUME NEW o \in Unwanted(s) PROVE Gone(o)
  BY <1>1, <1>7 DEF Suited, Gone, s
<1> QED BY <1>6, <1>7 DEF s

LEMMA InitRest == ASSUME Init PROVE RestInv
<1>1. Views
  <2>1. \A o \in Objects : Proper(o, api[o])
    BY DEF Init, Proper, Given
  <2> QED BY <2>1 DEF Init, Views
<1>2. WorkDone
  BY DEF Init, WorkDone, Tranquil
<1> QED BY <1>1, <1>2 DEF RestInv

LEMMA RestStep ==
    ASSUME TypeOK, TypeOK', RestInv, [Next]_vars, [Shown]_vars PROVE RestInv'
<1>1. CASE UNCHANGED vars
  <2>1. Views'
    BY <1>1 DEF RestInv, Views, Lags, vars
  <2>2. WorkDone'
    BY <1>1 DEF RestInv, WorkDone, Tranquil, Complete, Underway, FoundRoute, At, vars
  <2> QED BY <2>1, <2>2 DEF RestInv
<1>2. CASE Next /\ Shown
  <2>1. Views'
    <3>1. Tracks'
      BY <1>2, NextTracks DEF RestInv, Views, Tracks
    <3>2. \A x \in Objects : Proper(x, api'[x]) /\ Proper(x, cache'[x])
      BY <1>2, NextProper DEF RestInv
    <3> QED BY <3>1, <3>2 DEF Views, Tracks
  <2> QED BY <1>2, <2>1, WorkDoneStep DEF RestInv
<1> QED BY <1>1, <1>2

\* The operator rests only when its work is done: for all specs that the
\* comparison functions tell apart, and whatever crashes, fails, is edited or
\* fails to be noticed at once, nothing queued and current caches mean that
\* every object is as the spec wants it, as long as what others delete has been
\* shown by an informer.
THEOREM RestsWhenDone == ToldApart => (Spec /\ [][Shown]_vars => []QuietObjects)
<1> SUFFICES ASSUME ToldApart PROVE Spec /\ [][Shown]_vars => []QuietObjects
  OBVIOUS
<1>1. Init => RestInv
  BY InitRest
<1>2. RestInv /\ TypeOK /\ TypeOK' /\ [Next]_vars /\ [Shown]_vars => RestInv'
  BY RestStep
<1>3. TypeOK /\ RestInv => QuietObjects
  BY RestImplies
<1> QED BY <1>1, <1>2, <1>3, TypeCorrect, PTL DEF Spec

----------------------------------------------------------------------------
(* When everything that is deleted has been shown.                         *)

DeletesBounded == budget["delete"] <= Bounds["delete"]

\* A kind whose events arrive one by one shows every object at once, and
\* without deletions there is nothing to show.
LEMMA WitnessedShown ==
    ASSUME Witnessed, TypeOK, Views, DeletesBounded, Next PROVE Shown
<1> SUFFICES ASSUME NEW o \in Objects, DeleteObject(o), ~api[o].dying
             PROVE  cache[o] # Absent /\ ~cache[o].dying
  BY DEF Shown
<1>1. api[o] # Absent /\ budget["delete"] > 0
  BY DEF DeleteObject, Owned, Spend
<1>2. LaggingKinds \subseteq {"Horreum"}
  <2>1. budget["delete"] \in Nat
    BY DEF TypeOK, BudgetOK, Disturbances
  <2> QED BY <1>1, <2>1 DEF Witnessed, DeletesBounded
<1>3. ~Lags(o)
  <2>1. \E k \in Kinds : o \in OfKind(k)
    BY DEF Kinds, OfKind, Objects
  <2>2. KindOf(o) \in Kinds
    BY <2>1 DEF KindOf
  <2> QED BY <1>2, <2>2 DEF Lags, Kinds
<1> QED BY <1>1, <1>3 DEF Views

LEMMA DeletesStep ==
    ASSUME TypeOK, TypeOK', DeletesBounded, [Next]_vars PROVE DeletesBounded'
<1>1. CASE UNCHANGED vars
  BY <1>1 DEF DeletesBounded, vars
<1>2. CASE Next
  <2>1. /\ budget'["delete"] <= budget["delete"]
        /\ budget'["delete"] \in Nat /\ budget["delete"] \in Nat /\ Bounds["delete"] \in Nat
    BY <1>2, NextShape, BoundsAssumption DEF Tame, TypeOK, BudgetOK, Disturbances
  <2> QED BY <2>1 DEF DeletesBounded
<1> QED BY <1>1, <1>2

LEMMA InitDeletes == ASSUME Init PROVE DeletesBounded
BY BoundsAssumption DEF Init, DeletesBounded, Disturbances

LEMMA WitnessedStep ==
    ASSUME Witnessed, TypeOK, TypeOK', RestInv, DeletesBounded, [Next]_vars
    PROVE  RestInv' /\ DeletesBounded' /\ [Shown]_vars
<1>1. [Shown]_vars
  BY WitnessedShown DEF RestInv
<1> QED BY <1>1, RestStep, DeletesStep

\* So the operator rests only when its work is done if no kind of object lags
\* behind its events, or if nobody deletes the objects of a live resource.
COROLLARY WitnessedRest == Witnessed /\ ToldApart => (Spec => []QuietObjects)
<1> SUFFICES ASSUME Witnessed, ToldApart PROVE Spec => []QuietObjects
  OBVIOUS
<1>1. Init => RestInv /\ DeletesBounded
  BY InitRest, InitDeletes
<1>2. RestInv /\ DeletesBounded /\ TypeOK /\ TypeOK' /\ [Next]_vars
        => RestInv' /\ DeletesBounded'
  BY WitnessedStep
<1>3. TypeOK /\ RestInv => QuietObjects
  BY RestImplies
<1> QED BY <1>1, <1>2, <1>3, TypeCorrect, PTL DEF Spec

=============================================================================
