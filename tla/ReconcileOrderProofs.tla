------------------------ MODULE ReconcileOrderProofs ------------------------
(***************************************************************************)
(* Proofs about the order of the steps of a pass: what exists before a pod *)
(* is created, what is known before a status says Ready, and what can kill *)
(* the process; for all specs, bounds and lagging informers.               *)
(***************************************************************************)
EXTENDS ReconcileProofs

----------------------------------------------------------------------------
(* What a step of a pass does to the API server and to the pass.           *)

LEMMA ReadOnlyApi == ASSUME ReadOnly PROVE api' = api
BY DEF ReadOnly, apiServer

LEMMA FailApi ==
    ASSUME NEW newApi, NEW reported, NEW f, Fail(newApi, reported, f)
    PROVE  api' = newApi /\ pc' = 0 /\ up' = up
BY DEF Fail, WriteStatus, Commit, EndPass

LEMMA WaitApi == ASSUME Wait PROVE api' = api /\ pc' = 0 /\ up' = up
BY DEF Wait, WriteStatus, Commit, EndPass

LEMMA WriteFailsApi ==
    ASSUME NEW refused, NEW outcomes, NEW reported, WriteFails(refused, outcomes, reported)
    PROVE  (api' = api \/ (~refused /\ api' \in outcomes)) /\ pc' = 0 /\ up' = up
BY FailApi DEF WriteFails

\* A step writes nothing, creates what was missing, or deletes what was there.
Writes(o) ==
    \/ api' = api
    \/ /\ At("Ensure", o) \/ At("Present", o)
       /\ api[o] = Absent /\ api' \in Created(o)
    \/ /\ At("Ensure", o) \/ At("Remove", o)
       /\ api[o] # Absent /\ api' \in Deleted(o)

\* The steps that find out a public URL, and the objects that are Keycloak's.
UrlOps      == {"NodePort", "LoadBalancer", "RouteUrl", "NoUrl", "External"}
OfKeycloak  == {"keycloak-svc", "keycloak-route", "keycloak-pod"}

\* A step that lets the pass go on has found its object, or made it, or has
\* learned a URL, and keeps the URLs that are known.
Done(op, o) ==
    /\ At(op, o) /\ pc' = pc + 1 /\ mem'.spec = mem.spec
    /\ op \in {"Ensure", "Present"} => cache[o] # Absent \/ api'[o] # Absent
    /\ mem.st.kcUrl # NoUrl \/ (op \in UrlOps /\ o \in OfKeycloak) => mem'.st.kcUrl # NoUrl
    /\ mem.st.url # NoUrl \/ (op \in UrlOps /\ o \notin OfKeycloak) => mem'.st.url # NoUrl

\* Between the two halves of a replacement the pass stays where it is.
Stays == pc' = pc /\ mem'.spec = mem.spec /\ mem'.st = mem.st

\* Without a URL the last step cannot be one that finds it out.
LEMMA setStatusUrls ==
    ASSUME NEW m \in Mem, NEW status \in StatusValues
    PROVE  /\ setStatus(m, status).spec = m.spec
           /\ setStatus(m, status).st.kcUrl = m.st.kcUrl
           /\ setStatus(m, status).st.url = m.st.url
BY DEF setStatus, Mem, Status

\* A created object is there.
LEMMA CreatedThere ==
    ASSUME TypeOK, NEW o \in Objects, NEW newApi \in Created(o)
    PROVE  newApi[o] # Absent
<1> DEFINE want == Desired(o, mem.spec, mem.st.kcUrl, mem.st.url)
<1>1. mem.spec \in CrSpec
  BY SpecsAssumption DEF TypeOK, PassOK, Mem
<1>2. want \in SpecOf(o)
  BY <1>1, PassUrls, DesiredType DEF TypeOK
<1>3. PICK p \in PortsFor(want) : newApi = [api EXCEPT ![o] = NewObject(o, want, p)]
  BY DEF Created
<1>4. p \in NodePorts \cup {0}
  BY <1>3 DEF PortsFor
<1>5. NewObject(o, want, p) \in Object(o)
  BY <1>2, <1>4, NewObjectType
<1>6. o \in DOMAIN api
  BY DEF TypeOK, ClusterOK, IsStore
<1> QED BY <1>3, <1>5, <1>6, AbsentAssumption

\* Every step of a pass: what it writes, and how the pass moves.
Moves(o) ==
    /\ Writes(o) /\ (up' = up \/ (~up' /\ pc' = 0))
    /\ pc' = 0 \/ Stays \/ \E op : Done(op, o)

LEMMA GetFailsMoves == ASSUME TypeOK, NEW o \in Objects, GetFails(o) PROVE Moves(o)
<1>1. \A reported, f : Fail(api, reported, f) => api' = api /\ pc' = 0 /\ up' = up
  BY FailApi
<1>2. api' = api /\ pc' = 0 /\ up' = up
  BY <1>1 DEF GetFails
<1> QED BY <1>2 DEF Moves, Writes

LEMMA EnsureCreateMoves == ASSUME TypeOK, NEW o \in Objects, EnsureCreate(o) PROVE Moves(o)
<1> DEFINE m == [mem EXCEPT !.redo = FALSE,
                            !.found = IF mem.redo THEN @ ELSE Absent]
<1>1. At("Ensure", o)
  BY DEF EnsureCreate
<1>2. CASE WriteFails(api[o] # Absent, Created(o), TRUE)
  <2>1. \A reported : WriteFails(api[o] # Absent, Created(o), reported) =>
          (api' = api \/ (~(api[o] # Absent) /\ api' \in Created(o))) /\ pc' = 0 /\ up' = up
    BY WriteFailsApi
  <2>2. (api' = api \/ (~(api[o] # Absent) /\ api' \in Created(o))) /\ pc' = 0 /\ up' = up
    BY <1>2, <2>1, Zenon
  <2> QED BY <1>1, <2>2 DEF Moves, Writes
<1>3. CASE /\ api[o] = Absent
           /\ \E newApi \in Created(o) : Commit(newApi, cr, FALSE, FALSE)
           /\ Continue(setStatus(m, "Pending"))
  <2>1. api' \in Created(o)
    BY <1>3 DEF Commit
  <2>2. api'[o] # Absent
    BY <2>1, CreatedThere
  <2>3. /\ m \in Mem /\ m.spec = mem.spec
        /\ m.st.kcUrl = mem.st.kcUrl /\ m.st.url = mem.st.url
    BY DEF TypeOK, PassOK, Mem
  <2>4. /\ pc' = pc + 1 /\ mem' = setStatus(m, "Pending") /\ up' = up
    BY <1>3 DEF Continue
  <2>5. /\ mem'.spec = mem.spec
        /\ mem'.st.kcUrl = mem.st.kcUrl /\ mem'.st.url = mem.st.url
    <3> HIDE DEF m
    <3> QED BY <2>3, <2>4, setStatusUrls DEF StatusValues
  <2>6. Done("Ensure", o)
    BY <1>1, <2>2, <2>4, <2>5 DEF Done, UrlOps
  <2> QED BY <1>1, <1>3, <2>1, <2>4, <2>6 DEF Moves, Writes
<1> QED BY <1>2, <1>3 DEF EnsureCreate

LEMMA EnsureMatchMoves == ASSUME TypeOK, NEW o \in Objects, EnsureMatch(o) PROVE Moves(o)
<1> DEFINE m == [mem EXCEPT !.found = IF o \in Routes THEN cache[o] ELSE Absent]
           health == check(o, cache[o])
           next == IF health = "Ready" THEN m ELSE setStatus(m, health)
<1>1. At("Ensure", o) /\ cache[o] # Absent /\ api' = api /\ pc' = pc + 1 /\ mem' = next /\ up' = up
  BY DEF EnsureMatch, ReadOnly, apiServer, Continue
<1>2. /\ m \in Mem /\ m.spec = mem.spec
      /\ m.st.kcUrl = mem.st.kcUrl /\ m.st.url = mem.st.url
  BY FoundType DEF TypeOK, PassOK, Mem
<1>3. cache[o] \in Object(o)
  BY <1>1 DEF TypeOK, ClusterOK, IsStore
<1>4. health \in StatusValues
  BY <1>3 DEF check, Object, Conditions, StatusValues
<1>5. /\ mem'.spec = mem.spec
      /\ mem'.st.kcUrl = mem.st.kcUrl /\ mem'.st.url = mem.st.url
  <2> HIDE DEF m, health
  <2> QED BY <1>1, <1>2, <1>4, setStatusUrls
<1>6. Done("Ensure", o)
  BY <1>1, <1>5 DEF Done, UrlOps
<1> QED BY <1>1, <1>6 DEF Moves, Writes

LEMMA EnsureReplaceMoves == ASSUME TypeOK, NEW o \in Objects, EnsureReplace(o) PROVE Moves(o)
<1>1. At("Ensure", o)
  BY DEF EnsureReplace
<1>2. CASE WriteFails(api[o] = Absent, Deleted(o), TRUE)
  <2>1. \A reported : WriteFails(api[o] = Absent, Deleted(o), reported) =>
          (api' = api \/ (~(api[o] = Absent) /\ api' \in Deleted(o))) /\ pc' = 0 /\ up' = up
    BY WriteFailsApi
  <2>2. (api' = api \/ (~(api[o] = Absent) /\ api' \in Deleted(o))) /\ pc' = 0 /\ up' = up
    BY <1>2, <2>1, Zenon
  <2> QED BY <1>1, <2>2 DEF Moves, Writes
<1>3. CASE /\ api[o] # Absent
           /\ \E newApi \in Deleted(o) : Commit(newApi, cr, FALSE, FALSE)
           /\ mem' = [mem EXCEPT !.redo = TRUE,
                                 !.found = IF o \in Routes THEN cache[o] ELSE Absent]
           /\ UNCHANGED <<up, pc, fresh, budget>>
  <2>1. api' \in Deleted(o)
    BY <1>3 DEF Commit
  <2>2. Stays
    BY <1>3 DEF Stays, TypeOK, PassOK, Mem
  <2> QED BY <1>1, <1>3, <2>1, <2>2 DEF Moves, Writes
<1> QED BY <1>2, <1>3 DEF EnsureReplace

LEMMA EnsureDeletedMoves == ASSUME TypeOK, NEW o \in Objects, EnsureDeleted(o) PROVE Moves(o)
<1>1. At("Remove", o)
  BY DEF EnsureDeleted
<1>2. CASE WriteFails(api[o] = Absent, Deleted(o), TRUE)
  <2>1. \A reported : WriteFails(api[o] = Absent, Deleted(o), reported) =>
          (api' = api \/ (~(api[o] = Absent) /\ api' \in Deleted(o))) /\ pc' = 0 /\ up' = up
    BY WriteFailsApi
  <2>2. (api' = api \/ (~(api[o] = Absent) /\ api' \in Deleted(o))) /\ pc' = 0 /\ up' = up
    BY <1>2, <2>1, Zenon
  <2> QED BY <1>1, <2>2 DEF Moves, Writes
<1>3. CASE Continue(mem) /\ (ReadOnly \/ (/\ api[o] # Absent
                                          /\ \E newApi \in Deleted(o) : Commit(newApi, cr, FALSE, FALSE)))
  <2>1. Done("Remove", o) /\ up' = up
    BY <1>1, <1>3 DEF Continue, Done, UrlOps
  <2>2. Writes(o)
    BY <1>1, <1>3 DEF ReadOnly, apiServer, Commit, Writes
  <2> QED BY <2>1, <2>2 DEF Moves
<1> QED BY <1>2, <1>3 DEF EnsureDeleted

LEMMA PresentMoves == ASSUME TypeOK, NEW o \in Objects, Present(o) PROVE Moves(o)
<1>1. At("Present", o)
  BY DEF Present
<1>2. CASE WriteFails(api[o] # Absent, Created(o), o = "ca-certs")
  BY <1>1, <1>2, WriteFailsApi DEF Moves, Writes
<1>3. CASE cache[o] # Absent /\ Continue(mem) /\ ReadOnly
  <2>1. Done("Present", o) /\ up' = up
    BY <1>1, <1>3 DEF Continue, Done, UrlOps
  <2> QED BY <1>3, <2>1, ReadOnlyApi DEF Moves, Writes
<1>4. CASE /\ api[o] = Absent /\ Continue(mem)
           /\ \E newApi \in Created(o) : Commit(newApi, cr, FALSE, FALSE)
  <2>1. api' \in Created(o)
    BY <1>4 DEF Commit
  <2>2. Done("Present", o) /\ up' = up
    BY <1>1, <1>4, <2>1, CreatedThere DEF Continue, Done, UrlOps
  <2> QED BY <1>1, <1>4, <2>1, <2>2 DEF Moves, Writes
<1> QED BY <1>2, <1>3, <1>4 DEF Present

LEMMA CheckRouteMoves == ASSUME TypeOK, NEW o \in Objects, CheckRoute(o) PROVE Moves(o)
<1>1. At("CheckRoute", o)
  BY DEF CheckRoute
<1>2. \/ Continue(mem) /\ ReadOnly
      \/ Fail(api, FALSE, 0) \/ Fail(api, TRUE, 0) \/ Fail(api, TRUE, 1)
  BY DEF CheckRoute
<1>3. \A reported, f : Fail(api, reported, f) => api' = api /\ pc' = 0 /\ up' = up
  BY FailApi
<1>4. CASE Continue(mem) /\ ReadOnly
  <2>1. Done("CheckRoute", o) /\ up' = up
    BY <1>1, <1>4 DEF Continue, Done, UrlOps
  <2> QED BY <1>4, <2>1, ReadOnlyApi DEF Moves, Writes
<1>5. CASE api' = api /\ pc' = 0 /\ up' = up
  BY <1>5 DEF Moves, Writes
<1> QED BY <1>2, <1>3, <1>4, <1>5, Zenon

\* A URL that is learned is one.
LEMMA LearnUrlMoves ==
    ASSUME TypeOK, NEW o \in Objects, NEW url, url # NoUrl, NEW op \in UrlOps,
           At(op, o), LearnUrl(o, url)
    PROVE  Moves(o)
<1>1. api' = api /\ pc' = pc + 1 /\ up' = up
  BY DEF LearnUrl, Continue, ReadOnly, apiServer
<1>2. CASE o \in OfKeycloak
  <2>1. mem' = [mem EXCEPT !.st.kcUrl = url, !.found = Absent]
    BY <1>2 DEF LearnUrl, Continue, OfKeycloak
  <2>2. mem'.spec = mem.spec /\ mem'.st.kcUrl = url /\ mem'.st.url = mem.st.url
    BY <2>1 DEF TypeOK, PassOK, Mem, Status
  <2> QED BY <1>1, <1>2, <2>2 DEF Moves, Writes, Done, UrlOps
<1>3. CASE o \notin OfKeycloak
  <2>1. mem' = [mem EXCEPT !.st.url = url, !.found = Absent]
    BY <1>3 DEF LearnUrl, Continue, OfKeycloak
  <2>2. mem'.spec = mem.spec /\ mem'.st.url = url /\ mem'.st.kcUrl = mem.st.kcUrl
    BY <2>1 DEF TypeOK, PassOK, Mem, Status
  <2> QED BY <1>1, <1>3, <2>2 DEF Moves, Writes, Done, UrlOps
<1> QED BY <1>2, <1>3

LEMMA WaitMoves == ASSUME NEW o, Wait PROVE Moves(o)
BY WaitApi DEF Moves, Writes

LEMMA PanicMoves == ASSUME NEW o, Panic PROVE Moves(o)
BY DEF Panic, apiServer, Moves, Writes

LEMMA NodePortMoves == ASSUME TypeOK, NEW o \in Objects, NodePort(o) PROVE Moves(o)
<1>1. CASE Fail(api, FALSE, 0)
  <2>1. \A reported : Fail(api, reported, 0) => api' = api /\ pc' = 0 /\ up' = up
    BY FailApi
  <2>2. api' = api /\ pc' = 0 /\ up' = up
    BY <1>1, <2>1, Zenon
  <2> QED BY <2>2 DEF Moves, Writes
<1>2. CASE LearnUrl(o, <<"https", mem.spec.nodeHost, cache[o].port>>)
  <2>1. At("NodePort", o) /\ "NodePort" \in UrlOps
    BY DEF NodePort, UrlOps
  <2>2. <<"https", mem.spec.nodeHost, cache[o].port>> # NoUrl
    BY DEF NoUrl
  <2> QED BY <1>2, <2>1, <2>2, LearnUrlMoves
<1> QED BY <1>1, <1>2, WaitMoves DEF NodePort

LEMMA RouteUrlMoves == ASSUME TypeOK, NEW o \in Objects, RouteUrl(o) PROVE Moves(o)
<1>1. At("RouteUrl", o) /\ "RouteUrl" \in UrlOps
  BY DEF RouteUrl, UrlOps
<1>2. \/ Wait
      \/ getRouteUrl(o, mem.found) # NoUrl /\ LearnUrl(o, getRouteUrl(o, mem.found))
  BY DEF RouteUrl
<1> QED BY <1>1, <1>2, WaitMoves, LearnUrlMoves

LEMMA LoadBalancerMoves == ASSUME TypeOK, NEW o \in Objects, LoadBalancer(o) PROVE Moves(o)
BY WaitMoves, PanicMoves DEF LoadBalancer

LEMMA NoUrlWaitMoves == ASSUME TypeOK, NEW o \in Objects, NoUrlWait(o) PROVE Moves(o)
BY WaitMoves DEF NoUrlWait

LEMMA ExternalMoves == ASSUME TypeOK, NEW o \in Objects, External(o) PROVE Moves(o)
<1>1. At("External", o) /\ "External" \in UrlOps
  BY DEF External, UrlOps
<1>2. mem.spec.kcExt # NoUrl
  BY <1>1, AtStep DEF TypeOK
<1>3. Panic \/ LearnUrl(o, mem.spec.kcExt)
  BY DEF External
<1> QED BY <1>1, <1>2, <1>3, PanicMoves, LearnUrlMoves

LEMMA StepMoves == ASSUME TypeOK, NEW o \in Objects, Step(o) PROVE Moves(o)
BY GetFailsMoves, EnsureCreateMoves, EnsureMatchMoves, EnsureReplaceMoves, EnsureDeletedMoves,
   PresentMoves, CheckRouteMoves, NodePortMoves, RouteUrlMoves, LoadBalancerMoves,
   NoUrlWaitMoves, ExternalMoves DEF Step
----------------------------------------------------------------------------
(* What every step leaves alone.                                           *)

\* A resource is not revived, no deletion is given back, and a cache only ever
\* changes to what the API server holds.
Tame ==
    /\ cr'.live => cr.live
    /\ budget'["delete"] <= budget["delete"]
    /\ \A o \in Objects : cache'[o] \in {cache[o], api'[o]}

\* The status is not made Ready.
Unready == cr'.st = cr.st \/ cr'.st.status # "Ready"

LEMMA CommitTame ==
    ASSUME NEW newApi, NEW newCr, NEW crChanged, NEW requeue,
           Commit(newApi, newCr, crChanged, requeue)
    PROVE  /\ cr' = newCr /\ api' = newApi
           /\ \A o \in Objects : cache'[o] \in {cache[o], api'[o]}
BY DEF Commit

\* Faults are not deletions.
LEMMA DeletesLeft ==
    ASSUME TypeOK
    PROVE  /\ budget["delete"] <= budget["delete"]
           /\ \A x : [budget EXCEPT !["fault"] = x]["delete"] = budget["delete"]
BY DEF TypeOK, BudgetOK, Disturbances

LEMMA WriteStatusTame ==
    ASSUME TypeOK, NEW newApi, NEW m, NEW current, NEW requeue, NEW f,
           WriteStatus(newApi, m, current, requeue, f)
    PROVE  Tame /\ (cr'.st = cr.st \/ cr'.st = m.st)
<1>1. cr \in Horreum
  BY DEF TypeOK, ClusterOK
<1>2. [cr EXCEPT !.st = m.st].st = m.st /\ [cr EXCEPT !.st = m.st].live = cr.live
  BY <1>1 DEF Horreum
<1>3. \A x : budget' = [budget EXCEPT !["fault"] = x] => budget'["delete"] <= budget["delete"]
  BY DeletesLeft
<1>4. budget'["delete"] <= budget["delete"]
  BY <1>3 DEF WriteStatus
<1>5. PICK newCr \in {cr, [cr EXCEPT !.st = m.st]} :
        \E crChanged : Commit(newApi, newCr, crChanged, requeue)
  BY DEF WriteStatus
<1>6. cr' = newCr /\ \A o \in Objects : cache'[o] \in {cache[o], api'[o]}
  BY <1>5, CommitTame
<1> QED BY <1>2, <1>4, <1>6 DEF Tame

\* Error stands, and so does what is not Ready.
LEMMA setStatusUnready ==
    ASSUME NEW m \in Mem, NEW status \in StatusValues \ {"Ready"}
    PROVE  setStatus(m, status).st.status # "Ready"
BY DEF setStatus, Mem, Status

LEMMA FailTame ==
    ASSUME TypeOK, NEW newApi, NEW reported, NEW f, Fail(newApi, reported, f)
    PROVE  Tame /\ Unready
<1>1. CASE reported
  <2>1. setStatus(mem, "Error").st.status # "Ready"
    BY setStatusUnready DEF TypeOK, PassOK, StatusValues
  <2>2. \A requeue : WriteStatus(newApi, setStatus(mem, "Error"), fresh, requeue, f)
          => Tame /\ (cr'.st = cr.st \/ cr'.st = setStatus(mem, "Error").st)
    BY WriteStatusTame
  <2>3. WriteStatus(newApi, setStatus(mem, "Error"), fresh, TRUE, f)
    BY <1>1 DEF Fail
  <2> QED BY <2>1, <2>2, <2>3, Zenon DEF Unready
<1>2. CASE ~reported
  <2>1. \A crChanged, requeue : Commit(newApi, cr, crChanged, requeue)
          => cr' = cr /\ \A o \in Objects : cache'[o] \in {cache[o], api'[o]}
    BY CommitTame
  <2>2. Commit(newApi, cr, FALSE, TRUE)
    BY <1>2 DEF Fail
  <2>3. cr' = cr /\ \A o \in Objects : cache'[o] \in {cache[o], api'[o]}
    BY <2>1, <2>2, Zenon
  <2>4. budget' = [budget EXCEPT !["fault"] = @ - f]
    BY <1>2 DEF Fail
  <2> QED BY <2>3, <2>4, DeletesLeft DEF Tame, Unready
<1> QED BY <1>1, <1>2

LEMMA WaitTame == ASSUME TypeOK, Wait PROVE Tame /\ Unready
<1>1. setStatus(mem, "Pending").st.status # "Ready"
  BY setStatusUnready DEF TypeOK, PassOK, StatusValues
<1>2. \A requeue : WriteStatus(api, setStatus(mem, "Pending"), fresh, requeue, 0)
        => Tame /\ (cr'.st = cr.st \/ cr'.st = setStatus(mem, "Pending").st)
  BY WriteStatusTame
<1> QED BY <1>1, <1>2, Zenon DEF Wait, Unready

LEMMA WriteFailsTame ==
    ASSUME TypeOK, NEW refused, NEW outcomes, NEW reported,
           WriteFails(refused, outcomes, reported)
    PROVE  Tame /\ Unready
BY FailTame DEF WriteFails

LEMMA ReadOnlyTame == ASSUME TypeOK, ReadOnly PROVE Tame /\ Unready
BY DeletesLeft DEF ReadOnly, apiServer, informers, Tame, Unready

\* A successful write of a pass.
LEMMA WriteTame ==
    ASSUME TypeOK, NEW newApi, Commit(newApi, cr, FALSE, FALSE), UNCHANGED budget
    PROVE  Tame /\ Unready
<1>1. \A crChanged, requeue : Commit(newApi, cr, crChanged, requeue)
        => cr' = cr /\ \A o \in Objects : cache'[o] \in {cache[o], api'[o]}
  BY CommitTame
<1>2. cr' = cr /\ \A o \in Objects : cache'[o] \in {cache[o], api'[o]}
  BY <1>1, Zenon
<1> QED BY <1>2, DeletesLeft DEF Tame, Unready

LEMMA PanicTame ==
    ASSUME TypeOK, Panic, UNCHANGED budget \/ Spend("fault") PROVE Tame /\ Unready
BY DeletesLeft DEF Panic, Spend, apiServer, informers, Tame, Unready

LEMMA StepTame == ASSUME TypeOK, NEW o \in Objects, Step(o) PROVE Tame /\ Unready
<1>1. \A newApi, reported, f : Fail(newApi, reported, f) => Tame /\ Unready
  BY FailTame
<1>2. \A refused, outcomes, reported : WriteFails(refused, outcomes, reported)
        => Tame /\ Unready
  BY WriteFailsTame
<1>3. CASE GetFails(o) \/ CheckRoute(o)
  BY <1>1, <1>3, ReadOnlyTame, Zenon DEF GetFails, CheckRoute
<1>4. CASE EnsureCreate(o)
  <2>1. \/ WriteFails(api[o] # Absent, Created(o), TRUE)
        \/ UNCHANGED budget /\ \E newApi \in Created(o) : Commit(newApi, cr, FALSE, FALSE)
    BY <1>4 DEF EnsureCreate
  <2> QED BY <1>2, <2>1, WriteTame, Zenon
<1>5. CASE EnsureMatch(o)
  BY <1>5, ReadOnlyTame DEF EnsureMatch
<1>6. CASE EnsureReplace(o)
  <2>1. \/ WriteFails(api[o] = Absent, Deleted(o), TRUE)
        \/ UNCHANGED budget /\ \E newApi \in Deleted(o) : Commit(newApi, cr, FALSE, FALSE)
    BY <1>6 DEF EnsureReplace
  <2> QED BY <1>2, <2>1, WriteTame, Zenon
<1>7. CASE EnsureDeleted(o)
  <2>1. \/ ReadOnly
        \/ WriteFails(api[o] = Absent, Deleted(o), TRUE)
        \/ UNCHANGED budget /\ \E newApi \in Deleted(o) : Commit(newApi, cr, FALSE, FALSE)
    BY <1>7 DEF EnsureDeleted
  <2> QED BY <1>2, <2>1, ReadOnlyTame, WriteTame, Zenon
<1>8. CASE Present(o)
  <2>1. \/ ReadOnly
        \/ WriteFails(api[o] # Absent, Created(o), o = "ca-certs")
        \/ UNCHANGED budget /\ \E newApi \in Created(o) : Commit(newApi, cr, FALSE, FALSE)
    BY <1>8 DEF Present
  <2> QED BY <1>2, <2>1, ReadOnlyTame, WriteTame, Zenon
<1>9. CASE NodePort(o) \/ RouteUrl(o)
  <2>1. Fail(api, FALSE, 0) \/ Wait \/ ReadOnly
    BY <1>9 DEF NodePort, RouteUrl, LearnUrl
  <2> QED BY <1>1, <2>1, WaitTame, ReadOnlyTame, Zenon
<1>10. CASE LoadBalancer(o) \/ NoUrlWait(o) \/ External(o)
  BY <1>10, WaitTame, PanicTame, ReadOnlyTame DEF LoadBalancer, NoUrlWait, External, LearnUrl
<1> QED BY <1>3, <1>4, <1>5, <1>6, <1>7, <1>8, <1>9, <1>10 DEF Step
\* The actions outside a step of a pass: none of them brings anything into
\* being, and none takes a pass forward except to its first step.
Still ==
    /\ \A o \in Objects : api[o] = Absent => api'[o] = Absent
    /\ \/ pc' = 0 \/ (pc' = 1 /\ pc = 0)
       \/ pc' = pc /\ mem' = mem

LEMMA BeginStill == ASSUME TypeOK, Begin PROVE Still /\ Tame /\ Unready
<1> DEFINE m == [Idle EXCEPT !.spec = crCache.spec, !.st = crCache.st]
<1>1. CASE WriteStatus(api, setStatus(m, "Error"), crFresh, TRUE, 0) /\ UNCHANGED pass
  <2>1. m \in Mem
    BY IdleType DEF TypeOK, ClusterOK, Horreum, Mem
  <2> HIDE DEF m
  <2>2. setStatus(m, "Error").st.status # "Ready"
    BY <2>1, setStatusUnready DEF StatusValues
  <2>3. \A requeue : WriteStatus(api, setStatus(m, "Error"), crFresh, requeue, 0)
          => Tame /\ (cr'.st = cr.st \/ cr'.st = setStatus(m, "Error").st)
    BY WriteStatusTame
  <2>4. Tame /\ Unready
    BY <1>1, <2>2, <2>3, Zenon DEF Unready
  <2>5. Still
    BY <1>1 DEF WriteStatus, Commit, pass, Still
  <2> QED BY <2>4, <2>5
<1>2. CASE UNCHANGED <<apiServer, informers, budget>> /\ (UNCHANGED pass \/ (pc = 0 /\ pc' = 1))
  BY <1>2, DeletesLeft DEF apiServer, informers, pass, Still, Tame, Unready
<1> QED BY <1>1, <1>2 DEF Begin

LEMMA RestartStill == ASSUME TypeOK, Restart PROVE Still /\ Tame /\ Unready
BY DeletesLeft DEF Restart, apiServer, Still, Tame, Unready, TypeOK, ClusterOK, IsStore

LEMMA InformersStill == ASSUME TypeOK, Informers PROVE Still /\ Tame /\ Unready
<1>1. ASSUME NEW k \in Kinds, Sync(k) PROVE Still /\ Tame /\ Unready
  BY <1>1, DeletesLeft DEF Sync, apiServer, pass, Still, Tame, Unready
<1>2. CASE SyncHorreum \/ Resync
  BY <1>2, DeletesLeft DEF SyncHorreum, Resync, apiServer, informers, pass, Still, Tame, Unready
<1> QED BY <1>1, <1>2 DEF Informers

LEMMA ChangeStill ==
    ASSUME TypeOK, NEW o \in Objects, NEW obj, api[o] # Absent, Change(o, obj)
    PROVE  Still /\ cr' = cr /\ \A x \in Objects : cache'[x] \in {cache[x], api'[x]}
<1>1. \A crChanged, requeue : Commit([api EXCEPT ![o] = obj], cr, crChanged, requeue)
        => /\ cr' = cr /\ api' = [api EXCEPT ![o] = obj]
           /\ \A x \in Objects : cache'[x] \in {cache[x], api'[x]}
  BY CommitTame
<1>2. Commit([api EXCEPT ![o] = obj], cr, FALSE, FALSE) /\ UNCHANGED pass
  BY DEF Change
<1>3. /\ cr' = cr /\ api' = [api EXCEPT ![o] = obj]
      /\ \A x \in Objects : cache'[x] \in {cache[x], api'[x]}
  BY <1>1, <1>2, Zenon
<1>4. Still
  BY <1>2, <1>3 DEF pass, Still, TypeOK, ClusterOK, IsStore
<1> QED BY <1>3, <1>4

LEMMA ClusterStill == ASSUME TypeOK, Cluster PROVE Still /\ Tame /\ Unready
<1>1. ASSUME NEW o \in Objects, BecomeOk(o) \/ Terminate(o) PROVE Still /\ Tame /\ Unready
  BY <1>1, ChangeStill, DeletesLeft DEF BecomeOk, Terminate, Tame, Unready
<1>2. CASE CollectGarbage
  BY <1>2, DeletesLeft DEF CollectGarbage, Commit, pass, Still, Tame, Unready
<1> QED BY <1>1, <1>2 DEF Cluster

LEMMA SpendTame == ASSUME TypeOK, NEW d \in Disturbances, Spend(d)
                   PROVE  budget'["delete"] <= budget["delete"]
BY DEF Spend, TypeOK, BudgetOK, Disturbances

LEMMA TroubleStill == ASSUME TypeOK, Trouble PROVE Still /\ Tame /\ Unready
<1> USE DEF Disturbances
<1>1. ASSUME NEW o \in Objects, BecomeBad(o) PROVE Still /\ Tame /\ Unready
  BY <1>1, ChangeStill, SpendTame DEF BecomeBad, Tame, Unready
<1>2. ASSUME NEW o \in Objects, DeleteObject(o) PROVE Still /\ Tame /\ Unready
  <2>1. PICK newApi \in Deleted(o) : Commit(newApi, cr, FALSE, FALSE)
    BY <1>2 DEF DeleteObject
  <2>2. api[o] # Absent
    BY <1>2 DEF DeleteObject, Owned
  <2>3. \A crChanged, requeue : Commit(newApi, cr, crChanged, requeue)
          => cr' = cr /\ api' = newApi /\ \A x \in Objects : cache'[x] \in {cache[x], api'[x]}
    BY CommitTame
  <2>4. cr' = cr /\ api' = newApi /\ \A x \in Objects : cache'[x] \in {cache[x], api'[x]}
    BY <2>1, <2>3, Zenon
  <2>5. \A x \in Objects \ {o} : api'[x] = api[x]
    BY <2>2, <2>1, <2>4, DeletedType DEF TypeOK, ClusterOK
  <2>6. Still
    BY <1>2, <2>2, <2>5 DEF DeleteObject, pass, Still
  <2> QED BY <1>2, <2>4, <2>6, SpendTame DEF DeleteObject, Tame, Unready
<1>3. ASSUME NEW s \in Specs, EditSpec(s) PROVE Still /\ Tame /\ Unready
  BY <1>3, SpendTame DEF EditSpec, Commit, Still, Tame, Unready, TypeOK, ClusterOK, Horreum
<1>4. CASE DeleteHorreum
  BY <1>4, SpendTame DEF DeleteHorreum, Commit, Still, Tame, Unready, TypeOK, ClusterOK, Horreum
<1>5. CASE Crash
  BY <1>5, SpendTame DEF Crash, apiServer, informers, Still, Tame, Unready
<1> QED BY <1>1, <1>2, <1>3, <1>4, <1>5 DEF Trouble

LEMMA FinishStill ==
    ASSUME TypeOK, Finish PROVE Still /\ Tame /\ (cr'.st = cr.st \/ cr'.st = mem.st)
<1>1. \A requeue : WriteStatus(api, mem, fresh, requeue, 0)
        => Tame /\ (cr'.st = cr.st \/ cr'.st = mem.st)
  BY WriteStatusTame
<1>2. WriteStatus(api, mem, fresh, FALSE, 0) /\ EndPass
  BY DEF Finish
<1>3. Still
  BY <1>2 DEF WriteStatus, Commit, EndPass, Still
<1> QED BY <1>1, <1>2, <1>3, Zenon

\* Every step of the system: a step of a pass, its last update, or one that
\* brings nothing into being and does not say Ready.
LEMMA NextShape ==
    ASSUME TypeOK, Next
    PROVE  /\ Tame
           /\ \/ Unready /\ Still
              \/ Unready /\ \E o \in Objects : Moves(o)
              \/ Finish /\ Still /\ (cr'.st = cr.st \/ cr'.st = mem.st)
<1>1. ASSUME NEW o \in Objects, Step(o) PROVE Tame /\ Unready /\ Moves(o)
  BY <1>1, StepTame, StepMoves
<1> QED BY <1>1, BeginStill, RestartStill, FinishStill, InformersStill, ClusterStill,
           TroubleStill DEF Next, Operator
----------------------------------------------------------------------------
(* The steps a program holds.                                              *)

LEMMA StepsHold ==
    ASSUME NEW op, NEW S, NEW objs \in Seq(S)
    PROVE  /\ Steps(op, objs) \in Seq({op} \X S)
           /\ \A i \in 1..Len(objs) : <<op, objs[i]>> \in ToSet(Steps(op, objs))
<1>1. DOMAIN objs = 1..Len(objs) /\ Len(objs) \in Nat
  OBVIOUS
<1>2. \A i \in DOMAIN objs : objs[i] \in S
  OBVIOUS
<1> QED BY <1>1, <1>2 DEF Steps, ToSet

LEMMA ConcatHolds ==
    ASSUME NEW S, NEW p \in Seq(S), NEW q \in Seq(S)
    PROVE  ToSet(p \o q) = ToSet(p) \cup ToSet(q)
<1>1. /\ p \o q \in Seq(S) /\ Len(p \o q) = Len(p) + Len(q)
      /\ \A i \in 1..Len(p) : (p \o q)[i] = p[i]
      /\ \A i \in Len(p) + 1 .. Len(p) + Len(q) : (p \o q)[i] = q[i - Len(p)]
  BY ConcatProperties
<1>2. /\ Len(p) \in Nat /\ DOMAIN p = 1..Len(p)
      /\ Len(q) \in Nat /\ DOMAIN q = 1..Len(q)
      /\ DOMAIN (p \o q) = 1..(Len(p) + Len(q))
  BY <1>1
<1>3. \A i \in 1..Len(q) :
        Len(p) + i \in Len(p) + 1 .. Len(p) + Len(q) /\ (p \o q)[Len(p) + i] = q[i]
  <2> SUFFICES ASSUME NEW i \in 1..Len(q)
               PROVE  Len(p) + i \in Len(p) + 1 .. Len(p) + Len(q) /\ (p \o q)[Len(p) + i] = q[i]
    OBVIOUS
  <2>1. Len(p) + i \in Len(p) + 1 .. Len(p) + Len(q) /\ Len(p) + i - Len(p) = i
    BY <1>2
  <2> QED BY <1>1, <2>1
<1>4. ToSet(p \o q) \subseteq ToSet(p) \cup ToSet(q)
  <2> SUFFICES ASSUME NEW i \in 1..(Len(p) + Len(q))
               PROVE  (p \o q)[i] \in ToSet(p) \cup ToSet(q)
    BY <1>2 DEF ToSet
  <2>1. CASE i <= Len(p)
    BY <1>1, <1>2, <2>1 DEF ToSet
  <2>2. CASE i > Len(p)
    <3>1. i - Len(p) \in 1..Len(q) /\ i \in Len(p) + 1 .. Len(p) + Len(q)
      BY <1>2, <2>2
    <3>2. (p \o q)[i] = q[i - Len(p)]
      BY <1>1, <3>1
    <3> QED BY <1>2, <3>1, <3>2 DEF ToSet
  <2> QED BY <1>2, <2>1, <2>2
<1>5. ToSet(p) \subseteq ToSet(p \o q)
  <2> SUFFICES ASSUME NEW i \in 1..Len(p) PROVE p[i] \in ToSet(p \o q)
    BY <1>2 DEF ToSet
  <2> QED BY <1>1, <1>2 DEF ToSet
<1>6. ToSet(q) \subseteq ToSet(p \o q)
  <2> SUFFICES ASSUME NEW i \in 1..Len(q) PROVE q[i] \in ToSet(p \o q)
    BY <1>2 DEF ToSet
  <2>1. Len(p) + i \in 1..(Len(p) + Len(q)) /\ (p \o q)[Len(p) + i] = q[i]
    BY <1>2, <1>3
  <2> QED BY <1>2, <2>1 DEF ToSet
<1> QED BY <1>4, <1>5, <1>6

\* What a pod needs, and what the first steps of every program make.
Needed == Credentials \cup {"service-ca"} \cup (IF RoutesAvailable THEN {} ELSE CertSecrets)

LEMMA SecretStepsHold ==
    /\ SecretSteps \in Seq({"Ensure", "Present"} \X Kept)
    /\ \A o \in Needed : \E i \in 1..Len(SecretSteps) : SecretSteps[i][2] = o
<1> DEFINE certs == <<"ca-certs", "service-ca", "app-certs", "keycloak-certs">>
           creds == <<"db-admin", "app", "keycloak-admin", "keycloak-db", "admin">>
           E == Steps("Ensure", <<"service-ca">>)
           P == Steps("Present", certs)
           C == Steps("Ensure", creds)
           T == {"Ensure", "Present"} \X Kept
<1>1. /\ <<"service-ca">> \in Seq(Kept) /\ Len(<<"service-ca">>) = 1
      /\ certs \in Seq(Kept) /\ Len(certs) = 4
      /\ creds \in Seq(Kept) /\ Len(creds) = 5
  BY DEF Kept, Secrets, CertSecrets, Credentials
<1>2. /\ E \in Seq({"Ensure"} \X Kept) /\ <<"Ensure", "service-ca">> \in ToSet(E)
  <2>1. 1 \in 1..Len(<<"service-ca">>)
    BY <1>1
  <2> QED BY <1>1, <2>1, StepsHold
<1>3. /\ P \in Seq({"Present"} \X Kept)
      /\ \A o \in Certificates : <<"Present", o>> \in ToSet(P)
  <2>1. P \in Seq({"Present"} \X Kept) /\ \A i \in 1..4 : <<"Present", certs[i]>> \in ToSet(P)
    BY <1>1, StepsHold
  <2>2. \A o \in Certificates : \E i \in 1..4 : certs[i] = o
    <3>1. certs[1] = "ca-certs" /\ certs[2] = "service-ca" /\ certs[3] = "app-certs"
          /\ certs[4] = "keycloak-certs"
      OBVIOUS
    <3> QED BY <3>1 DEF Certificates, CertSecrets
  <2> HIDE DEF P, certs
  <2> QED BY <2>1, <2>2
<1>4. /\ C \in Seq({"Ensure"} \X Kept)
      /\ \A o \in Credentials : <<"Ensure", o>> \in ToSet(C)
  <2>1. C \in Seq({"Ensure"} \X Kept) /\ \A i \in 1..5 : <<"Ensure", creds[i]>> \in ToSet(C)
    BY <1>1, StepsHold
  <2>2. \A o \in Credentials : \E i \in 1..5 : creds[i] = o
    <3>1. creds[1] = "db-admin" /\ creds[2] = "app" /\ creds[3] = "keycloak-admin"
          /\ creds[4] = "keycloak-db" /\ creds[5] = "admin"
      OBVIOUS
    <3> QED BY <3>1 DEF Credentials
  <2> HIDE DEF C, creds
  <2> QED BY <2>1, <2>2
<1>5. E \in Seq(T) /\ P \in Seq(T) /\ C \in Seq(T)
  <2>1. \A op \in {"Ensure", "Present"} : Seq({op} \X Kept) \subseteq Seq(T)
    OBVIOUS
  <2> HIDE DEF E, P, C, T
  <2> QED BY <1>2, <1>3, <1>4, <2>1
<1>6. SecretSteps = (IF RoutesAvailable THEN E ELSE P) \o C
  BY DEF SecretSteps
<1> HIDE DEF E, P, C
<1>7. SecretSteps \in Seq(T)
  BY <1>5, <1>6, Concat
<1>8. ToSet(SecretSteps) = (IF RoutesAvailable THEN ToSet(E) ELSE ToSet(P)) \cup ToSet(C)
  BY <1>5, <1>6, ConcatHolds
<1>9. \A o \in Needed : \E op : <<op, o>> \in ToSet(SecretSteps)
  BY <1>2, <1>3, <1>4, <1>8 DEF Needed, Certificates
<1>10. DOMAIN SecretSteps = 1..Len(SecretSteps)
  BY <1>7
<1>11. \A o \in Needed : \E i \in 1..Len(SecretSteps) : SecretSteps[i][2] = o
  BY <1>9, <1>10 DEF ToSet
<1> QED BY <1>7, <1>11

\* Every program begins with them.
LEMMA ProgramBegins ==
    ASSUME NEW s
    PROVE  /\ Len(SecretSteps) \in Nat
           /\ \A i \in 1..Len(SecretSteps) :
                Program(s)[i] = SecretSteps[i] /\ SecretSteps[i] \in {"Ensure", "Present"} \X Kept
<1>1. /\ PostgresSteps(s) \in Seq(StepSet(s)) /\ KeycloakSteps(s) \in Seq(StepSet(s))
      /\ AppSteps(s) \in Seq(StepSet(s)) /\ SecretSteps \in Seq(StepSet(s))
  BY SecretStepsType, PostgresStepsType, KeycloakStepsType, AppStepsType
<1>2. /\ SecretSteps \o PostgresSteps(s) \in Seq(StepSet(s))
      /\ SecretSteps \o PostgresSteps(s) \o KeycloakSteps(s) \in Seq(StepSet(s))
  BY <1>1, Concat
<1>3. \A i \in 1..Len(SecretSteps) : Program(s)[i] = SecretSteps[i]
  <2> DEFINE p == SecretSteps \o PostgresSteps(s)
             q == p \o KeycloakSteps(s)
  <2>1. /\ Len(SecretSteps) \in Nat
        /\ Len(p) = Len(SecretSteps) + Len(PostgresSteps(s))
        /\ \A i \in 1..Len(SecretSteps) : p[i] = SecretSteps[i]
        /\ Len(PostgresSteps(s)) \in Nat
    BY <1>1, ConcatProperties
  <2>2. /\ Len(q) = Len(p) + Len(KeycloakSteps(s))
        /\ \A i \in 1..Len(p) : q[i] = p[i]
        /\ Len(KeycloakSteps(s)) \in Nat
    BY <1>1, <1>2, ConcatProperties
  <2>3. \A i \in 1..Len(q) : (q \o AppSteps(s))[i] = q[i]
    BY <1>1, <1>2, ConcatProperties
  <2>4. Program(s) = q \o AppSteps(s)
    BY DEF Program
  <2> HIDE DEF p, q
  <2> QED BY <2>1, <2>2, <2>3, <2>4
<1>4. \A i \in 1..Len(SecretSteps) : SecretSteps[i] \in {"Ensure", "Present"} \X Kept
  BY SecretStepsHold
<1> QED BY <1>1, <1>3, <1>4
----------------------------------------------------------------------------
(* Dependencies come first.                                                *)

\* The resource lives and nobody has deleted an object.
Undeleted == cr.live /\ budget["delete"] = Bounds["delete"]

\* What a cache shows of the secrets and the bundle is there.
CacheBacked == \A o \in Kept : cache[o] # Absent => api[o] # Absent

\* A pass that has gone past the step for one of them has left it there.
StepsDone == \A i \in 1..Len(SecretSteps) : i < pc => api[SecretSteps[i][2]] # Absent

\* As soon as there is a pod, all of them are there.
PodsLast ==
    (\E p \in Pods : api[p] # Absent) =>
      \A i \in 1..Len(SecretSteps) : api[SecretSteps[i][2]] # Absent

OrderInv ==
    /\ budget["delete"] <= Bounds["delete"]
    /\ Undeleted => CacheBacked /\ StepsDone /\ PodsLast

LEMMA NeededSteps == ASSUME PodsLast, cr.live PROVE DependenciesFirst
BY SecretStepsHold DEF PodsLast, DependenciesFirst, Needed

\* A calm that is still there was there before, and it keeps the secrets.
LEMMA CalmStep ==
    ASSUME TypeOK, Next, OrderInv, Undeleted'
    PROVE  Undeleted /\ Keeps(api')
<1>1. Tame
  BY NextShape
<1>2. /\ budget["delete"] \in Nat /\ Bounds["delete"] \in Nat
      /\ budget'["delete"] <= budget["delete"] /\ budget["delete"] <= Bounds["delete"]
      /\ budget'["delete"] = Bounds["delete"]
  BY <1>1, BoundsAssumption DEF Tame, TypeOK, BudgetOK, Disturbances, OrderInv, Undeleted
<1>3. budget["delete"] = Bounds["delete"] /\ ~(budget'["delete"] < budget["delete"])
  BY <1>2
<1> QED BY <1>1, <1>3, SecretsStep DEF Undeleted, Tame

\* Only the step for a pod creates it, and that step comes after the secrets.
LEMMA PodStep ==
    ASSUME TypeOK, NEW o \in Objects, Moves(o), NEW p \in Pods,
           api[p] = Absent, api'[p] # Absent
    PROVE  pc > Len(SecretSteps)
<1>1. p \in Objects /\ p \notin Kept /\ p \notin Certificates
  BY DEF Objects, Pods, Kept, Secrets, CertSecrets, Credentials, Certificates
<1>2. /\ At("Ensure", o) \/ At("Present", o)
      /\ api' \in Created(o)
  <2>1. \A newApi \in Deleted(o) : api[o] # Absent => newApi[p] = Absent
    BY <1>1, DeletedType DEF TypeOK, ClusterOK, Deleted, IsStore
  <2> QED BY <2>1 DEF Moves, Writes
<1>3. o = p
  BY <1>1, <1>2, CreatedType
<1>4. PICK op : At(op, p)
  BY <1>2, <1>3
<1>5. pc \in 1..Len(Program(mem.spec)) /\ Program(mem.spec)[pc] = <<op, p>>
  BY <1>4, AtStep DEF TypeOK
<1>6. Program(mem.spec) \in Seq(StepSet(mem.spec))
  BY ProgramType
<1>7. Len(SecretSteps) \in Nat /\ Len(Program(mem.spec)) \in Nat
  BY <1>6, ProgramBegins
<1>8. CASE pc <= Len(SecretSteps)
  <2>1. pc \in 1..Len(SecretSteps)
    BY <1>5, <1>7, <1>8
  <2>2. <<op, p>> \in {"Ensure", "Present"} \X Kept
    BY <1>5, <2>1, ProgramBegins
  <2> QED BY <1>1, <2>2
<1> QED BY <1>5, <1>7, <1>8

LEMMA CacheBackedStep ==
    ASSUME TypeOK, Tame, CacheBacked, Keeps(api') PROVE CacheBacked'
BY NotSecret DEF Tame, CacheBacked, Keeps, TypeOK, ClusterOK, IsStore

LEMMA StepsDoneStep ==
    ASSUME TypeOK, Next, CacheBacked, StepsDone, Keeps(api') PROVE StepsDone'
<1> SUFFICES ASSUME NEW i \in 1..Len(SecretSteps), i < pc'
             PROVE  api'[SecretSteps[i][2]] # Absent
  BY DEF StepsDone
<1> DEFINE x == SecretSteps[i][2]
<1>1. Len(SecretSteps) \in Nat /\ x \in Kept
  BY ProgramBegins
<1>2. api[x] # Absent => api'[x] # Absent
  BY <1>1 DEF Keeps
<1>3. i \in Nat /\ pc \in Nat
  BY <1>1 DEF TypeOK, PassOK
<1>4. CASE i < pc
  BY <1>2, <1>4 DEF StepsDone
<1>5. CASE Still
  BY <1>3, <1>4, <1>5 DEF Still
<1>6. ASSUME NEW op, NEW o, Done(op, o) PROVE api'[SecretSteps[i][2]] # Absent
  <2>1. CASE i = pc
    <3>1. Program(mem.spec)[pc] = <<op, o>>
      BY <1>6, AtStep DEF Done, TypeOK
    <3>2. SecretSteps[i] = <<op, o>> /\ SecretSteps[i] \in {"Ensure", "Present"} \X Kept
      BY <2>1, <3>1, ProgramBegins
    <3>3. cache[o] # Absent \/ api'[o] # Absent
      BY <1>6, <3>2 DEF Done
    <3>4. o = x
      BY <3>2
    <3> QED BY <1>1, <1>2, <3>3, <3>4 DEF CacheBacked
  <2>2. i < pc \/ i = pc
    BY <1>3, <1>6 DEF Done
  <2> QED BY <1>4, <2>1, <2>2
<1>7. \/ Still \/ \E o \in Objects : Moves(o)
  BY NextShape
<1>8. ASSUME NEW o \in Objects, Moves(o) PROVE api'[SecretSteps[i][2]] # Absent
  BY <1>3, <1>4, <1>6, <1>8 DEF Moves, Stays
<1> QED BY <1>5, <1>7, <1>8

LEMMA PodsLastStep ==
    ASSUME TypeOK, Next, StepsDone, PodsLast, Keeps(api') PROVE PodsLast'
<1> SUFFICES ASSUME NEW p \in Pods, api'[p] # Absent, NEW i \in 1..Len(SecretSteps)
             PROVE  api'[SecretSteps[i][2]] # Absent
  BY DEF PodsLast
<1>1. Len(SecretSteps) \in Nat /\ SecretSteps[i][2] \in Kept
  BY ProgramBegins
<1>2. SUFFICES api[SecretSteps[i][2]] # Absent
  BY <1>1 DEF Keeps
<1>3. CASE api[p] # Absent
  BY <1>3 DEF PodsLast
<1>4. CASE api[p] = Absent
  <2>1. ~Still
    BY <1>4 DEF Still, Objects
  <2>2. PICK o \in Objects : Moves(o)
    BY <2>1, NextShape
  <2>3. pc > Len(SecretSteps)
    BY <1>4, <2>2, PodStep
  <2>4. i < pc
    BY <1>1, <2>3 DEF TypeOK, PassOK
  <2> QED BY <2>4 DEF StepsDone
<1> QED BY <1>3, <1>4

\* However old the caches are, wherever a pass was cut short and whatever the
\* specs are: a pod that exists finds the credentials and certificates.
THEOREM DependenciesComeFirst == Spec => []DependenciesFirst
<1>1. Init => OrderInv
  <2> SUFFICES ASSUME Init PROVE OrderInv
    OBVIOUS
  <2>1. budget["delete"] <= Bounds["delete"]
    BY BoundsAssumption DEF Init, Disturbances
  <2>2. CacheBacked
    BY DEF Init, CacheBacked
  <2>3. StepsDone
    BY ProgramBegins DEF Init, StepsDone
  <2>4. \A p \in Pods : api[p] = Absent
    <3>1. \A p \in Pods : p \in Objects /\ p \notin DOMAIN GivenSecrets
      BY GivenAssumption DEF Pods, Objects, Credentials
    <3> QED BY <3>1 DEF Init
  <2> QED BY <2>1, <2>2, <2>3, <2>4 DEF OrderInv, PodsLast
<1>2. TypeOK /\ OrderInv /\ [Next]_vars => OrderInv'
  <2> SUFFICES ASSUME TypeOK, OrderInv, [Next]_vars PROVE OrderInv'
    OBVIOUS
  <2>1. CASE UNCHANGED vars
    BY <2>1 DEF vars, OrderInv, Undeleted, CacheBacked, StepsDone, PodsLast
  <2>2. CASE Next
    <3>1. Tame
      BY <2>2, NextShape
    <3>2. budget'["delete"] <= Bounds["delete"]
      BY <2>2, <3>1, BoundsAssumption, NextTypeOK
         DEF Tame, OrderInv, TypeOK, BudgetOK, Disturbances
    <3>3. Undeleted' => CacheBacked' /\ StepsDone' /\ PodsLast'
      <4> SUFFICES ASSUME Undeleted' PROVE CacheBacked' /\ StepsDone' /\ PodsLast'
        OBVIOUS
      <4>1. Undeleted /\ Keeps(api')
        BY <2>2, CalmStep
      <4> QED BY <2>2, <3>1, <4>1, CacheBackedStep, StepsDoneStep, PodsLastStep DEF OrderInv
    <3> QED BY <3>2, <3>3 DEF OrderInv
  <2> QED BY <2>1, <2>2
<1>3. OrderInv => DependenciesFirst
  <2> SUFFICES ASSUME OrderInv, Undeleted PROVE DependenciesFirst
    BY DEF DependenciesFirst, Undeleted
  <2> QED BY NeededSteps DEF OrderInv, Undeleted
<1> QED BY <1>1, <1>2, <1>3, TypeCorrect, PTL DEF Spec
----------------------------------------------------------------------------
(* Ready comes with the URLs.                                              *)

KeycloakUrlStep(x) == x[1] \in UrlOps /\ x[2] \in OfKeycloak
AppUrlStep(x)      == x[1] \in UrlOps /\ x[2] \notin OfKeycloak

\* Past the step that finds a URL out, the pass knows it.
UrlsKnown ==
    \A i \in 1..Len(Program(mem.spec)) : i < pc =>
      /\ KeycloakUrlStep(Program(mem.spec)[i]) => mem.st.kcUrl # NoUrl
      /\ AppUrlStep(Program(mem.spec)[i]) => mem.st.url # NoUrl

LEMMA UrlStepsLearn ==
    ASSUME NEW t, NEW svc, NEW rt
    PROVE  \E x \in ToSet(UrlSteps(t, svc, rt)) : x[1] \in UrlOps /\ x[2] \in {svc, rt}
<1>1. \A x : x \in ToSet(<<x>>)
  BY DEF ToSet
<1>2. \A x, y : y \in ToSet(<<x, y>>)
  BY DEF ToSet
<1>3. /\ <<"NodePort", svc>> \in ToSet(<<<<"NodePort", svc>>>>)
      /\ <<"LoadBalancer", svc>> \in ToSet(<<<<"LoadBalancer", svc>>>>)
      /\ <<"RouteUrl", rt>> \in ToSet(<<<<"Ensure", rt>>, <<"RouteUrl", rt>>>>)
      /\ <<"NoUrl", svc>> \in ToSet(<<<<"NoUrl", svc>>>>)
  BY <1>1, <1>2, Zenon
<1>4. \/ <<"NodePort", svc>> \in ToSet(UrlSteps(t, svc, rt))
      \/ <<"LoadBalancer", svc>> \in ToSet(UrlSteps(t, svc, rt))
      \/ <<"RouteUrl", rt>> \in ToSet(UrlSteps(t, svc, rt))
      \/ <<"NoUrl", svc>> \in ToSet(UrlSteps(t, svc, rt))
  BY <1>3, Zenon DEF UrlSteps
<1> QED BY <1>4 DEF UrlOps

\* A list in the middle of a program is a part of it.
LEMMA MiddleHolds ==
    ASSUME NEW S, NEW c \in Seq(S), NEW a \in Seq(S), NEW b \in Seq(S), NEW d \in Seq(S)
    PROVE  /\ ToSet(a) \subseteq ToSet(c \o (a \o b \o d))
           /\ ToSet(b) \subseteq ToSet(c \o (a \o b \o d))
<1>1. a \o b \in Seq(S)
  BY Concat
<1>2. a \o b \o d \in Seq(S)
  BY <1>1, Concat
<1>3. \A p, q \in Seq(S) : ToSet(p \o q) = ToSet(p) \cup ToSet(q)
  BY ConcatHolds
<1>4. ToSet(a \o b) = ToSet(a) \cup ToSet(b)
  BY <1>3, Zenon
<1>5. ToSet(a \o b \o d) = ToSet(a \o b) \cup ToSet(d)
  BY <1>1, <1>3, Zenon
<1>6. ToSet(c \o (a \o b \o d)) = ToSet(c) \cup ToSet(a \o b \o d)
  BY <1>2, <1>3, Zenon
<1> QED BY <1>4, <1>5, <1>6, Zenon

LEMMA KeycloakStepsLearn ==
    ASSUME NEW s PROVE \E x \in ToSet(KeycloakSteps(s)) : KeycloakUrlStep(x)
<1> DEFINE C == Steps("CheckRoute", <<"keycloak-route">>)
           S == Steps("Ensure", <<"keycloak-svc">>)
           U == UrlSteps(s.kcSvc, "keycloak-svc", "keycloak-route")
           P == Steps("Ensure", <<"keycloak-pod">>)
           X == Steps("External", <<"keycloak-pod">>)
           R == Steps("Remove", <<"keycloak-pod", "keycloak-svc">>)
           Q == IF RoutesAvailable THEN Steps("Remove", <<"keycloak-route">>) ELSE <<>>
<1>1. /\ <<"keycloak-route">> \in Seq(Objects) /\ <<"keycloak-svc">> \in Seq(Objects)
      /\ <<"keycloak-pod">> \in Seq(Objects)
  BY DEF Objects, Pods, Services, Routes
<1>2. C \in Seq(StepSet(s)) /\ S \in Seq(StepSet(s)) /\ P \in Seq(StepSet(s))
  BY <1>1, OpSteps DEF Ops
<1>3. U \in Seq(StepSet(s))
  BY UrlStepsType DEF Services, Routes, Balanced
<1>4. CASE s.kcExt = NoUrl
  <2>1. \E x \in ToSet(U) : KeycloakUrlStep(x)
    BY UrlStepsLearn DEF KeycloakUrlStep, OfKeycloak
  <2>2. KeycloakSteps(s) = C \o (S \o U \o P)
    BY <1>4 DEF KeycloakSteps
  <2> HIDE DEF C, S, U, P
  <2>3. ToSet(U) \subseteq ToSet(C \o (S \o U \o P))
    BY <1>2, <1>3, MiddleHolds, Zenon
  <2> QED BY <2>1, <2>2, <2>3, Zenon
<1>5. CASE s.kcExt # NoUrl
  <2>1. X \in Seq(StepSet(s))
    BY <1>5, ExternalSteps
  <2>2. <<"External", "keycloak-pod">> \in ToSet(X)
    <3>1. <<"keycloak-pod">> \in Seq({"keycloak-pod"}) /\ 1 \in 1..Len(<<"keycloak-pod">>)
          /\ <<"keycloak-pod">>[1] = "keycloak-pod"
      OBVIOUS
    <3>2. <<"External", <<"keycloak-pod">>[1]>> \in ToSet(X)
      BY <3>1, StepsHold
    <3> QED BY <3>1, <3>2
  <2>3. KeycloakUrlStep(<<"External", "keycloak-pod">>)
    BY DEF KeycloakUrlStep, UrlOps, OfKeycloak
  <2>4. R \in Seq(StepSet(s)) /\ Q \in Seq(StepSet(s))
    <3>1. /\ <<"keycloak-pod", "keycloak-svc">> \in Seq(Removable)
          /\ <<"keycloak-route">> \in Seq(Removable)
      BY DEF Removable, Pods, Services, Routes
    <3>2. R \in Seq(StepSet(s)) /\ Steps("Remove", <<"keycloak-route">>) \in Seq(StepSet(s))
      BY <3>1, RemoveSteps
    <3>3. <<>> \in Seq(StepSet(s))
      OBVIOUS
    <3> QED BY <3>2, <3>3, Zenon
  <2>5. KeycloakSteps(s) = C \o (X \o R \o Q)
    BY <1>5 DEF KeycloakSteps
  <2> HIDE DEF C, X, R, Q
  <2>6. ToSet(X) \subseteq ToSet(C \o (X \o R \o Q))
    BY <1>2, <2>1, <2>4, MiddleHolds, Zenon
  <2> QED BY <2>2, <2>3, <2>5, <2>6, Zenon
<1> QED BY <1>4, <1>5

LEMMA AppStepsLearn ==
    ASSUME NEW s PROVE \E x \in ToSet(AppSteps(s)) : AppUrlStep(x)
<1> DEFINE C == Steps("CheckRoute", <<"app-route">>)
           S == Steps("Ensure", <<"app-svc">>)
           U == UrlSteps(s.svc, "app-svc", "app-route")
           P == Steps("Ensure", <<"app-pod", "upload">>)
<1>1. C \in Seq(StepSet(s)) /\ S \in Seq(StepSet(s)) /\ P \in Seq(StepSet(s))
  <2>1. /\ <<"app-route">> \in Seq(Objects) /\ <<"app-svc">> \in Seq(Objects)
        /\ <<"app-pod", "upload">> \in Seq(Objects)
    BY DEF Objects, Pods, Services, Routes, ConfigMaps
  <2> QED BY <2>1, OpSteps DEF Ops
<1>2. U \in Seq(StepSet(s))
  BY UrlStepsType DEF Services, Routes, Balanced
<1>3. \E x \in ToSet(U) : AppUrlStep(x)
  BY UrlStepsLearn DEF AppUrlStep, OfKeycloak
<1>4. AppSteps(s) = C \o S \o U \o P
  BY DEF AppSteps
<1> HIDE DEF C, S, U, P
<1>5. C \o S \in Seq(StepSet(s)) /\ C \o S \o U \in Seq(StepSet(s))
  BY <1>1, <1>2, Concat
<1>6. \A p, q \in Seq(StepSet(s)) : ToSet(p \o q) = ToSet(p) \cup ToSet(q)
  BY ConcatHolds
<1>7. /\ ToSet(C \o S \o U) = ToSet(C \o S) \cup ToSet(U)
      /\ ToSet(AppSteps(s)) = ToSet(C \o S \o U) \cup ToSet(P)
  BY <1>1, <1>2, <1>4, <1>5, <1>6, Zenon
<1> QED BY <1>3, <1>7

\* Every program finds both URLs out.
LEMMA ProgramLearns ==
    ASSUME NEW s
    PROVE  /\ \E x \in ToSet(Program(s)) : KeycloakUrlStep(x)
           /\ \E x \in ToSet(Program(s)) : AppUrlStep(x)
<1>1. /\ PostgresSteps(s) \in Seq(StepSet(s)) /\ KeycloakSteps(s) \in Seq(StepSet(s))
      /\ AppSteps(s) \in Seq(StepSet(s)) /\ SecretSteps \in Seq(StepSet(s))
  BY SecretStepsType, PostgresStepsType, KeycloakStepsType, AppStepsType
<1>2. /\ SecretSteps \o PostgresSteps(s) \in Seq(StepSet(s))
      /\ SecretSteps \o PostgresSteps(s) \o KeycloakSteps(s) \in Seq(StepSet(s))
  BY <1>1, Concat
<1>3. \A p, q \in Seq(StepSet(s)) : ToSet(p \o q) = ToSet(p) \cup ToSet(q)
  BY ConcatHolds
<1>4. /\ ToSet(SecretSteps \o PostgresSteps(s) \o KeycloakSteps(s)) =
           ToSet(SecretSteps \o PostgresSteps(s)) \cup ToSet(KeycloakSteps(s))
      /\ ToSet(Program(s)) =
           ToSet(SecretSteps \o PostgresSteps(s) \o KeycloakSteps(s)) \cup ToSet(AppSteps(s))
  BY <1>1, <1>2, <1>3, Zenon DEF Program
<1> QED BY <1>4, KeycloakStepsLearn, AppStepsLearn

LEMMA UrlsKnownStep == ASSUME TypeOK, Next, UrlsKnown PROVE UrlsKnown'
<1>1. CASE Still
  BY <1>1 DEF Still, UrlsKnown, TypeOK, PassOK
<1>2. CASE pc' = 0
  BY <1>2 DEF UrlsKnown
<1>3. CASE Stays
  BY <1>3 DEF Stays, UrlsKnown
<1>4. ASSUME NEW op, NEW o, Done(op, o) PROVE UrlsKnown'
  <2> SUFFICES ASSUME NEW i \in 1..Len(Program(mem.spec)), i < pc'
               PROVE  /\ KeycloakUrlStep(Program(mem.spec)[i]) => mem'.st.kcUrl # NoUrl
                      /\ AppUrlStep(Program(mem.spec)[i]) => mem'.st.url # NoUrl
    BY <1>4 DEF UrlsKnown, Done
  <2>1. i < pc \/ i = pc
    <3>1. Len(Program(mem.spec)) \in Nat
      BY ProgramType
    <3> QED BY <1>4, <3>1 DEF Done, TypeOK, PassOK
  <2>2. CASE i < pc
    BY <1>4, <2>2 DEF UrlsKnown, Done
  <2>3. CASE i = pc
    <3>1. Program(mem.spec)[i] = <<op, o>>
      BY <1>4, <2>3, AtStep DEF Done, TypeOK
    <3> QED BY <1>4, <3>1 DEF Done, KeycloakUrlStep, AppUrlStep
  <2> QED BY <2>1, <2>2, <2>3
<1>5. Still \/ \E o \in Objects : Moves(o)
  BY NextShape
<1> QED BY <1>1, <1>2, <1>3, <1>4, <1>5 DEF Moves

\* A pass that has come to its end knows both.
LEMMA FinishKnows ==
    ASSUME TypeOK, UrlsKnown, Finish PROVE mem.st.kcUrl # NoUrl /\ mem.st.url # NoUrl
<1>1. mem.spec \in Specs
  BY DEF TypeOK, PassOK, Mem
<1>2. pc = Len(Program(mem.spec)) + 1
  BY <1>1 DEF Finish, Programs
<1>3. Program(mem.spec) \in Seq(StepSet(mem.spec))
  BY ProgramType
<1>4. \A i \in 1..Len(Program(mem.spec)) : i < pc
  BY <1>2, <1>3
<1>5. \A x \in ToSet(Program(mem.spec)) :
        \E i \in 1..Len(Program(mem.spec)) : Program(mem.spec)[i] = x
  BY <1>3 DEF ToSet
<1> QED BY <1>4, <1>5, ProgramLearns DEF UrlsKnown

\* For every spec and however passes are cut short, a status that says Ready
\* shows where Keycloak and the application are.
THEOREM ReadyShowsUrls == Spec => []ReadyHasUrls
<1>1. Init => UrlsKnown /\ ReadyHasUrls
  <2> SUFFICES ASSUME Init PROVE UrlsKnown /\ ReadyHasUrls
    OBVIOUS
  <2>1. UrlsKnown
    <3>1. pc = 0
      BY DEF Init
    <3>2. Program(mem.spec) \in Seq(StepSet(mem.spec))
      BY ProgramType
    <3>3. \A i \in 1..Len(Program(mem.spec)) : ~(i < pc)
      BY <3>1, <3>2
    <3> QED BY <3>3 DEF UrlsKnown
  <2>2. cr.st.status = ""
    BY DEF Init, NoStatus
  <2> QED BY <2>1, <2>2 DEF ReadyHasUrls
<1>2. TypeOK /\ UrlsKnown /\ ReadyHasUrls /\ [Next]_vars => UrlsKnown' /\ ReadyHasUrls'
  <2> SUFFICES ASSUME TypeOK, UrlsKnown, ReadyHasUrls, [Next]_vars
               PROVE  UrlsKnown' /\ ReadyHasUrls'
    OBVIOUS
  <2>1. CASE UNCHANGED vars
    BY <2>1 DEF vars, UrlsKnown, ReadyHasUrls
  <2>2. CASE Next
    <3>1. ASSUME Unready PROVE ReadyHasUrls'
      BY <3>1 DEF Unready, ReadyHasUrls
    <3>2. ASSUME Finish, cr'.st = cr.st \/ cr'.st = mem.st PROVE ReadyHasUrls'
      BY <3>2, FinishKnows DEF ReadyHasUrls
    <3> QED BY <2>2, <3>1, <3>2, UrlsKnownStep, NextShape
  <2> QED BY <2>1, <2>2
<1> QED BY <1>1, <1>2, TypeCorrect, PTL DEF Spec
----------------------------------------------------------------------------
(* What kills the process.                                                 *)

\* The two specs a pass dies of: one that asks for a load balancer, and one
\* whose external Keycloak has an address that does not parse.
Deadly(s) == Balanced(s) \/ (s.kcExt # NoUrl /\ s.kcExt[1] = "")

LEMMA StepSurvives ==
    ASSUME TypeOK, NEW o \in Objects, Step(o) PROVE up' = up \/ Deadly(mem.spec)
<1>1. \A newApi, reported, f : Fail(newApi, reported, f) => up' = up
  BY FailApi
<1>2. \A refused, outcomes, reported : WriteFails(refused, outcomes, reported) => up' = up
  BY WriteFailsApi
<1>3. \A m : Continue(m) => up' = up
  BY DEF Continue
<1>4. Wait => up' = up
  BY WaitApi
<1>5. CASE GetFails(o) \/ CheckRoute(o)
  BY <1>1, <1>3, <1>5, Zenon DEF GetFails, CheckRoute
<1>6. CASE EnsureCreate(o) \/ EnsureMatch(o)
  BY <1>2, <1>3, <1>6, Zenon DEF EnsureCreate, EnsureMatch
<1>7. CASE EnsureReplace(o)
  <2>1. WriteFails(api[o] = Absent, Deleted(o), TRUE) \/ UNCHANGED <<up, pc, fresh, budget>>
    BY <1>7 DEF EnsureReplace
  <2>2. UNCHANGED <<up, pc, fresh, budget>> => up' = up
    OBVIOUS
  <2> QED BY <1>2, <2>1, <2>2, Zenon
<1>8. CASE EnsureDeleted(o) \/ Present(o)
  BY <1>2, <1>3, <1>8, Zenon DEF EnsureDeleted, Present
<1>9. CASE NodePort(o) \/ RouteUrl(o) \/ NoUrlWait(o)
  BY <1>1, <1>3, <1>4, <1>9, Zenon DEF NodePort, RouteUrl, NoUrlWait, LearnUrl
<1>10. CASE LoadBalancer(o)
  BY <1>10, AtStep DEF LoadBalancer, Deadly, TypeOK
<1>11. CASE External(o)
  BY <1>3, <1>11, AtStep DEF External, Deadly, LearnUrl, TypeOK
<1> QED BY <1>5, <1>6, <1>7, <1>8, <1>9, <1>10, <1>11 DEF Step

LEMMA NextSurvives ==
    ASSUME TypeOK, Next, up, ~up'
    PROVE  budget'["crash"] < budget["crash"] \/ Deadly(mem.spec)
<1>1. CASE Operator
  <2>1. Begin => up' = up
    BY DEF Begin, pass
  <2>2. Finish => up' = up
    BY DEF Finish, EndPass
  <2> QED BY <1>1, <2>1, <2>2, StepSurvives DEF Operator, Restart
<1>2. CASE Informers \/ Cluster
  BY <1>2 DEF Informers, Sync, SyncHorreum, Resync, Cluster, BecomeOk, Terminate, Change,
              CollectGarbage, pass
<1>3. CASE Trouble
  <2>1. CASE Crash
    <3>1. budget["crash"] \in Nat /\ Spend("crash")
      BY <2>1 DEF Crash, TypeOK, BudgetOK, Disturbances
    <3> QED BY <3>1 DEF Spend, TypeOK, BudgetOK, Disturbances
  <2>2. CASE ~Crash
    BY <1>3, <2>2 DEF Trouble, BecomeBad, DeleteObject, EditSpec, DeleteHorreum, Change, pass
  <2> QED BY <2>1, <2>2
<1> QED BY <1>1, <1>2, <1>3 DEF Next

\* When nobody writes such a spec, nothing but a kill ever stops the operator:
\* no fault, stale cache, missing object or interleaving makes it panic.
THEOREM OperatorSurvives ==
    (\A s \in Specs : ~Deadly(s)) => (Spec => NoPanic)
<1> SUFFICES ASSUME \A s \in Specs : ~Deadly(s) PROVE Spec => NoPanic
  OBVIOUS
<1>1. TypeOK /\ [Next]_vars => [up /\ ~up' => budget'["crash"] < budget["crash"]]_vars
  <2> SUFFICES ASSUME TypeOK, Next, up, ~up' PROVE budget'["crash"] < budget["crash"]
    OBVIOUS
  <2>1. mem.spec \in Specs
    BY DEF TypeOK, PassOK, Mem
  <2> QED BY <2>1, NextSurvives
<1> QED BY <1>1, TypeCorrect, PTL DEF Spec, NoPanic

=============================================================================
