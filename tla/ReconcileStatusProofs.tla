----------------------- MODULE ReconcileStatusProofs -----------------------
(***************************************************************************)
(* Proof that the status tells the truth at rest: QuietStatus, as long as  *)
(* the last status update of no pass fails (its error is dropped, and      *)
(* nothing repeats it).                                                    *)
(***************************************************************************)
EXTENDS ReconcileRestProofs

----------------------------------------------------------------------------
(* The invariant.                                                          *)

\* What step x makes of the status: the health of the object that it finds as
\* it should be, and Pending for one that it has to make.
Grade(x, s, kc, app, seen) ==
    IF x[1] # "Ensure" THEN "Ready"
    ELSE IF Fine(x[2], s, kc, app, seen[x[2]]) THEN check(x[2], seen[x[2]])
    ELSE "Pending"

Grades(n, s, kc, app, seen) ==
    {Grade(Program(s)[i], s, kc, app, seen) : i \in {j \in 1..Len(Program(s)) : j < n}}

Worst(S) == IF "Error" \in S THEN "Error" ELSE IF "Pending" \in S THEN "Pending" ELSE "Ready"

\* The status is the worst grade of the steps of s before the n-th.
Told(n, s, st) == st.status = Worst(Grades(n, s, st.kcUrl, st.url, cache))

\* An object is made again only when the one in the cache is not as it should be.
RedoNeeded ==
    mem.redo => \A o \in Objects :
      At("Ensure", o) => ~Fine(o, mem.spec, mem.st.kcUrl, mem.st.url, cache[o])

\* Under way the status told so far is that of the steps behind the pass; at
\* rest it is that of all steps, and stands in the resource with its URLs.
Telling  == fresh /\ RedoNeeded /\ Told(pc, mem.spec, mem.st)
TellsAll ==
    /\ Passed(Len(Program(cr.spec)) + 1, cr.spec, cr.st.kcUrl, cr.st.url, cache, api)
    /\ Told(Len(Program(cr.spec)) + 1, cr.spec, cr.st)

StatusTold == Tranquil => IF pc = 0 THEN TellsAll ELSE Telling

\* Nothing ever makes a certificate bad: its secret has no health check.
CertsOk == \A o \in CertSecrets : api[o] # Absent => api[o].cond = "ok"

----------------------------------------------------------------------------
(* What the steps make of the status.                                      *)

\* setStatus, as an operator on statuses.
Worse(a, b) == IF b = "Ready" \/ (a = "Error" /\ b = "Pending") THEN a ELSE b

LEMMA setStatusWorse ==
    ASSUME NEW m \in Mem, NEW status \in StatusValues \ {"Ready"}
    PROVE  setStatus(m, status).st.status = Worse(m.st.status, status)
BY DEF setStatus, Mem, Status, Worse

LEMMA CheckValues ==
    ASSUME NEW o, NEW obj, obj.cond \in Conditions
    PROVE  check(o, obj) \in {"Ready", "Pending", "Error"}
BY DEF check, Conditions

\* What is fine in the cache is judged, what is missing or being replaced is
\* Pending, and other steps leave the status alone.
Judged(op, o) ==
    /\ At(op, o) /\ fresh' = fresh
    /\ \/ /\ op = "Ensure" /\ pc' = pc + 1 /\ ~mem.redo
          /\ Fine(o, mem.spec, mem.st.kcUrl, mem.st.url, cache[o])
          /\ mem'.st.status = Worse(mem.st.status, check(o, cache[o]))
       \/ /\ op = "Ensure" /\ pc' = pc + 1 /\ (mem.redo \/ cache[o] = Absent)
          /\ mem'.st.status = Worse(mem.st.status, "Pending")
       \/ /\ op = "Ensure" /\ pc' = pc
          /\ ~Fine(o, mem.spec, mem.st.kcUrl, mem.st.url, cache[o])
          /\ mem'.st.status = mem.st.status
       \/ /\ op # "Ensure" /\ pc' = pc + 1
          /\ mem'.st.status = mem.st.status

LEMMA EnsureCreateJudged ==
    ASSUME TypeOK, NEW o \in Objects, EnsureCreate(o), ~dirty' PROVE Judged("Ensure", o)
<1> DEFINE m == [mem EXCEPT !.redo = FALSE,
                            !.found = IF mem.redo THEN @ ELSE Absent]
<1>1. At("Ensure", o) /\ (mem.redo \/ cache[o] = Absent)
  BY DEF EnsureCreate
<1>2. ~WriteFails(api[o] # Absent, Created(o), TRUE)
  <2>1. \A refused, outcomes, reported : WriteFails(refused, outcomes, reported) => dirty'
    BY WriteFailsQueues
  <2> QED BY <2>1, Zenon
<1>3. Continue(setStatus(m, "Pending"))
  BY <1>2 DEF EnsureCreate
<1>4. m \in Mem /\ m.st = mem.st
  BY DEF TypeOK, PassOK, Mem
<1> HIDE DEF m
<1>5. setStatus(m, "Pending").st.status = Worse(mem.st.status, "Pending")
  BY <1>4, setStatusWorse DEF StatusValues
<1> QED BY <1>1, <1>3, <1>5 DEF Judged, Continue

LEMMA EnsureMatchJudged ==
    ASSUME TypeOK, NEW o \in Objects, EnsureMatch(o) PROVE Judged("Ensure", o)
<1> DEFINE m == [mem EXCEPT !.found = IF o \in Routes THEN cache[o] ELSE Absent]
           health == check(o, cache[o])
<1>1. /\ At("Ensure", o) /\ cache[o] # Absent /\ pc' = pc + 1 /\ fresh' = fresh /\ ~mem.redo
      /\ mem' = IF health = "Ready" THEN m ELSE setStatus(m, health)
      /\ Fine(o, mem.spec, mem.st.kcUrl, mem.st.url, cache[o])
  BY DEF EnsureMatch, Continue, Fine
<1>2. m \in Mem /\ m.st = mem.st
  BY FoundType DEF TypeOK, PassOK, Mem
<1>3. cache[o] \in Object(o)
  BY <1>1 DEF TypeOK, ClusterOK, IsStore
<1>4. health \in StatusValues
  BY <1>3, CheckValues DEF Object, StatusValues
<1> HIDE DEF m, health
<1>5. mem'.st.status = Worse(mem.st.status, health)
  BY <1>1, <1>2, <1>4, setStatusWorse DEF Worse
<1> QED BY <1>1, <1>5 DEF Judged, health

LEMMA EnsureReplaceJudged ==
    ASSUME TypeOK, NEW o \in Objects, EnsureReplace(o), ~dirty' PROVE Judged("Ensure", o)
<1>1. At("Ensure", o) /\ ~Fine(o, mem.spec, mem.st.kcUrl, mem.st.url, cache[o])
  BY DEF EnsureReplace, Fine
<1>2. ~WriteFails(api[o] = Absent, Deleted(o), TRUE)
  <2>1. \A refused, outcomes, reported : WriteFails(refused, outcomes, reported) => dirty'
    BY WriteFailsQueues
  <2> QED BY <2>1, Zenon
<1>3. /\ mem' = [mem EXCEPT !.redo = TRUE,
                            !.found = IF o \in Routes THEN cache[o] ELSE Absent]
      /\ UNCHANGED <<up, pc, fresh, budget>>
  BY <1>2 DEF EnsureReplace
<1>4. mem'.st.status = mem.st.status
  BY <1>3 DEF TypeOK, PassOK, Mem
<1> QED BY <1>1, <1>3, <1>4 DEF Judged

\* The other steps.
LEMMA ContinueJudged ==
    ASSUME NEW op, NEW o, op # "Ensure", At(op, o), Continue(mem) PROVE Judged(op, o)
BY DEF Judged, Continue

LEMMA LearnUrlJudged ==
    ASSUME TypeOK, NEW op, NEW o, NEW url, op # "Ensure", At(op, o), LearnUrl(o, url)
    PROVE  Judged(op, o)
<1>1. pc' = pc + 1 /\ fresh' = fresh
  BY DEF LearnUrl, Continue
<1>2. \/ mem' = [mem EXCEPT !.st.kcUrl = url, !.found = Absent]
      \/ mem' = [mem EXCEPT !.st.url = url, !.found = Absent]
  BY DEF LearnUrl, Continue
<1>3. mem'.st.status = mem.st.status
  <2>1. mem = [f \in DOMAIN mem |-> mem[f]] /\ {"st", "found"} \subseteq DOMAIN mem
    BY DEF TypeOK, PassOK, Mem
  <2>2. mem.st = [f \in DOMAIN mem.st |-> mem.st[f]]
        /\ {"status", "kcUrl", "url"} \subseteq DOMAIN mem.st
    BY DEF TypeOK, PassOK, Mem, Status
  <2>3. mem'.st = [mem.st EXCEPT !.kcUrl = url] \/ mem'.st = [mem.st EXCEPT !.url = url]
    BY <1>2, <2>1
  <2> QED BY <2>2, <2>3
<1> QED BY <1>1, <1>3 DEF Judged

LEMMA StepJudged ==
    ASSUME TypeOK, NEW o \in Objects, Step(o), ~dirty', up' PROVE \E op : Judged(op, o)
<1>1. ~(\E newApi, reported, f : Fail(newApi, reported, f)) /\ ~Wait /\ ~Panic
  BY FailQueues, WaitQueues DEF Panic
<1>2. ~(\E refused, outcomes, reported : WriteFails(refused, outcomes, reported))
  BY WriteFailsQueues
<1>3. ~GetFails(o) /\ ~LoadBalancer(o) /\ ~NoUrlWait(o)
  BY <1>1 DEF GetFails, LoadBalancer, NoUrlWait
<1>4. CASE EnsureCreate(o) \/ EnsureMatch(o) \/ EnsureReplace(o)
  BY <1>4, EnsureCreateJudged, EnsureMatchJudged, EnsureReplaceJudged
<1>5. CASE EnsureDeleted(o)
  <2>1. At("Remove", o) /\ Continue(mem)
    BY <1>2, <1>5, Zenon DEF EnsureDeleted
  <2> QED BY <2>1, ContinueJudged
<1>6. CASE Present(o)
  <2>1. At("Present", o) /\ Continue(mem)
    BY <1>2, <1>6, Zenon DEF Present
  <2> QED BY <2>1, ContinueJudged
<1>7. CASE CheckRoute(o)
  <2>1. At("CheckRoute", o) /\ Continue(mem)
    BY <1>1, <1>7, Zenon DEF CheckRoute
  <2> QED BY <2>1, ContinueJudged
<1>8. CASE NodePort(o)
  <2>1. At("NodePort", o) /\ \E url : LearnUrl(o, url)
    BY <1>1, <1>8, Zenon DEF NodePort
  <2> QED BY <2>1, LearnUrlJudged
<1>9. CASE RouteUrl(o)
  <2>1. At("RouteUrl", o) /\ \E url : LearnUrl(o, url)
    BY <1>1, <1>9 DEF RouteUrl
  <2> QED BY <2>1, LearnUrlJudged
<1>10. CASE External(o)
  <2>1. At("External", o) /\ \E url : LearnUrl(o, url)
    BY <1>1, <1>10 DEF External
  <2> QED BY <2>1, LearnUrlJudged
<1> QED BY <1>3, <1>4, <1>5, <1>6, <1>7, <1>8, <1>9, <1>10 DEF Step
----------------------------------------------------------------------------
(* The worst grade, step by step.                                          *)

LEMMA GradeValues ==
    ASSUME NEW x, NEW s, NEW kc, NEW app, NEW seen,
           x[1] = "Ensure" /\ seen[x[2]] # Absent => seen[x[2]].cond \in Conditions
    PROVE  Grade(x, s, kc, app, seen) \in {"Ready", "Pending", "Error"}
BY CheckValues DEF Grade, Fine

LEMMA WorstAdds ==
    ASSUME NEW S, NEW g \in {"Ready", "Pending", "Error"}
    PROVE  Worst(S \cup {g}) = Worse(Worst(S), g)
BY DEF Worst, Worse

LEMMA GradesNone ==
    ASSUME NEW s, NEW kc, NEW app, NEW seen
    PROVE  Worst(Grades(1, s, kc, app, seen)) = "Ready"
<1>1. {j \in 1..Len(Program(s)) : j < 1} = {}
  BY ProgramOrder
<1>2. Grades(1, s, kc, app, seen) = {}
  BY <1>1 DEF Grades
<1> QED BY <1>2 DEF Worst

LEMMA GradesNext ==
    ASSUME NEW s, NEW n \in 1..Len(Program(s)), NEW kc, NEW app, NEW seen
    PROVE  Grades(n + 1, s, kc, app, seen)
             = Grades(n, s, kc, app, seen) \cup {Grade(Program(s)[n], s, kc, app, seen)}
<1>1. Len(Program(s)) \in Nat
  BY ProgramOrder
<1>2. {j \in 1..Len(Program(s)) : j < n + 1} = {j \in 1..Len(Program(s)) : j < n} \cup {n}
  BY <1>1
<1> QED BY <1>2 DEF Grades

\* The step that ends does not change the grades of those before it.
LEMMA GradeKept ==
    ASSUME NEW s, NEW x \in StepSet(s), NEW op, NEW o \in Objects, StepEnds(op, o),
           ~Disturbs(<<op, o>>, x), NEW seen
    PROVE  Grade(x, s, mem'.st.kcUrl, mem'.st.url, seen)
             = Grade(x, s, mem.st.kcUrl, mem.st.url, seen)
<1>1. CASE x[1] = "Ensure"
  <2>1. mem'.st.kcUrl # mem.st.kcUrl => x \notin {"Ensure"} \X {"keycloak-pod", "app-pod"}
    BY DEF StepEnds, Disturbs, KeycloakUrlStep
  <2>2. mem'.st.url # mem.st.url => x # <<"Ensure", "app-pod">>
    BY DEF StepEnds, Disturbs, AppUrlStep
  <2>3. Desired(x[2], s, mem'.st.kcUrl, mem'.st.url) = Desired(x[2], s, mem.st.kcUrl, mem.st.url)
    BY <1>1, <2>1, <2>2, DesiredKept
  <2> QED BY <2>3, Zenon DEF Grade, Fine
<1>2. CASE x[1] # "Ensure"
  BY <1>2 DEF Grade
<1> QED BY <1>1, <1>2

LEMMA GradesKept ==
    ASSUME TypeOK, NEW op, NEW o \in Objects, At(op, o), StepEnds(op, o), NEW seen
    PROVE  Grades(pc, mem.spec, mem'.st.kcUrl, mem'.st.url, seen)
             = Grades(pc, mem.spec, mem.st.kcUrl, mem.st.url, seen)
<1> DEFINE p == Program(mem.spec)
<1>1. pc \in 1..Len(p) /\ p[pc] = <<op, o>>
  BY AtStep DEF TypeOK
<1>2. ASSUME NEW i \in {j \in 1..Len(p) : j < pc}
      PROVE  Grade(p[i], mem.spec, mem'.st.kcUrl, mem'.st.url, seen)
               = Grade(p[i], mem.spec, mem.st.kcUrl, mem.st.url, seen)
  <2>1. p[i] \in StepSet(mem.spec) /\ ~Disturbs(<<op, o>>, p[i])
    BY <1>1, ProgramOrder
  <2> QED BY <2>1, GradeKept
<1> QED BY <1>2 DEF Grades
----------------------------------------------------------------------------
(* A pass tells the worst health of what it has seen to.                   *)

\* The current step is graded as the code judges it.
LEMMA JudgedGrade ==
    ASSUME TypeOK, RedoNeeded, NEW op, NEW o \in Objects, Judged(op, o), pc' = pc + 1
    PROVE  /\ mem'.st.status = Worse(mem.st.status, Grade(<<op, o>>, mem.spec, mem.st.kcUrl,
                                                          mem.st.url, cache))
           /\ Grade(<<op, o>>, mem.spec, mem.st.kcUrl, mem.st.url, cache)
                \in {"Ready", "Pending", "Error"}
<1> DEFINE x == <<op, o>>
           g == Grade(x, mem.spec, mem.st.kcUrl, mem.st.url, cache)
<1>1. x[1] = op /\ x[2] = o
  OBVIOUS
<1>2. cache[o] # Absent => cache[o].cond \in Conditions
  BY DEF TypeOK, ClusterOK, IsStore, Object
<1>3. g \in {"Ready", "Pending", "Error"}
  BY <1>1, <1>2, GradeValues
<1>4. mem.redo \/ cache[o] = Absent =>
        (op = "Ensure" => ~Fine(o, mem.spec, mem.st.kcUrl, mem.st.url, cache[o]))
  BY DEF RedoNeeded, Judged, Fine
<1> HIDE DEF x
<1>5. op # "Ensure" => g = "Ready"
  BY <1>1 DEF Grade
<1>6. op = "Ensure" => g = IF Fine(o, mem.spec, mem.st.kcUrl, mem.st.url, cache[o])
                           THEN check(o, cache[o]) ELSE "Pending"
  BY <1>1 DEF Grade
<1>7. pc + 1 # pc
  BY DEF TypeOK, PassOK
<1> HIDE DEF g
<1>8. mem'.st.status = Worse(mem.st.status, g)
  BY <1>4, <1>5, <1>6, <1>7 DEF Judged, Worse
<1> QED BY <1>3, <1>8 DEF g, x

LEMMA ForwardTold ==
    ASSUME TypeOK, RedoNeeded, FoundRoute, NEW op, NEW o \in Objects, Forward(op, o),
           Judged(op, o), Told(pc, mem.spec, mem.st), cache' = cache
    PROVE  Told(pc, mem.spec, mem.st)'
<1> DEFINE s == mem.spec
           kc == mem'.st.kcUrl
           app == mem'.st.url
           x == <<op, o>>
           g == Grade(x, s, mem.st.kcUrl, mem.st.url, cache)
<1>1. /\ At(op, o) /\ pc' = pc + 1 /\ mem'.spec = s
      /\ op \notin UrlOps => kc = mem.st.kcUrl /\ app = mem.st.url
  BY DEF Forward
<1>2. pc \in 1..Len(Program(s)) /\ Program(s)[pc] = x
  BY <1>1, AtStep DEF TypeOK
<1>3. Grade(x, s, kc, app, cache) = g
  <2>1. CASE op \in UrlOps
    BY <2>1 DEF Grade, UrlOps
  <2>2. CASE op \notin UrlOps
    BY <1>1, <2>2
  <2> QED BY <2>1, <2>2
<1>4. Grades(pc, s, kc, app, cache) = Grades(pc, s, mem.st.kcUrl, mem.st.url, cache)
  BY <1>1, ForwardEnds, GradesKept
<1>5. mem'.st.status = Worse(mem.st.status, g) /\ g \in {"Ready", "Pending", "Error"}
  BY <1>1, JudgedGrade
<1> DEFINE before == Grades(pc, s, mem.st.kcUrl, mem.st.url, cache)
<1>6. mem.st.status = Worst(before)
  BY DEF Told
<1> HIDE DEF s, kc, app, g, x, before
<1>7. Grades(pc + 1, s, kc, app, cache) = before \cup {g}
  <2>1. Grades(pc + 1, s, kc, app, cache)
          = Grades(pc, s, kc, app, cache) \cup {Grade(Program(s)[pc], s, kc, app, cache)}
    BY <1>2, GradesNext
  <2>2. Grades(pc, s, kc, app, cache) = before
    BY <1>4 DEF before
  <2> QED BY <1>2, <1>3, <2>1, <2>2, Zenon
<1>8. mem'.st.status = Worst(Grades(pc + 1, s, kc, app, cache))
  <2>1. Worst(before \cup {g}) = Worse(Worst(before), g)
    BY <1>5, WorstAdds, Zenon
  <2> QED BY <1>5, <1>6, <1>7, <2>1, Zenon
<1> QED BY <1>1, <1>8 DEF Told, s, kc, app

LEMMA ForwardNoRedo ==
    ASSUME FoundRoute, NEW op, NEW o \in Objects, Forward(op, o) PROVE RedoNeeded'
BY ForwardRedo DEF RedoNeeded

LEMMA StepTelling ==
    ASSUME TypeOK, TypeOK', Tranquil', NEW o \in Objects, Step(o),
           cr' = cr, cache' = cache, Underway, Telling
    PROVE  Telling'
<1>1. ~dirty' /\ up'
  BY DEF Tranquil
<1>2. PICK op : Judged(op, o)
  BY <1>1, StepJudged
<1>3. At(op, o) /\ fresh' /\ FoundRoute /\ pc \in Nat
  BY <1>2 DEF Judged, Telling, Underway, TypeOK, PassOK
<1>4. CASE Halfway(o)
  <2>1. /\ pc' = pc /\ mem'.spec = mem.spec /\ mem'.st = mem.st /\ At("Ensure", o)
    BY <1>4 DEF Halfway
  <2>2. Told(pc, mem.spec, mem.st)'
    BY <2>1 DEF Telling, Told
  <2>3. ~Fine(o, mem.spec, mem.st.kcUrl, mem.st.url, cache[o])
    BY <1>2, <1>3, <2>1 DEF Judged, At
  <2>4. ASSUME NEW p \in Objects, At("Ensure", p)' PROVE p = o
    BY <2>1, <2>4 DEF At
  <2>5. RedoNeeded'
    BY <2>1, <2>3, <2>4 DEF RedoNeeded
  <2> QED BY <1>3, <2>2, <2>5 DEF Telling
<1>5. ASSUME NEW op2, Forward(op2, o) PROVE Telling'
  <2>1. op2 = op
    BY <1>3, <1>5 DEF Forward, At
  <2>2. RedoNeeded' /\ Told(pc, mem.spec, mem.st)'
    BY <1>2, <1>3, <1>5, <2>1, ForwardNoRedo, ForwardTold DEF Telling
  <2> QED BY <1>3, <2>2 DEF Telling
<1> QED BY <1>1, <1>4, <1>5, StepOutcome DEF Outcome

\* A pass begins with status Ready, and knows the current resource version.
LEMMA BeginTelling ==
    ASSUME TypeOK, TypeOK', Views, Begin, Tranquil'
    PROVE  pc' # 0 /\ Telling'
<1>1. ~dirty' /\ crFresh' /\ cr'.live
  BY DEF Tranquil
<1>2. ASSUME NEW m, WriteStatus(api, m, crFresh, TRUE, 0) PROVE FALSE
  BY <1>1, <1>2, WriteStatusQueues
<1>3. CASE ~crCache.live /\ UNCHANGED <<apiServer, informers>>
  BY <1>1, <1>3 DEF Views, apiServer, informers
<1>4. CASE /\ pc' = 1 /\ fresh' = crFresh /\ UNCHANGED <<apiServer, informers>>
           /\ LET m == [Idle EXCEPT !.spec = crCache.spec, !.st = crCache.st]
              IN mem' = IF m.st.status = "Ready" THEN m ELSE setStatus(m, "Ready")
  <2> DEFINE m == [Idle EXCEPT !.spec = crCache.spec, !.st = crCache.st]
  <2>1. m \in Mem /\ ~m.redo
    BY IdleType DEF TypeOK, ClusterOK, Horreum, Mem, Idle
  <2>2. mem' = IF m.st.status = "Ready" THEN m ELSE setStatus(m, "Ready")
    BY <1>4
  <2> HIDE DEF m
  <2>3. setStatus(m, "Ready").redo = m.redo /\ setStatus(m, "Ready").st.status = "Ready"
    BY <2>1 DEF setStatus, Mem, Status
  <2>4. ~mem'.redo /\ mem'.st.status = "Ready"
    BY <2>1, <2>2, <2>3
  <2>5. Told(pc, mem.spec, mem.st)'
    BY <1>4, <2>4, GradesNone DEF Told
  <2>6. fresh'
    BY <1>1, <1>4 DEF informers
  <2> QED BY <1>4, <2>4, <2>5, <2>6 DEF Telling, RedoNeeded
<1>5. \/ ~crCache.live /\ UNCHANGED <<apiServer, informers>>
      \/ \E m : WriteStatus(api, m, crFresh, TRUE, 0)
      \/ /\ pc' = 1 /\ fresh' = crFresh /\ UNCHANGED <<apiServer, informers>>
         /\ LET m == [Idle EXCEPT !.spec = crCache.spec, !.st = crCache.st]
            IN mem' = IF m.st.status = "Ready" THEN m ELSE setStatus(m, "Ready")
  BY DEF Begin
<1> QED BY <1>2, <1>3, <1>4, <1>5

\* The last update brings what the pass has told into the resource.
LEMMA FinishTells ==
    ASSUME TypeOK, Spared, Finish, cr' = cr, cache' = cache, cr.live,
           Underway, Telling
    PROVE  pc' = 0 /\ TellsAll'
<1>1. /\ pc' = 0 /\ pc = Len(Programs[mem.spec]) + 1 /\ api' = api
  BY IdleApi DEF Finish, EndPass
<1>2. Programs[mem.spec] = Program(cr.spec) /\ mem.spec = cr.spec
  BY DEF TypeOK, PassOK, Mem, Programs, Underway
<1>3. cr.st = mem.st
  <2>1. WriteStatus(api, mem, fresh, FALSE, 0) /\ fresh
    BY DEF Finish, Telling
  <2>2. ~(budget' = [budget EXCEPT !["fault"] = @ - 0 - 1])
    <3>1. budget["fault"] \in Nat /\ budget' = budget
      BY DEF TypeOK, BudgetOK, Disturbances, Spared
    <3>2. budget' = [budget EXCEPT !["fault"] = @ - 0 - 1] =>
            budget'["fault"] = budget["fault"] - 1
      BY DEF TypeOK, BudgetOK, Disturbances
    <3> QED BY <3>1, <3>2
  <2>3. \E crChanged : Commit(api, [cr EXCEPT !.st = mem.st], crChanged, FALSE)
    BY <2>1, <2>2 DEF WriteStatus
  <2>4. cr' = [cr EXCEPT !.st = mem.st]
    BY <2>3 DEF Commit
  <2> QED BY <2>4 DEF TypeOK, ClusterOK, Horreum
<1>4. Passed(Len(Program(cr.spec)) + 1, cr.spec, cr.st.kcUrl, cr.st.url, cache, api)
  BY <1>1, <1>2, <1>3 DEF Underway
<1>5. Told(Len(Program(cr.spec)) + 1, cr.spec, cr.st)
  BY <1>1, <1>2, <1>3 DEF Telling
<1> QED BY <1>1, <1>4, <1>5 DEF TellsAll, Told

\* What happens elsewhere reaches neither the pass nor the resource.
LEMMA ElsewhereFresh ==
    ASSUME Cluster \/ Trouble, Elsewhere, cr' = cr, TypeOK
    PROVE  fresh' = fresh
<1>1. CASE Cluster
  BY <1>1 DEF Cluster, BecomeOk, Terminate, CollectGarbage, Change, pass
<1>2. ASSUME NEW o \in Objects, BecomeBad(o) \/ DeleteObject(o) PROVE fresh' = fresh
  BY <1>2 DEF BecomeBad, DeleteObject, Change, pass
<1>3. ASSUME NEW s \in Specs, EditSpec(s) PROVE FALSE
  <2>1. cr' = [cr EXCEPT !.spec = s] /\ s # cr.spec
    BY <1>3 DEF EditSpec, Commit
  <2> QED BY <2>1 DEF TypeOK, ClusterOK, Horreum
<1>4. ASSUME DeleteHorreum PROVE FALSE
  <2>1. cr' = [cr EXCEPT !.live = FALSE] /\ cr.live
    BY <1>4 DEF DeleteHorreum, Commit
  <2> QED BY <2>1 DEF TypeOK, ClusterOK, Horreum
<1>5. ~Crash
  BY DEF Crash, Elsewhere
<1> QED BY <1>1, <1>2, <1>3, <1>4, <1>5 DEF Trouble

LEMMA ElsewhereTells ==
    ASSUME UNCHANGED <<up, pc, mem>>, cr' = cr, cache' = cache, fresh' = fresh,
           \A o \in Objects : Survives(o, cache, api, api')
    PROVE  (TellsAll => TellsAll') /\ (Telling => Telling')
<1>1. ASSUME TellsAll PROVE TellsAll'
  <2>1. Passed(Len(Program(cr.spec)) + 1, cr.spec, cr.st.kcUrl, cr.st.url, cache, api')
    BY <1>1, PassedKept DEF TellsAll
  <2> QED BY <1>1, <2>1 DEF TellsAll, Told
<1>2. ASSUME Telling PROVE Telling'
  BY <1>2 DEF Telling, Told, RedoNeeded, At
<1> QED BY <1>1, <1>2
----------------------------------------------------------------------------
(* Certificates.                                                           *)

LEMMA CreatedCert ==
    ASSUME TypeOK, NEW o \in CertSecrets, api' \in Created(o) PROVE api'[o].cond = "ok"
<1>1. /\ o \in Objects /\ o \notin Pods \cup Routes /\ o \notin Services
  BY DEF CertSecrets, Objects, Secrets, Pods, Routes, Services
<1>2. PICK spec, p : api' = [api EXCEPT ![o] = NewObject(o, spec, p)]
  BY DEF Created
<1>3. api'[o] = NewObject(o, spec, p)
  BY <1>1, <1>2 DEF TypeOK, ClusterOK, IsStore
<1> QED BY <1>1, <1>3 DEF NewObject

LEMMA CertsStep == ASSUME TypeOK, Views, CertsOk, Next PROVE CertsOk'
<1> SUFFICES ASSUME NEW c \in CertSecrets, api'[c] # Absent PROVE api'[c].cond = "ok"
  BY DEF CertsOk
<1>1. c \in Objects /\ c \in Secrets /\ c \notin Pods
  BY DEF CertSecrets, Objects, Secrets, Pods
<1>2. CASE api'[c] = api[c]
  BY <1>2 DEF CertsOk
<1>3. ASSUME NEW o \in Objects, Step(o), api'[c] # api[c] PROVE api'[c].cond = "ok"
  <2>1. \/ api[o] = Absent /\ api' \in Created(o)
        \/ api[o] # Absent /\ api' \in Deleted(o)
    BY <1>3, StepMoves DEF Moves, Writes
  <2>2. c = o
    BY <1>1, <1>3, <2>1, CreatedObject, DeletedObject
  <2>3. CASE api' \in Created(o)
    BY <2>2, <2>3, CreatedCert
  <2>4. CASE api' \in Deleted(o)
    <3>1. api' = [api EXCEPT ![c] = Absent]
      BY <1>1, <2>2, <2>4 DEF Deleted
    <3>2. api'[c] = Absent
      BY <1>1, <3>1 DEF TypeOK, ClusterOK, IsStore
    <3> QED BY <3>2
  <2> QED BY <2>1, <2>3, <2>4
<1>4. CASE Begin \/ Finish \/ Restart \/ Informers
  BY <1>2, <1>4, IdleApi
<1>5. CASE Cluster \/ Trouble
  <2>1. Drifts(c)
    BY <1>1, <1>5, ClusterDrifts, TroubleDrifts
  <2> QED BY <1>1, <1>2, <2>1 DEF Drifts
<1> QED BY <1>2, <1>3, <1>4, <1>5 DEF Next, Operator

----------------------------------------------------------------------------
(* The grades of a complete pass are the health of the cluster.            *)

AllSteps(s) == SecretSet \cup PostgresSet(s) \cup KeycloakSet(s) \cup AppSet(s)
Judges == Secrets \cup Pods \cup Routes

LEMMA EnsuredWanted ==
    ASSUME NEW s \in CrSpec, NEW o, <<"Ensure", o>> \in AllSteps(s)
    PROVE  o \in Wanted(s)
<1>1. s.svc \in ServiceTypes /\ s.kcSvc \in ServiceTypes
  BY DEF CrSpec
<1>2. ASSUME NEW t \in ServiceTypes, NEW svc, NEW rt, <<"Ensure", o>> \in UrlSet(t, svc, rt)
      PROVE  o = rt /\ RoutesAvailable /\ t \in {"", "ClusterIP"}
  BY <1>2 DEF UrlSet, isNodePort, ServiceTypes
<1>3. CASE <<"Ensure", o>> \in SecretSet
  BY <1>3 DEF SecretSet, Wanted, Certificates
<1>4. CASE <<"Ensure", o>> \in PostgresSet(s)
  BY <1>4 DEF PostgresSet, Wanted
<1>5. CASE <<"Ensure", o>> \in KeycloakSet(s)
  <2>1. /\ s.kcExt = NoUrl
        /\ \/ o \in {"keycloak-svc", "keycloak-pod"}
           \/ <<"Ensure", o>> \in UrlSet(s.kcSvc, "keycloak-svc", "keycloak-route")
    BY <1>5 DEF KeycloakSet
  <2>2. CASE o \in {"keycloak-svc", "keycloak-pod"}
    BY <2>1, <2>2 DEF Wanted
  <2>3. CASE <<"Ensure", o>> \in UrlSet(s.kcSvc, "keycloak-svc", "keycloak-route")
    <3>1. o = "keycloak-route" /\ RoutesAvailable /\ s.kcSvc \in {"", "ClusterIP"}
      BY <1>1, <1>2, <2>3
    <3> QED BY <2>1, <3>1 DEF Wanted
  <2> QED BY <2>1, <2>2, <2>3
<1>6. CASE <<"Ensure", o>> \in AppSet(s)
  <2>1. \/ o \in {"app-svc", "app-pod", "upload"}
        \/ <<"Ensure", o>> \in UrlSet(s.svc, "app-svc", "app-route")
    BY <1>6 DEF AppSet
  <2>2. CASE o \in {"app-svc", "app-pod", "upload"}
    BY <2>2 DEF Wanted
  <2>3. CASE <<"Ensure", o>> \in UrlSet(s.svc, "app-svc", "app-route")
    <3>1. o = "app-route" /\ RoutesAvailable /\ s.svc \in {"", "ClusterIP"}
      BY <1>1, <1>2, <2>3
    <3> QED BY <3>1 DEF Wanted
  <2> QED BY <2>1, <2>2, <2>3
<1> QED BY <1>3, <1>4, <1>5, <1>6 DEF AllSteps

LEMMA WantedObjects == ASSUME NEW s PROVE Wanted(s) \subseteq Objects
BY DEF Wanted, Objects, Secrets, CertSecrets, Credentials, ConfigMaps, Pods, Services, Routes

LEMMA GradesAll ==
    ASSUME NEW s, NEW kc, NEW app, NEW seen
    PROVE  Grades(Len(Program(s)) + 1, s, kc, app, seen)
             = {Grade(x, s, kc, app, seen) : x \in AllSteps(s)}
<1> DEFINE p == Program(s)
<1>1. p \in Seq(StepSet(s)) /\ ToSet(p) = AllSteps(s)
  BY ProgramPart DEF Part, AllSteps
<1>2. Len(p) \in Nat /\ DOMAIN p = 1..Len(p)
  BY ProgramOrder
<1>3. {j \in 1..Len(p) : j < Len(p) + 1} = 1..Len(p)
  BY <1>2
<1>4. AllSteps(s) = {p[i] : i \in 1..Len(p)}
  BY <1>1, <1>2 DEF ToSet
<1> HIDE DEF p
<1>5. {Grade(p[i], s, kc, app, seen) : i \in 1..Len(p)}
        = {Grade(x, s, kc, app, seen) : x \in AllSteps(s)}
  BY <1>4
<1> QED BY <1>3, <1>5 DEF Grades, p

\* The worst grade and the worst condition agree.
LEMMA WorstHealth ==
    ASSUME TypeOK, CertsOk, NEW s \in CrSpec, NEW kc, NEW app, AllAchieved(s, kc, app)
    PROVE  Worst({Grade(x, s, kc, app, api) : x \in AllSteps(s)})
             = IF "bad" \in Health(s) THEN "Error"
               ELSE IF "new" \in Health(s) THEN "Pending" ELSE "Ready"
<1> DEFINE G == {Grade(x, s, kc, app, api) : x \in AllSteps(s)}
           grade(c) == IF c = "bad" THEN "Error" ELSE IF c = "new" THEN "Pending" ELSE "Ready"
<1>1. ASSUME NEW o \in Objects, api[o] # Absent
      PROVE  /\ api[o].cond \in Conditions
             /\ check(o, api[o]) = IF o \in Judges THEN grade(api[o].cond) ELSE "Ready"
  <2>1. api[o].cond \in Conditions
    BY <1>1 DEF TypeOK, ClusterOK, IsStore, Object
  <2> QED BY <2>1 DEF check, Conditions, Judges
<1>2. ASSUME NEW x \in AllSteps(s), x[1] = "Ensure"
      PROVE  /\ x[2] \in Wanted(s) /\ api[x[2]] # Absent
             /\ Grade(x, s, kc, app, api) = check(x[2], api[x[2]])
  <2>1. x = <<"Ensure", x[2]>>
    <3>1. x \in ToSet(Program(s)) /\ DOMAIN Program(s) = 1..Len(Program(s))
      BY ProgramPart, ProgramOrder DEF Part, AllSteps
    <3>2. \E i \in 1..Len(Program(s)) : x = Program(s)[i]
      BY <3>1 DEF ToSet
    <3>3. x \in StepSet(s)
      BY <3>2, ProgramOrder
    <3> QED BY <1>2, <3>3 DEF StepSet, Ops
  <2>2. x[2] \in Wanted(s)
    BY <2>1, EnsuredWanted
  <2>3. Fine(x[2], s, kc, app, api[x[2]])
    BY <1>2 DEF AllAchieved, AllSteps, Achieved, Made, Missed
  <2> QED BY <1>2, <2>2, <2>3, Zenon DEF Grade, Fine
<1>3. ASSUME NEW g \in G, g # "Ready" PROVE \E c \in Health(s) : g = grade(c)
  <2>1. PICK x \in AllSteps(s) : g = Grade(x, s, kc, app, api)
    OBVIOUS
  <2>2. x[1] = "Ensure"
    BY <1>3, <2>1 DEF Grade
  <2>3. x[2] \in Wanted(s) /\ api[x[2]] # Absent /\ g = check(x[2], api[x[2]])
    BY <1>2, <2>1, <2>2
  <2>4. x[2] \in Judges /\ g = grade(api[x[2]].cond)
    BY <1>1, <1>3, <2>3, WantedObjects
  <2>5. api[x[2]].cond \in Health(s)
    BY <2>3, <2>4 DEF Health, HealthIn, Judges
  <2> QED BY <2>4, <2>5
<1>4. ASSUME NEW c \in Health(s), c # "ok" PROVE grade(c) \in G /\ c \in Conditions
  <2>1. PICK o \in Wanted(s) \cap Judges : api[o] # Absent /\ c = api[o].cond
    BY DEF Health, HealthIn, Judges
  <2>2. o \notin CertSecrets
    BY <1>4, <2>1 DEF CertsOk
  <2>3. <<"Ensure", o>> \in AllSteps(s)
    <3>1. o # "service-ca"
      BY <2>1 DEF Judges, Secrets, CertSecrets, Credentials, Pods, Routes
    <3>2. <<"Present", o>> \notin SecretSet
      BY <2>2, <3>1 DEF SecretSet, Certificates
    <3> QED BY <2>1, <3>2, WantedEnsured DEF AllSteps
  <2>4. Grade(<<"Ensure", o>>, s, kc, app, api) = check(o, api[o])
    BY <1>2, <2>3
  <2>5. check(o, api[o]) = grade(c) /\ c \in Conditions
    BY <1>1, <2>1, WantedObjects
  <2> QED BY <2>3, <2>4, <2>5
<1> HIDE DEF G
<1>5. ("Error" \in G <=> "bad" \in Health(s)) /\ ("Pending" \in G <=> "new" \in Health(s))
  BY <1>3, <1>4
<1> QED BY <1>5 DEF Worst, G

----------------------------------------------------------------------------
(* The inductive invariant and the theorem.                                *)

StatusInv == CertsOk /\ StatusTold

LEMMA StatusToldStep ==
    ASSUME TypeOK, TypeOK', RestInv, StatusTold, Next, Shown, Spared PROVE StatusTold'
<1> SUFFICES ASSUME Tranquil' PROVE IF pc' = 0 THEN TellsAll' ELSE Telling'
  BY DEF StatusTold
<1>1. CASE Begin
  BY <1>1, BeginTelling DEF RestInv
<1>2. CASE /\ Tranquil /\ SameSight
           /\ (\E o \in Objects : Step(o)) \/ Finish \/ ((Cluster \/ Trouble) /\ Elsewhere)
  <2>1. cr' = cr /\ cache' = cache /\ cr.live
    BY <1>2 DEF SameSight, Tranquil, TypeOK, ClusterOK, IsStore
  <2>2. IF pc = 0 THEN TellsAll ELSE Underway /\ Telling
    BY <1>2 DEF RestInv, WorkDone, StatusTold
  <2>3. ASSUME NEW o \in Objects, Step(o) PROVE pc' # 0 /\ Telling'
    <3>1. pc # 0
      <4>1. ~dirty' /\ up'
        BY DEF Tranquil
      <4>2. \E op : At(op, o)
        BY <2>3, <4>1, StepJudged DEF Judged
      <4> QED BY <4>2, AtStep DEF TypeOK
    <3>2. pc' # 0
      BY <2>1, <2>2, <2>3, <3>1, StepWork
    <3> QED BY <2>1, <2>2, <2>3, <3>1, <3>2, StepTelling
  <2>4. CASE Finish
    <3>1. pc # 0
      <4>1. Len(Programs[mem.spec]) \in Nat
        BY ProgramOrder DEF TypeOK, PassOK, Mem, Programs
      <4> QED BY <2>4, <4>1 DEF Finish
    <3> QED BY <2>1, <2>2, <2>4, <3>1, FinishTells
  <2>5. CASE (Cluster \/ Trouble) /\ Elsewhere
    <3>1. \A x \in Objects : Drifts(x)
      BY <2>5, ClusterDrifts, TroubleDrifts DEF RestInv
    <3>2. \A o \in Objects : Survives(o, cache, api, api')
      BY <1>2, <3>1, DriftSurvives
    <3>3. fresh' = fresh
      BY <2>1, <2>5, ElsewhereFresh
    <3> QED BY <2>1, <2>2, <2>5, <3>2, <3>3, ElsewhereTells DEF Elsewhere
  <2> QED BY <1>2, <2>3, <2>4, <2>5
<1> QED BY <1>1, <1>2, RestUndisturbed DEF RestInv

LEMMA StatusStep ==
    ASSUME TypeOK, TypeOK', RestInv, StatusInv, [Next]_vars, [Shown /\ Spared]_vars
    PROVE  StatusInv'
<1>1. CASE UNCHANGED vars
  BY <1>1 DEF StatusInv, CertsOk, StatusTold, Tranquil, TellsAll, Telling, Told, RedoNeeded,
              At, vars
<1>2. CASE Next /\ Shown /\ Spared
  BY <1>2, CertsStep, StatusToldStep DEF StatusInv, RestInv
<1> QED BY <1>1, <1>2

LEMMA InitStatus == ASSUME Init PROVE StatusInv
<1>1. CertsOk
  <2>1. \A c \in CertSecrets : c \in Objects /\ c \notin DOMAIN GivenSecrets
    BY GivenAssumption DEF CertSecrets, Credentials, Objects, Secrets
  <2> QED BY <2>1 DEF Init, CertsOk
<1>2. StatusTold
  BY DEF Init, StatusTold, Tranquil
<1> QED BY <1>1, <1>2 DEF StatusInv

LEMMA StatusImplies == ASSUME TypeOK, StatusInv PROVE QuietStatus
<1> SUFFICES ASSUME Quiet PROVE Reported(cr, api, cr.st)
  BY DEF QuietStatus
<1> DEFINE s == cr.spec
           kc == cr.st.kcUrl
           app == cr.st.url
<1>1. TellsAll /\ cache = api
  BY DEF StatusInv, StatusTold, Quiet, Tranquil
<1>2. AllAchieved(s, kc, app)
  BY <1>1, PassedAll DEF TellsAll
<1>3. s \in CrSpec
  BY SpecsAssumption DEF TypeOK, ClusterOK, Horreum
<1>4. cr.st.status = Worst({Grade(x, s, kc, app, api) : x \in AllSteps(s)})
  <2>1. cr.st.status = Worst(Grades(Len(Program(s)) + 1, s, kc, app, api))
    BY <1>1 DEF TellsAll, Told
  <2>2. Grades(Len(Program(s)) + 1, s, kc, app, api)
          = {Grade(x, s, kc, app, api) : x \in AllSteps(s)}
    BY GradesAll
  <2> QED BY <2>1, <2>2
<1> QED BY <1>2, <1>3, <1>4, WorstHealth, AddressesAchieved DEF StatusInv, Reported, Health

\* The status tells the truth at rest: for all specs, whatever is edited,
\* crashes, fails, goes bad or is noticed late, nothing queued and current caches
\* mean that the status is the worst health of what the spec asks for and shows
\* where the components are reached, as long as what others delete has been
\* shown by an informer and no last status update of a pass fails.
THEOREM StatusTruthful == Spec /\ [][Shown /\ Spared]_vars => []QuietStatus
<1>1. Init => RestInv /\ StatusInv
  BY InitRest, InitStatus
<1>2. [Shown /\ Spared]_vars => [Shown]_vars
  OBVIOUS
<1>3. RestInv /\ StatusInv /\ TypeOK /\ TypeOK' /\ [Next]_vars /\ [Shown /\ Spared]_vars
      => RestInv' /\ StatusInv'
  BY <1>2, RestStep, StatusStep
<1>4. TypeOK /\ StatusInv => QuietStatus
  BY StatusImplies
<1> QED BY <1>1, <1>3, <1>4, TypeCorrect, PTL DEF Spec

----------------------------------------------------------------------------
(* No fault is given back.                                                 *)

LEMMA FaultSpent ==
    ASSUME TypeOK, NEW f \in Nat, budget' = [budget EXCEPT !["fault"] = @ - f]
    PROVE  budget'["fault"] = budget["fault"] - f /\ budget["fault"] \in Nat
BY DEF TypeOK, BudgetOK, Disturbances

LEMMA WriteStatusFaults ==
    ASSUME TypeOK, NEW newApi, NEW m, NEW current, NEW requeue, NEW f \in Nat,
           WriteStatus(newApi, m, current, requeue, f)
    PROVE  budget'["fault"] <= budget["fault"]
<1>1. budget["fault"] \in Nat
  BY DEF TypeOK, BudgetOK, Disturbances
<1>2. \/ budget' = [budget EXCEPT !["fault"] = @ - f]
      \/ budget' = [budget EXCEPT !["fault"] = @ - f - 1]
  BY DEF WriteStatus
<1>3. \/ budget'["fault"] = budget["fault"] - f
      \/ budget'["fault"] = budget["fault"] - f - 1
  BY <1>2 DEF TypeOK, BudgetOK, Disturbances
<1> QED BY <1>1, <1>3

LEMMA FailFaults ==
    ASSUME TypeOK, NEW newApi, NEW reported, NEW f \in Nat, Fail(newApi, reported, f)
    PROVE  budget'["fault"] <= budget["fault"]
<1>1. \A m, current : WriteStatus(newApi, m, current, TRUE, f) =>
                        budget'["fault"] <= budget["fault"]
  BY WriteStatusFaults
<1>2. \/ WriteStatus(newApi, setStatus(mem, "Error"), fresh, TRUE, f)
      \/ budget' = [budget EXCEPT !["fault"] = @ - f]
  BY Zenon DEF Fail
<1>3. CASE budget' = [budget EXCEPT !["fault"] = @ - f]
  <2>1. budget'["fault"] = budget["fault"] - f /\ budget["fault"] \in Nat
    BY <1>3, FaultSpent
  <2> QED BY <2>1
<1> QED BY <1>1, <1>2, <1>3, Zenon

LEMMA WaitFaults == ASSUME TypeOK, Wait PROVE budget'["fault"] <= budget["fault"]
BY WriteStatusFaults DEF Wait

LEMMA WriteFailsFaults ==
    ASSUME TypeOK, NEW refused, NEW outcomes, NEW reported,
           WriteFails(refused, outcomes, reported)
    PROVE  budget'["fault"] <= budget["fault"]
BY FailFaults DEF WriteFails

LEMMA SameFaults == ASSUME TypeOK, budget' = budget PROVE budget'["fault"] <= budget["fault"]
BY DEF TypeOK, BudgetOK, Disturbances

LEMMA SpendFaults == ASSUME TypeOK, NEW d, Spend(d) PROVE budget'["fault"] <= budget["fault"]
BY DEF TypeOK, BudgetOK, Disturbances, Spend

LEMMA StepFaults ==
    ASSUME TypeOK, NEW o \in Objects, Step(o) PROVE budget'["fault"] <= budget["fault"]
<1> DEFINE P == budget'["fault"] <= budget["fault"]
<1>1. \A newApi, reported : Fail(newApi, reported, 0) \/ Fail(newApi, reported, 1) => P
  BY FailFaults
<1>2. \A refused, outcomes, reported : WriteFails(refused, outcomes, reported) => P
  BY WriteFailsFaults
<1>3. (budget' = budget => P) /\ (Wait => P) /\ (Spend("fault") => P)
  BY SameFaults, WaitFaults, SpendFaults
<1> HIDE DEF P
<1>4. ReadOnly => P
  BY <1>3 DEF ReadOnly
<1>5. GetFails(o) => P
  BY <1>1, Zenon DEF GetFails
<1>6. EnsureCreate(o) => P
  BY <1>2, <1>3, Zenon DEF EnsureCreate
<1>7. EnsureMatch(o) => P
  BY <1>4, Zenon DEF EnsureMatch
<1>8. EnsureReplace(o) => P
  BY <1>2, <1>3 DEF EnsureReplace
<1>9. EnsureDeleted(o) => P
  BY <1>2, <1>3, <1>4, Zenon DEF EnsureDeleted
<1>10. Present(o) => P
  BY <1>2, <1>3, <1>4, Zenon DEF Present
<1>11. CheckRoute(o) => P
  BY <1>1, <1>4, Zenon DEF CheckRoute
<1>12. \A url : LearnUrl(o, url) => P
  BY <1>4, Zenon DEF LearnUrl
<1>13. NodePort(o) \/ RouteUrl(o) \/ NoUrlWait(o) => P
  BY <1>1, <1>3, <1>12 DEF NodePort, RouteUrl, NoUrlWait
<1>14. LoadBalancer(o) \/ External(o) => P
  BY <1>3, <1>12 DEF LoadBalancer, External
<1> QED BY <1>5, <1>6, <1>7, <1>8, <1>9, <1>10, <1>11, <1>13, <1>14, Zenon DEF Step, P

LEMMA NextFaults == ASSUME TypeOK, Next PROVE budget'["fault"] <= budget["fault"]
<1> DEFINE P == budget'["fault"] <= budget["fault"]
<1>1. \A m, current, requeue : WriteStatus(api, m, current, requeue, 0) => P
  BY WriteStatusFaults
<1>2. (budget' = budget => P) /\ \A d : Spend(d) => P
  BY SameFaults, SpendFaults
<1>3. \A o \in Objects : Step(o) => P
  BY StepFaults
<1> HIDE DEF P
<1>4. Begin \/ Finish => P
  BY <1>1, <1>2 DEF Begin, Finish
<1>5. Restart \/ Informers => P
  BY <1>2 DEF Restart, Informers, Sync, SyncHorreum, Resync
<1>6. Cluster => P
  BY <1>2 DEF Cluster, BecomeOk, Terminate, CollectGarbage
<1>7. Trouble => P
  BY <1>2 DEF Trouble, BecomeBad, DeleteObject, EditSpec, DeleteHorreum, Crash
<1> QED BY <1>3, <1>4, <1>5, <1>6, <1>7 DEF Next, Operator, P

----------------------------------------------------------------------------
(* As long as no API call has failed.                                      *)

NoFault       == budget["fault"] = Bounds["fault"]
FaultsBounded == budget["fault"] <= Bounds["fault"]

LEMMA InitFaults == ASSUME Init PROVE FaultsBounded
BY BoundsAssumption DEF Init, FaultsBounded, Disturbances

LEMMA FaultsStep ==
    ASSUME TypeOK, TypeOK', FaultsBounded, [Next]_vars
    PROVE  FaultsBounded' /\ (NoFault' => NoFault /\ budget'["fault"] = budget["fault"])
<1>1. CASE UNCHANGED vars
  BY <1>1 DEF FaultsBounded, NoFault, vars
<1>2. CASE Next
  <2>1. /\ budget'["fault"] \in Nat /\ budget["fault"] \in Nat /\ Bounds["fault"] \in Nat
        /\ budget'["fault"] <= budget["fault"]
    BY <1>2, NextFaults, BoundsAssumption DEF TypeOK, BudgetOK, Disturbances
  <2> QED BY <2>1 DEF FaultsBounded, NoFault
<1> QED BY <1>1, <1>2

LEMMA NoFaultSpared ==
    ASSUME TypeOK, TypeOK', budget'["fault"] = budget["fault"] PROVE Spared
<1> SUFFICES ASSUME Finish PROVE budget' = budget
  BY DEF Spared
<1>1. \/ budget' = [budget EXCEPT !["fault"] = @ - 0]
      \/ budget' = [budget EXCEPT !["fault"] = @ - 0 - 1]
  BY Zenon DEF Finish, WriteStatus
<1>2. budget \in [Disturbances -> Nat] /\ "fault" \in Disturbances
  BY DEF TypeOK, BudgetOK, Disturbances
<1>3. \A d \in Disturbances : budget'[d] = budget[d]
  BY <1>1, <1>2
<1>4. budget' \in [Disturbances -> Nat]
  BY DEF TypeOK, BudgetOK
<1> QED BY <1>2, <1>3, <1>4

LEMMA NoFaultStep ==
    ASSUME Witnessed, TypeOK, TypeOK', RestInv, DeletesBounded, FaultsBounded,
           NoFault => StatusInv, [Next]_vars
    PROVE  /\ RestInv' /\ DeletesBounded' /\ FaultsBounded'
           /\ NoFault' => StatusInv'
<1>1. RestInv' /\ DeletesBounded' /\ [Shown]_vars
  BY WitnessedStep
<1>2. FaultsBounded'
  BY FaultsStep
<1>3. ASSUME NoFault' PROVE StatusInv'
  <2>1. NoFault /\ Spared
    BY <1>3, FaultsStep, NoFaultSpared
  <2> QED BY <1>1, <2>1, StatusStep
<1> QED BY <1>1, <1>2, <1>3

\* So the status tells the truth at rest as long as no API call has failed, if
\* no kind of object lags behind its events or nobody deletes.
COROLLARY FaultlessStatus == Witnessed => (Spec => [](NoFault => QuietStatus))
<1> SUFFICES ASSUME Witnessed PROVE Spec => [](NoFault => QuietStatus)
  OBVIOUS
<1>1. Init => RestInv /\ DeletesBounded /\ FaultsBounded /\ (NoFault => StatusInv)
  BY InitRest, InitDeletes, InitFaults, InitStatus
<1>2. /\ RestInv /\ DeletesBounded /\ FaultsBounded /\ (NoFault => StatusInv)
      /\ TypeOK /\ TypeOK' /\ [Next]_vars
      => RestInv' /\ DeletesBounded' /\ FaultsBounded' /\ (NoFault' => StatusInv')
  BY NoFaultStep
<1>3. TypeOK /\ StatusInv => QuietStatus
  BY StatusImplies
<1> QED BY <1>1, <1>2, <1>3, TypeCorrect, PTL DEF Spec

=============================================================================
