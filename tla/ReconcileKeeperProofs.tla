----------------------- MODULE ReconcileKeeperProofs -----------------------
(***************************************************************************)
(* Proof that the passes of the operator, with its caches and its queue,   *)
(* implement Keeper: ImplementsKeeper.                                     *)
(***************************************************************************)
EXTENDS ReconcileStatusProofs

----------------------------------------------------------------------------
(* The operator writes nothing but the status of the resource.             *)

OnlyTells == cr'.live = cr.live /\ cr'.spec = cr.spec

LEMMA CommitTells ==
    ASSUME NEW newApi, NEW crChanged, NEW requeue, Commit(newApi, cr, crChanged, requeue)
    PROVE  OnlyTells
BY DEF Commit, OnlyTells

LEMMA WriteStatusTells ==
    ASSUME TypeOK, NEW newApi, NEW m, NEW current, NEW requeue, NEW f,
           WriteStatus(newApi, m, current, requeue, f)
    PROVE  OnlyTells
<1>1. PICK newCr \in {cr, [cr EXCEPT !.st = m.st]} :
        \E crChanged : Commit(newApi, newCr, crChanged, requeue)
  BY DEF WriteStatus
<1>2. cr' = newCr
  BY <1>1, CommitTame
<1> QED BY <1>2 DEF OnlyTells, TypeOK, ClusterOK, Horreum

LEMMA FailTells ==
    ASSUME TypeOK, NEW newApi, NEW reported, NEW f, Fail(newApi, reported, f)
    PROVE  OnlyTells
<1>1. \A m, current, requeue : WriteStatus(newApi, m, current, requeue, f) => OnlyTells
  BY WriteStatusTells
<1>2. \A crChanged, requeue : Commit(newApi, cr, crChanged, requeue) => OnlyTells
  BY CommitTells
<1> QED BY <1>1, <1>2, Zenon DEF Fail

LEMMA WaitTells == ASSUME TypeOK, Wait PROVE OnlyTells
BY WriteStatusTells DEF Wait

LEMMA WriteFailsTells ==
    ASSUME TypeOK, NEW refused, NEW outcomes, NEW reported,
           WriteFails(refused, outcomes, reported)
    PROVE  OnlyTells
BY FailTells DEF WriteFails

LEMMA IdleTells == ASSUME UNCHANGED apiServer PROVE OnlyTells /\ api' = api
BY DEF apiServer, OnlyTells

LEMMA StepTells == ASSUME TypeOK, NEW o \in Objects, Step(o) PROVE OnlyTells
<1>1. \A newApi, reported, f : Fail(newApi, reported, f) => OnlyTells
  BY FailTells
<1>2. \A refused, outcomes, reported : WriteFails(refused, outcomes, reported) => OnlyTells
  BY WriteFailsTells
<1>3. \A newApi : Commit(newApi, cr, FALSE, FALSE) => OnlyTells
  BY CommitTells
<1>4. ReadOnly \/ Panic => OnlyTells
  BY IdleTells DEF ReadOnly, Panic
<1>5. CASE GetFails(o) \/ CheckRoute(o)
  BY <1>1, <1>4, <1>5, Zenon DEF GetFails, CheckRoute
<1>6. CASE EnsureCreate(o)
  <2>1. \/ WriteFails(api[o] # Absent, Created(o), TRUE)
        \/ \E newApi \in Created(o) : Commit(newApi, cr, FALSE, FALSE)
    BY <1>6 DEF EnsureCreate
  <2> QED BY <1>2, <1>3, <2>1, Zenon
<1>7. CASE EnsureMatch(o)
  BY <1>4, <1>7 DEF EnsureMatch
<1>8. CASE EnsureReplace(o)
  <2>1. \/ WriteFails(api[o] = Absent, Deleted(o), TRUE)
        \/ \E newApi \in Deleted(o) : Commit(newApi, cr, FALSE, FALSE)
    BY <1>8 DEF EnsureReplace
  <2> QED BY <1>2, <1>3, <2>1, Zenon
<1>9. CASE EnsureDeleted(o)
  <2>1. \/ ReadOnly
        \/ WriteFails(api[o] = Absent, Deleted(o), TRUE)
        \/ \E newApi \in Deleted(o) : Commit(newApi, cr, FALSE, FALSE)
    BY <1>9 DEF EnsureDeleted
  <2> QED BY <1>2, <1>3, <1>4, <2>1, Zenon
<1>10. CASE Present(o)
  <2>1. \/ ReadOnly
        \/ WriteFails(api[o] # Absent, Created(o), o = "ca-certs")
        \/ \E newApi \in Created(o) : Commit(newApi, cr, FALSE, FALSE)
    BY <1>10 DEF Present
  <2> QED BY <1>2, <1>3, <1>4, <2>1, Zenon
<1>11. CASE NodePort(o) \/ RouteUrl(o)
  <2>1. Fail(api, FALSE, 0) \/ Wait \/ ReadOnly
    BY <1>11 DEF NodePort, RouteUrl, LearnUrl
  <2> QED BY <1>1, <1>4, <2>1, WaitTells, Zenon
<1>12. CASE LoadBalancer(o) \/ NoUrlWait(o) \/ External(o)
  BY <1>4, <1>12, WaitTells DEF LoadBalancer, NoUrlWait, External, LearnUrl
<1> QED BY <1>5, <1>6, <1>7, <1>8, <1>9, <1>10, <1>11, <1>12 DEF Step

LEMMA BeginTells == ASSUME TypeOK, Begin PROVE OnlyTells /\ api' = api
<1>1. \A m, current, requeue, f : WriteStatus(api, m, current, requeue, f) => OnlyTells
  BY WriteStatusTells
<1>2. (\E m : WriteStatus(api, m, crFresh, TRUE, 0)) \/ UNCHANGED apiServer
  BY Zenon DEF Begin
<1>3. OnlyTells
  BY <1>1, <1>2, IdleTells, Zenon
<1> QED BY <1>3, IdleApi

LEMMA FinishTellsOnly == ASSUME TypeOK, Finish PROVE OnlyTells /\ api' = api
BY WriteStatusTells, IdleApi DEF Finish

----------------------------------------------------------------------------
(* The actions of Keeper.                                                  *)

\* What a call of the operator does to an object.
Handled(o) == api[o] = Absent \/ K!Cleared(o)

LEMMA StepHandles ==
    ASSUME TypeOK, NEW o \in Objects, Step(o)
    PROVE  /\ \A p \in Objects \ {o} : api'[p] = api[p]
           /\ api'[o] # api[o] => Handled(o)
<1>1. Writes(o) /\ \A x \in Secrets : api[x] # Absent => api'[x] = api[x]
  BY StepMoves, StepKeeps DEF Moves, Keeps, Kept
<1>2. CASE api' = api
  BY <1>2
<1>3. CASE api[o] = Absent /\ api' \in Created(o)
  BY <1>3, CreatedObject DEF Handled
<1>4. CASE api[o] # Absent /\ api' \in Deleted(o)
  BY <1>1, <1>4, DeletedObject DEF Handled, K!Cleared
<1> QED BY <1>1, <1>2, <1>3, <1>4 DEF Writes

LEMMA DriftsWell ==
    ASSUME NEW o \in Objects, Drifts(o), api'[o] # api[o]
    PROVE  api[o] # Absent /\ (api'[o] # Absent => api'[o].spec = api[o].spec)
BY DEF Drifts

\* Keeper knows the resource without its status.
LEMMA RightMeans == K!Right <=> Suited(cr, api) /\ Reported(cr, api, cr.st)
BY DEF K!Right, Suited, Reported

\* A step of a pass is work, and so is what a pass begins or ends with while
\* something is owed.
LEMMA WorkSteps ==
    ASSUME NEW o \in Objects, ~Quiet, ~Quiet', OnlyTells,
           \A p \in Objects \ {o} : api'[p] = api[p], api'[o] # api[o] => Handled(o)
    PROVE  K!Work
<1>1. UNCHANGED [live |-> cr.live, spec |-> cr.spec]
  BY DEF OnlyTells
<1>2. (~Quiet)' = TRUE
  OBVIOUS
<1> QED BY <1>1, <1>2 DEF K!Work, K!Made, Handled

LEMMA DriftSteps ==
    ASSUME cr' = cr, \A o \in Objects : Drifts(o), Quiet' => ~Quiet /\ K!Right'
    PROVE  K!Drift
<1>1. UNCHANGED <<[live |-> cr.live, spec |-> cr.spec], cr.st>>
  OBVIOUS
<1>2. \A o \in Objects : api'[o] # api[o] =>
        api[o] # Absent /\ (api'[o] # Absent => api'[o].spec = api[o].spec)
  BY DriftsWell
<1>3. (~Quiet)' = TRUE \/ (~Quiet /\ (~Quiet)' = FALSE /\ K!Right')
  OBVIOUS
<1> QED BY <1>1, <1>2, <1>3, Zenon DEF K!Drift

\* What happens in the cluster outside the passes.
LEMMA OutsideSame ==
    ASSUME TypeOK,
           Cluster \/ \E o \in Objects : BecomeBad(o) \/ DeleteObject(o)
    PROVE  cr' = cr
<1>1. \A newApi, crChanged, requeue : Commit(newApi, cr, crChanged, requeue) => cr' = cr
  BY DEF Commit
<1>2. \E newApi : Commit(newApi, cr, FALSE, FALSE)
  BY Zenon DEF Cluster, BecomeOk, Terminate, Change, CollectGarbage, BecomeBad, DeleteObject
<1> QED BY <1>1, <1>2, Zenon

\* An edit, and the deletion of the resource, are not seen at once.
LEMMA AskSteps ==
    ASSUME TypeOK, (\E s \in Specs : EditSpec(s)) \/ DeleteHorreum
    PROVE  K!Ask
<1>1. PICK newCr : /\ Commit(api, newCr, TRUE, FALSE) /\ newCr.st = cr.st
                   /\ newCr.live # cr.live \/ newCr.spec # cr.spec
  <2>1. cr \in Horreum
    BY DEF TypeOK, ClusterOK
  <2>2. ASSUME NEW s \in Specs, s # cr.spec
        PROVE  [cr EXCEPT !.spec = s].st = cr.st /\ [cr EXCEPT !.spec = s].spec # cr.spec
    BY <2>1, <2>2 DEF Horreum
  <2>3. cr.live => [cr EXCEPT !.live = FALSE].st = cr.st
                   /\ [cr EXCEPT !.live = FALSE].live # cr.live
    BY <2>1 DEF Horreum
  <2> QED BY <2>2, <2>3, Zenon DEF EditSpec, DeleteHorreum
<1>2. cr' = newCr /\ api' = api
  BY <1>1, CommitTame
<1>3. dirty' \/ ~crFresh'
  BY <1>1 DEF Commit
<1>4. [live |-> cr.live, spec |-> cr.spec]' # [live |-> cr.live, spec |-> cr.spec]
  BY <1>1, <1>2
<1>5. (~Quiet)' = TRUE
  BY <1>3 DEF Quiet
<1> QED BY <1>1, <1>2, <1>4, <1>5 DEF K!Ask

LEMMA WakeSteps ==
    ASSUME Restart \/ Informers \/ Crash, ~Quiet' PROVE K!Wake
<1>1. cr' = cr /\ api' = api
  BY DEF Restart, Informers, Sync, SyncHorreum, Resync, Crash, apiServer
<1> QED BY <1>1 DEF K!Wake

----------------------------------------------------------------------------
(* Every step of the system.                                               *)

\* What is at rest is as it should be.
LEMMA KeptRight == ASSUME TypeOK, RestInv, StatusInv PROVE K!Kept
BY RestSuits, StatusImplies, RightMeans DEF QuietStatus, K!Kept

\* What is at rest stays so only when nothing happens, and what comes to rest
\* has nothing left to do.
LEMMA RestSteps ==
    ASSUME TypeOK, TypeOK', RestInv, K!Kept', Next, Quiet'
    PROVE  [K!Next]_(K!vars)
<1>1. K!Right'
  BY DEF K!Kept
<1>2. Tranquil' /\ pc' = 0 /\ cache' = api'
  BY DEF Quiet, Tranquil
<1>3. ~Begin
  BY <1>2, BeginWork DEF RestInv
<1>4. /\ Tranquil /\ cr' = cr /\ cache' = cache
      /\ (\E o \in Objects : Step(o)) \/ Finish \/ ((Cluster \/ Trouble) /\ Elsewhere)
  BY <1>2, <1>3, RestUndisturbed DEF RestInv, SameSight, TypeOK, ClusterOK, IsStore
<1>5. ~\E o \in Objects : Step(o)
  <2>1. pc # 0 => Underway
    BY <1>4 DEF RestInv, WorkDone
  <2> QED BY <1>2, <1>4, <2>1, StepWork
<1>6. CASE Quiet
  <2>1. api' = api
    BY <1>2, <1>4, <1>6 DEF Quiet
  <2>2. (~Quiet)' = ~Quiet
    BY <1>6
  <2> QED BY <1>4, <2>1, <2>2 DEF K!vars
<1>7. CASE ~Quiet /\ Finish
  <2>1. api' = api
    BY <1>7, IdleApi
  <2>2. K!Right
    BY <1>1, <1>4, <2>1 DEF K!Right, Suited, Reported
  <2>3. K!Rest
    BY <1>4, <1>7, <2>1, <2>2, Zenon DEF K!Rest
  <2> QED BY <2>3 DEF K!Next
<1>8. CASE ~Quiet /\ (Cluster \/ Trouble)
  <2>1. \A o \in Objects : Drifts(o)
    BY <1>8, ClusterDrifts, TroubleDrifts DEF RestInv
  <2>2. K!Drift
    BY <1>1, <1>4, <1>8, <2>1, DriftSteps
  <2> QED BY <2>2 DEF K!Next
<1> QED BY <1>4, <1>5, <1>6, <1>7, <1>8

LEMMA StepAt == ASSUME TypeOK, NEW o \in Objects, Step(o) PROVE pc # 0
<1>1. \E op : At(op, o)
  BY Zenon DEF Step, GetFails, EnsureCreate, EnsureMatch, EnsureReplace, EnsureDeleted, Present,
               CheckRoute, NodePort, RouteUrl, LoadBalancer, NoUrlWait, External
<1> QED BY <1>1, AtStep DEF TypeOK

\* Whatever else happens leaves something to do, or something to find out.
LEMMA RestlessSteps ==
    ASSUME TypeOK, TypeOK', RestInv, Next, ~Quiet' PROVE K!Next
<1>1. ASSUME NEW o \in Objects, Step(o) PROVE K!Work
  <2>1. ~Quiet
    BY <1>1, StepAt DEF Quiet
  <2> QED BY <1>1, <2>1, StepTells, StepHandles, WorkSteps
<1>2. ASSUME Begin \/ Finish PROVE K!Work
  <2>1. ~Quiet
    <3>1. Len(Programs[mem.spec]) \in Nat
      BY ProgramOrder DEF TypeOK, PassOK, Mem, Programs
    <3>2. dirty \/ pc = Len(Programs[mem.spec]) + 1
      BY <1>2 DEF Begin, Finish
    <3> QED BY <3>1, <3>2 DEF Quiet
  <2>2. OnlyTells /\ api' = api
    BY <1>2, BeginTells, FinishTellsOnly
  <2>3. "app-pod" \in Objects
    BY DEF Objects, Pods
  <2> QED BY <2>1, <2>2, <2>3, WorkSteps
<1>3. ASSUME Cluster \/ \E o \in Objects : BecomeBad(o) \/ DeleteObject(o) PROVE K!Drift
  <2>1. \A o \in Objects : Drifts(o)
    BY <1>3, ClusterDrifts, TroubleDrifts DEF RestInv, Trouble
  <2> QED BY <1>3, <2>1, OutsideSame, DriftSteps
<1>4. CASE Operator
  BY <1>1, <1>2, <1>4, WakeSteps DEF Operator, K!Next
<1>5. CASE Informers
  BY <1>5, WakeSteps DEF K!Next
<1>6. CASE Cluster
  BY <1>3, <1>6 DEF K!Next
<1>7. CASE Trouble
  BY <1>3, <1>7, AskSteps, WakeSteps DEF Trouble, K!Next
<1> QED BY <1>4, <1>5, <1>6, <1>7 DEF Next

LEMMA KeeperStep ==
    ASSUME TypeOK, TypeOK', RestInv, K!Kept', [Next]_vars
    PROVE  [K!Next]_(K!vars)
<1>1. CASE UNCHANGED vars
  BY <1>1 DEF vars, K!vars, Quiet
<1>2. CASE Next
  BY <1>2, RestSteps, RestlessSteps
<1> QED BY <1>1, <1>2

LEMMA KeeperInit == ASSUME Init PROVE K!Init
BY DEF Init, K!Init, Quiet

\* The program implements Keeper, for all specs and whatever is edited,
\* deleted, lost, fails, crashes or is noticed late: it works only while it owes
\* something, clears no secret, makes only what is missing, and owes nothing
\* only when everything suits the spec and the status says so; as long as what
\* others delete has been shown by an informer and no last status update fails.
THEOREM OperatorIsKeeper == CarefulSpec => ImplementsKeeper
<1>1. Init => RestInv /\ StatusInv /\ K!Init
  BY InitRest, InitStatus, KeeperInit
<1>2. [Next /\ Shown /\ Spared]_vars
        => [Next]_vars /\ [Shown]_vars /\ [Shown /\ Spared]_vars
  OBVIOUS
<1>3. RestInv /\ StatusInv /\ TypeOK /\ TypeOK' /\ [Next /\ Shown /\ Spared]_vars
        => RestInv' /\ StatusInv'
  BY <1>2, RestStep, StatusStep
<1>4. TypeOK /\ RestInv /\ StatusInv => K!Kept
  BY KeptRight
<1>5. RestInv /\ TypeOK /\ TypeOK' /\ K!Kept' /\ [Next]_vars => [K!Next]_(K!vars)
  BY KeeperStep
<1> QED BY <1>1, <1>2, <1>3, <1>4, <1>5, TypeCorrect, PTL
        DEF Spec, CarefulSpec, ImplementsKeeper, K!Spec

\* Keeper itself leaves nothing undone or untold at rest, so neither does the
\* program: at rest every object is as far as the comparison functions can tell
\* what the spec asks for, and the status is that of the objects, whether or not
\* the specs can be told apart.
COROLLARY RestsRight == CarefulSpec => []K!Kept
<1>1. K!Init => K!Kept
  BY DEF K!Init, K!Kept
<1>2. K!Kept /\ [K!Next]_(K!vars) => K!Kept'
  <2> SUFFICES ASSUME K!Kept, [K!Next]_(K!vars), (~Quiet)' = FALSE PROVE K!Right'
    BY DEF K!Kept
  <2>1. CASE K!Drift
    BY <2>1 DEF K!Drift
  <2>2. CASE K!Right /\ UNCHANGED <<[live |-> cr.live, spec |-> cr.spec], api, cr.st>>
    BY <2>2 DEF K!Right
  <2>3. CASE UNCHANGED K!vars
    <3>1. K!Right
      BY <2>3 DEF K!Kept, K!vars
    <3> QED BY <2>2, <2>3, <3>1 DEF K!vars
  <2>4. CASE K!Ask \/ K!Work \/ K!Wake \/ K!Rest
    BY <2>2, <2>4 DEF K!Ask, K!Work, K!Wake, K!Rest
  <2> QED BY <2>1, <2>3, <2>4 DEF K!Next
<1> QED BY <1>1, <1>2, OperatorIsKeeper, PTL DEF ImplementsKeeper, K!Spec

=============================================================================
