---------------------------- MODULE ResourceSync ----------------------------
(***************************************************************************)
(* ensureSame for one object, with the watches, caches and work queue it   *)
(* lives on in full: every version of the Horreum resource and of the      *)
(* object reaches its informer one by one and in order, a watch may break  *)
(* and be replaced by a list, requests wait for their rate limit, and      *)
(* reads, writes and status updates are steps of their own.                *)
(*                                                                         *)
(* crs and objs hold the versions that matter: the first is in the cache,  *)
(* the last in the API server, those between are on their way.  Reconcile  *)
(* abstracts them to a cached and a current version of every object.       *)
(***************************************************************************)
EXTENDS Integers, SequencesExt

CONSTANTS
    Contents,  \* what the spec may ask of the object, and what it may hold
    Accepts,   \* <<w, c>> when compare takes an object with content c for w
    Absent,    \* there is no object
    Graceful,  \* the object is a pod with a termination grace period
    MaxLag,    \* bound on the versions on their way to an informer
    Bounds     \* how often each disturbance may happen

Disturbances == {"fault", "crash", "edit", "meddle"}
StatusValues == {"", "Ready", "Pending", "Error"}
Calls        == {"idle", "get", "create", "delete", "report", "finish"}

Horreum == [want : Contents, status : StatusValues]
Object  == [content : Contents, health : {"new", "ok", "bad"}, dying : BOOLEAN]

\* The local variables of a pass: what it read of the resource, the status it
\* arrived at, whether it set lastUpdate, and whether the resourceVersion it
\* read is still the current one.
Mem == [want : Contents, status : StatusValues, touched : BOOLEAN, fresh : BOOLEAN]

ASSUME AcceptsAssumption ==
    /\ Accepts \subseteq Contents \X Contents
    /\ \A c \in Contents : <<c, c>> \in Accepts
ASSUME AbsentAssumption   == Absent \notin Contents \cup Object
ASSUME GracefulAssumption == Graceful \in BOOLEAN
ASSUME MaxLagAssumption   == MaxLag \in Nat \ {0}
ASSUME BoundsAssumption   == Bounds \in [Disturbances -> Nat]

VARIABLES
    crs,      \* versions of the Horreum resource, from the cached to the current
    objs,     \* versions of the object
    queued,   \* the request is in the work queue
    delayed,  \* the request waits for its rate limit
    up,       \* the operator process runs
    pc,       \* the call the worker makes next
    mem,      \* local variables of the pass
    unsaid,   \* the last status write failed and its error was dropped
    budget    \* disturbances left

worker == <<up, pc, mem, unsaid>>
vars   == <<crs, objs, queued, delayed, up, pc, mem, unsaid, budget>>

cr  == Last(crs)    \* in the API server
obj == Last(objs)
matches(w, o) == <<w, o.content>> \in Accepts

Spend(d) == budget[d] > 0 /\ budget' = [budget EXCEPT ![d] = @ - 1]

----------------------------------------------------------------------------
(* Watches.                                                                *)

\* A version is written; nobody watches while the process is down.
Publish(versions, v) == IF up THEN Append(versions, v) ELSE <<v>>

WriteCr(v)  == (up => Len(crs) <= MaxLag) /\ crs' = Publish(crs, v)
WriteObj(o) == (up => Len(objs) <= MaxLag) /\ objs' = Publish(objs, o)

\* The next version reaches the cache, and its event the queue.
DeliverCr ==
    /\ up /\ Len(crs) > 1
    /\ crs' = Tail(crs) /\ queued' = TRUE
    /\ UNCHANGED <<objs, delayed, worker, budget>>

DeliverObj ==
    /\ up /\ Len(objs) > 1
    /\ objs' = Tail(objs) /\ queued' = TRUE
    /\ UNCHANGED <<crs, delayed, worker, budget>>

\* A broken watch starts over with a list: versions in between are never seen.
Relist ==
    /\ up /\ (Len(crs) > 2 \/ Len(objs) > 2)
    /\ crs' = <<cr>> /\ objs' = <<obj>> /\ queued' = TRUE
    /\ UNCHANGED <<delayed, worker, budget>>

\* The periodic resync delivers what the cache already holds.
Resync ==
    /\ up /\ pc = "idle" /\ ~queued
    /\ queued' = TRUE
    /\ UNCHANGED <<crs, objs, delayed, worker, budget>>

\* The rate limit of a failed request is over.
Retry ==
    /\ up /\ delayed
    /\ delayed' = FALSE /\ queued' = TRUE
    /\ UNCHANGED <<crs, objs, worker, budget>>

----------------------------------------------------------------------------
(* A pass of the worker.                                                   *)

Idle == [want |-> CHOOSE c \in Contents : TRUE, status |-> "",
         touched |-> FALSE, fresh |-> FALSE]

setStatus(m, status) ==
    IF m.status = "Error" /\ status = "Pending" THEN m
    ELSE [m EXCEPT !.status = status, !.touched = TRUE]

Call(c) == up /\ pc = c
Then(c, m) == pc' = c /\ mem' = m /\ UNCHANGED <<up, unsaid>>

\* Mutant: every pass renews lastUpdate, also when nothing is wrong.
Begin_AlwaysTouched ==
    /\ Call("idle") /\ queued
    /\ queued' = FALSE
    /\ Then("get", [want |-> Head(crs).want, status |-> "Ready",
                    touched |-> TRUE, fresh |-> Len(crs) = 1])
    /\ UNCHANGED <<crs, objs, delayed, budget>>

\* Reconcile reads the resource from the cache.  (A service without the node
\* host it needs, which ends the pass here, is in Reconcile.)
Begin ==
    /\ Call("idle") /\ queued
    /\ queued' = FALSE
    /\ Then("get", [want |-> Head(crs).want, status |-> "Ready",
                    touched |-> Head(crs).status # "Ready", fresh |-> Len(crs) = 1])
    /\ UNCHANGED <<crs, objs, delayed, budget>>

\* A read that fails, or a write that the API server refuses or that fails
\* before or after taking effect: updateStatus(Error) comes next.
Fails == Then("report", setStatus(mem, "Error"))

\* ensureSame reads the object from the cache, compares it and judges it.
Get ==
    /\ Call("get")
    /\ LET o == Head(objs) IN
       \/ o = Absent /\ Then("create", mem) /\ UNCHANGED budget
       \/ o # Absent /\ ~matches(mem.want, o) /\ Then("delete", mem) /\ UNCHANGED budget
       \/ /\ o # Absent /\ matches(mem.want, o)
          /\ Then("finish", IF o.health = "ok" THEN mem
                            ELSE setStatus(mem, IF o.health = "bad" THEN "Error"
                                                ELSE "Pending"))
          /\ UNCHANGED budget
       \/ Fails /\ Spend("fault")
    /\ UNCHANGED <<crs, objs, queued, delayed>>

Create ==
    /\ Call("create")
    /\ LET new == [content |-> mem.want, health |-> "new", dying |-> FALSE] IN
       \/ /\ obj = Absent /\ WriteObj(new)
          /\ Then("finish", setStatus(mem, "Pending")) /\ UNCHANGED budget
       \/ /\ obj = Absent /\ WriteObj(new) /\ Fails /\ Spend("fault")
       \/ /\ Fails /\ UNCHANGED objs
          /\ \/ obj # Absent /\ UNCHANGED budget
             \/ obj = Absent /\ Spend("fault")
    /\ UNCHANGED <<crs, queued, delayed>>

\* Delete: the object goes at once, or it is marked until its grace period
\* ends; deleting it again changes nothing.
RemoveObject ==
    \/ ~obj.dying /\ WriteObj(Absent)
    \/ ~obj.dying /\ Graceful /\ WriteObj([obj EXCEPT !.dying = TRUE])
    \/ obj.dying /\ UNCHANGED objs

\* ensureSame goes on to the creation at once, in the same pass.
Delete ==
    /\ Call("delete")
    /\ \/ obj # Absent /\ RemoveObject /\ Then("create", mem) /\ UNCHANGED budget
       \/ obj # Absent /\ RemoveObject /\ Fails /\ Spend("fault")
       \/ /\ Fails /\ UNCHANGED objs
          /\ \/ obj = Absent /\ UNCHANGED budget
             \/ obj # Absent /\ Spend("fault")
    /\ UNCHANGED <<crs, queued, delayed>>

\* The status update that ends a pass: applied; rejected, for the resource has
\* changed since it was read; or failed.  Its error is dropped.  When it only
\* renews lastUpdate within the same second it changes nothing.
WriteStatus ==
    LET new == [cr EXCEPT !.status = mem.status] IN
    \/ /\ mem.fresh /\ (new # cr \/ mem.touched)
       /\ WriteCr(new) /\ unsaid' = FALSE /\ UNCHANGED budget
    \/ /\ mem.fresh => new = cr
       /\ UNCHANGED <<crs, budget>> /\ unsaid' = FALSE
    \/ /\ UNCHANGED crs /\ unsaid' = TRUE /\ Spend("fault")

\* Mutants: what a pass found out survives it; its end drops the events that
\* came during it.
EndPass_MemKept == pc' = "idle" /\ UNCHANGED <<mem, up, objs, queued>>
EndPass_EventsDropped ==
    pc' = "idle" /\ mem' = Idle /\ queued' = FALSE /\ UNCHANGED <<up, objs>>

EndPass == pc' = "idle" /\ mem' = Idle /\ UNCHANGED <<up, objs, queued>>

\* The end of a pass that failed: the request comes back after its rate limit.
Report == Call("report") /\ WriteStatus /\ EndPass /\ delayed' = TRUE

\* Mutant: only a status that differs from Ready is written.
Finish_ReadyUnsaid ==
    /\ Call("finish")
    /\ IF mem.status = "Ready" THEN UNCHANGED <<crs, unsaid, budget>> ELSE WriteStatus
    /\ EndPass /\ UNCHANGED delayed

Finish == Call("finish") /\ WriteStatus /\ EndPass /\ UNCHANGED delayed

Crash ==
    /\ up /\ Spend("crash")
    /\ up' = FALSE /\ pc' = "idle" /\ mem' = Idle
    /\ queued' = FALSE /\ delayed' = FALSE
    /\ UNCHANGED <<crs, objs, unsaid>>

\* Caches are filled from lists, every resource is queued.
Restart ==
    /\ ~up
    /\ up' = TRUE /\ queued' = TRUE
    /\ crs' = <<cr>> /\ objs' = <<obj>>
    /\ UNCHANGED <<delayed, pc, mem, unsaid, budget>>

Operator == Begin \/ Get \/ Create \/ Delete \/ Report \/ Finish \/ Restart

----------------------------------------------------------------------------
(* The rest of the cluster.                                                *)

Others == UNCHANGED <<queued, delayed, up, pc, unsaid>>

BecomeOk ==
    /\ obj # Absent
    /\ obj.health # "ok" /\ ~obj.dying
    /\ WriteObj([obj EXCEPT !.health = "ok"])
    /\ Others /\ UNCHANGED <<crs, mem, budget>>

\* A container restarts or its image cannot be pulled, a route is rejected.
BecomeBad ==
    /\ obj # Absent
    /\ obj.health # "bad" /\ WriteObj([obj EXCEPT !.health = "bad"])
    /\ Others /\ UNCHANGED <<crs, mem>>
    /\ Spend("meddle")

Terminate ==
    /\ obj # Absent
    /\ obj.dying /\ WriteObj(Absent)
    /\ Others /\ UNCHANGED <<crs, mem, budget>>

\* Somebody deletes the object, or changes it in place.
Meddle ==
    /\ obj # Absent
    /\ \/ ~obj.dying /\ RemoveObject
       \/ \E c \in Contents \ {obj.content} : WriteObj([obj EXCEPT !.content = c])
    /\ Others /\ UNCHANGED <<crs, mem>>
    /\ Spend("meddle")

EditSpec ==
    /\ \E c \in Contents \ {cr.want} : WriteCr([cr EXCEPT !.want = c])
    /\ mem' = [mem EXCEPT !.fresh = FALSE]
    /\ Others /\ UNCHANGED objs
    /\ Spend("edit")

Init ==
    /\ crs \in {<<[want |-> w, status |-> ""]>> : w \in Contents}
    /\ objs = <<Absent>>
    /\ queued = TRUE /\ delayed = FALSE /\ up = TRUE
    /\ pc = "idle" /\ mem = Idle /\ unsaid = FALSE
    /\ budget = Bounds

Informers == DeliverCr \/ DeliverObj \/ Relist \/ Resync \/ Retry
Cluster   == BecomeOk \/ Terminate
Trouble   == BecomeBad \/ Meddle \/ EditSpec \/ Crash

Next == Operator \/ Informers \/ Cluster \/ Trouble

Spec == Init /\ [][Next]_vars

\* The worker and the restart run, watches deliver, rate limits end, kubelets
\* work.  Disturbances, broken watches and faults need not happen.
Fairness ==
    /\ WF_vars(Operator)
    /\ WF_vars(DeliverCr) /\ WF_vars(DeliverObj) /\ WF_vars(Retry) /\ WF_vars(Resync)
    /\ WF_vars(BecomeOk) /\ WF_vars(Terminate)

FairSpec == Spec /\ Fairness

----------------------------------------------------------------------------
(* Properties.                                                             *)

\* Every variable has its type, the cache always holds a version, the lag is
\* bounded, and no pass leaves anything behind (Reconcile has no state).
TypeOK ==
    /\ crs \in Seq(Horreum) \ {<<>>} /\ objs \in Seq(Object \cup {Absent}) \ {<<>>}
    /\ Len(crs) <= MaxLag + 1 /\ Len(objs) <= MaxLag + 1
    /\ queued \in BOOLEAN /\ delayed \in BOOLEAN /\ up \in BOOLEAN
    /\ pc \in Calls /\ mem \in Mem /\ unsaid \in BOOLEAN
    /\ pc = "idle" => mem = Idle
    /\ budget \in [Disturbances -> Nat]

\* Nothing runs, nothing is queued, nothing is on its way to a cache.
Quiet ==
    /\ up /\ pc = "idle" /\ ~queued /\ ~delayed
    /\ Len(crs) = 1 /\ Len(objs) = 1

\* The abstract promise: what is wanted, what there is, and whether the worker
\* has something to do or to hear of.  The end of a termination is owed too.
F == INSTANCE Follower WITH
        want  <- cr.want,
        have  <- IF obj = Absent THEN Absent ELSE obj.content,
        owed  <- ~Quiet \/ (IF obj = Absent THEN FALSE ELSE obj.dying),
        hands <- budget["meddle"]

\* ensureSame with its queue and watches implements the promise of Follower:
\* nothing is owed only while the object suits the spec, and the operator
\* touches the object only while it owes, whatever versions its caches hold,
\* whichever call fails, and wherever the process is killed.
Follows == F!Spec

\* It also comes to rest again and again: passes that chase their own status
\* writes, refused creations and retries end (setStatus, updateStatus).
Served == F!Served

\* At rest the status is the health of the object, unless the last status
\* write failed, whose error Reconcile drops; a status rejected because the
\* resource changed is always made up for.
QuietStatus ==
    Quiet /\ ~unsaid =>
        cr.status = CASE obj.health = "ok"  -> "Ready"
                      [] obj.health = "new" -> "Pending"
                      [] obj.health = "bad" -> "Error"

=============================================================================
