------------------------- MODULE ResourceSyncProofs -------------------------
(***************************************************************************)
(* Proofs about ResourceSync for all contents, every comparison of them,   *)
(* any number of versions on their way, any bounds on the disturbances,    *)
(* and objects with and without a grace period.                            *)
(***************************************************************************)
EXTENDS ResourceSync, SequenceTheorems, TLAPS

----------------------------------------------------------------------------
(* Versions.                                                               *)

\* What holds of the versions of an object with values in S.
Versions(S) == Seq(S) \ {<<>>}

\* The current version is one of them; when it is the only one, it is cached.
LEMMA Current ==
    ASSUME NEW S, NEW s \in Versions(S)
    PROVE  /\ Last(s) \in S /\ Head(s) \in S /\ Len(s) \in Nat /\ Len(s) >= 1
           /\ Len(s) = 1 => Head(s) = Last(s)
BY DEF Versions, Last

\* A watch delivers a version.
LEMMA Delivered ==
    ASSUME NEW S, NEW s \in Versions(S), Len(s) > 1
    PROVE  /\ Tail(s) \in Versions(S) /\ Last(Tail(s)) = Last(s)
           /\ Len(Tail(s)) = Len(s) - 1
<1>1. /\ s \in Seq(S) /\ s # <<>> /\ Tail(s) \in Seq(S)
      /\ Len(Tail(s)) = Len(s) - 1 /\ Len(s) \in Nat
  BY HeadTailProperties, LenProperties DEF Versions
<1>2. \A i \in 1..Len(Tail(s)) : Tail(s)[i] = s[i + 1]
  BY <1>1, HeadTailProperties
<1>3. Last(Tail(s)) = Last(s)
  BY <1>1, <1>2 DEF Last
<1>4. Tail(s) # <<>>
  <2>1. Len(Tail(s)) # 0
    BY <1>1
  <2>2. Len(<<>>) = 0
    OBVIOUS
  <2> QED BY <2>1, <2>2, Zenon
<1> QED BY <1>1, <1>3, <1>4 DEF Versions

\* A list delivers the current version only.
LEMMA Listed ==
    ASSUME NEW S, NEW v \in S
    PROVE  <<v>> \in Versions(S) /\ Last(<<v>>) = v /\ Len(<<v>>) = 1
BY DEF Versions, Last

\* A version is written.
LEMMA Published ==
    ASSUME NEW S, NEW s \in Versions(S), NEW v \in S
    PROVE  /\ Publish(s, v) \in Versions(S) /\ Last(Publish(s, v)) = v
           /\ up => Len(Publish(s, v)) = Len(s) + 1
           /\ ~up => Len(Publish(s, v)) = 1
<1>1. /\ Append(s, v) \in Versions(S) /\ Last(Append(s, v)) = v
      /\ Len(Append(s, v)) = Len(s) + 1
  BY DEF Versions, Last
<1> QED BY <1>1, Listed DEF Publish

----------------------------------------------------------------------------
(* The inductive invariant.                                                *)

StatusOf(health) == CASE health = "ok"  -> "Ready"
                      [] health = "new" -> "Pending"
                      [] health = "bad" -> "Error"

\* What a pass knows, as long as no news have come: the spec is still what it
\* read, so that its status write is not rejected, and what it said of the
\* object still holds.
Careful ==
    /\ pc # "idle" => up
    /\ pc # "idle" /\ ~queued /\ Len(crs) = 1 => mem.want = cr.want /\ mem.fresh
    /\ pc = "get" => mem.status = "Ready"
    /\ pc = "finish" /\ ~queued /\ Len(objs) = 1 =>
         /\ obj # Absent /\ matches(mem.want, obj)
         /\ mem.status = StatusOf(obj.health)

\* At rest the object is there, suits the spec, and is reported on.
Rested ==
    Quiet => /\ obj # Absent /\ matches(cr.want, obj)
             /\ ~unsaid => cr.status = StatusOf(obj.health)

IInv == TypeOK /\ Careful /\ Rested

----------------------------------------------------------------------------
(* Types.                                                                  *)

\* A pass in idle is one.
LEMMA IdleType == ASSUME TypeOK PROVE Idle \in Mem
<1>1. cr \in Horreum
  BY Current DEF TypeOK, Versions, cr
<1>2. Contents # {}
  BY <1>1 DEF Horreum
<1>3. (CHOOSE c \in Contents : TRUE) \in Contents
  BY <1>2
<1> QED BY <1>3 DEF Idle, Mem, StatusValues

\* The versions the API server and the caches hold.
LEMMA VersionTypes ==
    ASSUME TypeOK
    PROVE  /\ crs \in Versions(Horreum) /\ objs \in Versions(Object \cup {Absent})
           /\ cr \in Horreum /\ Head(crs) \in Horreum
           /\ obj \in Object \cup {Absent} /\ Head(objs) \in Object \cup {Absent}
           /\ Len(crs) \in Nat /\ Len(objs) \in Nat /\ Len(crs) >= 1 /\ Len(objs) >= 1
           /\ Len(crs) = 1 => Head(crs) = cr
           /\ Len(objs) = 1 => Head(objs) = obj
<1>1. crs \in Versions(Horreum) /\ objs \in Versions(Object \cup {Absent})
  BY DEF TypeOK, Versions
<1> QED BY <1>1, Current DEF cr, obj

\* A write of the resource keeps the types; it is news to a running operator.
LEMMA WritesCr ==
    ASSUME TypeOK, NEW v \in Horreum, WriteCr(v)
    PROVE  /\ crs' \in Versions(Horreum) /\ Len(crs') <= MaxLag + 1 /\ cr' = v
           /\ up => Len(crs') # 1
<1>1. /\ crs' \in Versions(Horreum) /\ cr' = v
      /\ up => Len(crs') = Len(crs) + 1
      /\ ~up => Len(crs') = 1
  BY VersionTypes, Published DEF WriteCr, cr
<1>2. /\ up => Len(crs) <= MaxLag
      /\ Len(crs) \in Nat /\ Len(crs) >= 1 /\ MaxLag \in Nat
  BY VersionTypes, MaxLagAssumption DEF WriteCr
<1>3. CASE up
  BY <1>1, <1>2, <1>3
<1>4. CASE ~up
  BY <1>1, <1>2, <1>4
<1> QED BY <1>3, <1>4

\* The same of the object.
LEMMA WritesObj ==
    ASSUME TypeOK, NEW v \in Object \cup {Absent}, WriteObj(v)
    PROVE  /\ objs' \in Versions(Object \cup {Absent}) /\ Len(objs') <= MaxLag + 1
           /\ obj' = v
           /\ up => Len(objs') # 1
<1>1. /\ objs' \in Versions(Object \cup {Absent}) /\ obj' = v
      /\ up => Len(objs') = Len(objs) + 1
      /\ ~up => Len(objs') = 1
  BY VersionTypes, Published DEF WriteObj, obj
<1>2. /\ up => Len(objs) <= MaxLag
      /\ Len(objs) \in Nat /\ Len(objs) >= 1 /\ MaxLag \in Nat
  BY VersionTypes, MaxLagAssumption DEF WriteObj
<1>3. CASE up
  BY <1>1, <1>2, <1>3
<1>4. CASE ~up
  BY <1>1, <1>2, <1>4
<1> QED BY <1>3, <1>4

\* A disturbance leaves a budget, and spends of one kind only.
LEMMA SpendType ==
    ASSUME budget \in [Disturbances -> Nat], NEW d \in Disturbances, Spend(d)
    PROVE  /\ budget' \in [Disturbances -> Nat]
           /\ budget[d] > 0 /\ budget'[d] = budget[d] - 1
           /\ \A e \in Disturbances \ {d} : budget'[e] = budget[e]
BY DEF Spend

----------------------------------------------------------------------------
(* The steps. All but the last of a pass leave something to do.            *)

Kept == TypeOK' /\ Careful' /\ ~Quiet'

\* Informers queue what they deliver.
LEMMA InformersStep == ASSUME IInv, Informers PROVE Kept
<1>1. crs \in Versions(Horreum) /\ objs \in Versions(Object \cup {Absent})
  BY VersionTypes DEF IInv
<1> USE DEF IInv, Kept, Quiet, Careful, TypeOK, worker
<1>2. CASE DeliverCr
  <2>1. crs' \in Versions(Horreum) /\ Len(crs') = Len(crs) - 1 /\ Len(crs) \in Nat
    BY <1>1, <1>2, Delivered, Current DEF DeliverCr
  <2>2. Len(crs') <= MaxLag + 1
    BY <2>1, MaxLagAssumption
  <2> QED BY <1>2, <2>1, <2>2 DEF DeliverCr, Versions, cr, obj
<1>3. CASE DeliverObj
  <2>1. objs' \in Versions(Object \cup {Absent}) /\ Len(objs') = Len(objs) - 1
        /\ Len(objs) \in Nat
    BY <1>1, <1>3, Delivered, Current DEF DeliverObj
  <2>2. Len(objs') <= MaxLag + 1
    BY <2>1, MaxLagAssumption
  <2> QED BY <1>3, <2>1, <2>2 DEF DeliverObj, Versions, cr, obj
<1>4. CASE Relist
  <2>1. /\ crs' \in Versions(Horreum) /\ Len(crs') = 1
        /\ objs' \in Versions(Object \cup {Absent}) /\ Len(objs') = 1
    BY <1>4, VersionTypes, Listed DEF Relist
  <2>2. 1 <= MaxLag + 1
    BY MaxLagAssumption
  <2> QED BY <1>4, <2>1, <2>2 DEF Relist, Versions, cr, obj
<1>5. CASE Resync
  BY <1>5 DEF Resync, cr, obj
<1>6. CASE Retry
  BY <1>6 DEF Retry, cr, obj
<1> QED BY <1>2, <1>3, <1>4, <1>5, <1>6 DEF Informers

\* A pass reads the resource.
LEMMA BeginStep == ASSUME IInv, Begin PROVE Kept
<1>1. /\ Head(crs) \in Horreum /\ (Len(crs) = 1 => Head(crs) = cr)
  BY VersionTypes DEF IInv
<1>2. mem' \in Mem
  BY <1>1 DEF Begin, Then, Mem, Horreum, StatusValues
<1>3. /\ pc' = "get" /\ up' = up /\ up /\ mem'.status = "Ready"
      /\ mem'.want = Head(crs).want /\ mem'.fresh = (Len(crs) = 1)
      /\ UNCHANGED <<crs, objs, delayed, budget, unsaid>> /\ queued' = FALSE
  BY DEF Begin, Then, Call
<1>4. TypeOK'
  BY <1>2, <1>3 DEF IInv, TypeOK, Calls
<1>5. Careful'
  BY <1>1, <1>3 DEF Careful, cr
<1>6. ~Quiet'
  BY <1>3 DEF Quiet
<1> QED BY <1>4, <1>5, <1>6 DEF Kept

\* What a pass makes of its status.
LEMMA StatusType ==
    ASSUME NEW m \in Mem, NEW s \in StatusValues
    PROVE  /\ setStatus(m, s) \in Mem /\ setStatus(m, s).want = m.want
           /\ setStatus(m, s).fresh = m.fresh
           /\ m.status = "Ready" => setStatus(m, s).status = s
BY DEF setStatus, Mem, StatusValues

\* ensureSame reads the object.
LEMMA GetStep == ASSUME IInv, Get PROVE Kept
<1>1. /\ pc = "get" /\ up /\ UNCHANGED <<crs, objs, queued, delayed, up, unsaid>>
      /\ mem \in Mem /\ mem.status = "Ready"
      /\ budget' \in [Disturbances -> Nat]
  BY SpendType DEF Get, Call, Then, Fails, IInv, TypeOK, Careful, Disturbances
<1>2. /\ Head(objs) \in Object \cup {Absent} /\ (Len(objs) = 1 => Head(objs) = obj)
  BY VersionTypes DEF IInv
<1>3. /\ pc' \in {"create", "delete", "report", "finish"} /\ mem' \in Mem
      /\ mem'.want = mem.want /\ mem'.fresh = mem.fresh
      /\ pc' = "finish" =>
           /\ Head(objs) # Absent /\ matches(mem.want, Head(objs))
           /\ mem'.status = StatusOf(Head(objs).health)
  <2>1. CASE Head(objs) = Absent /\ Then("create", mem)
    BY <1>1, <2>1 DEF Then
  <2>2. CASE Then("delete", mem)
    BY <1>1, <2>2 DEF Then
  <2>3. CASE /\ Head(objs) # Absent /\ matches(mem.want, Head(objs))
             /\ Then("finish", IF Head(objs).health = "ok" THEN mem
                               ELSE setStatus(mem, IF Head(objs).health = "bad"
                                                   THEN "Error" ELSE "Pending"))
    <3>1. Head(objs).health \in {"new", "ok", "bad"}
      BY <1>2, <2>3 DEF Object
    <3>2. \A s \in {"Error", "Pending"} :
            /\ setStatus(mem, s) \in Mem /\ setStatus(mem, s).want = mem.want
            /\ setStatus(mem, s).fresh = mem.fresh /\ setStatus(mem, s).status = s
      <4> TAKE s \in {"Error", "Pending"}
      <4>1. s \in StatusValues
        BY DEF StatusValues
      <4> QED BY <1>1, <4>1, StatusType
    <3> QED BY <1>1, <2>3, <3>1, <3>2 DEF Then, StatusOf
  <2>4. CASE Fails
    BY <1>1, <2>4, StatusType DEF Fails, Then, StatusValues
  <2> QED BY <2>1, <2>2, <2>3, <2>4 DEF Get
<1>4. TypeOK'
  BY <1>1, <1>3 DEF IInv, TypeOK, Calls
<1>5. Careful'
  BY <1>1, <1>2, <1>3 DEF IInv, Careful, cr, obj, matches
<1>6. ~Quiet'
  BY <1>3 DEF Quiet
<1> QED BY <1>4, <1>5, <1>6 DEF Kept

\* What a pass that leaves the resource alone, and goes on, must show.
LEMMA PassGoesOn ==
    ASSUME IInv, up, pc # "idle", UNCHANGED <<crs, queued, delayed, up, unsaid>>,
           pc' \in Calls \ {"idle", "get"}, mem' \in Mem,
           mem'.want = mem.want, mem'.fresh = mem.fresh,
           budget' \in [Disturbances -> Nat],
           objs' \in Versions(Object \cup {Absent}), Len(objs') <= MaxLag + 1,
           pc' = "finish" => Len(objs') # 1
    PROVE  Kept
<1>1. TypeOK'
  BY DEF IInv, TypeOK, Versions
<1>2. Careful'
  <2>1. cr' = cr /\ Len(crs') = Len(crs) /\ queued' = queued /\ up'
    BY DEF cr
  <2>2. pc # "idle" /\ ~queued /\ Len(crs) = 1 => mem.want = cr.want /\ mem.fresh
    BY DEF IInv, Careful
  <2>3. pc' # "get" /\ ~(pc' = "finish" /\ Len(objs') = 1)
    OBVIOUS
  <2>4. ~queued' /\ Len(crs') = 1 => (mem.want = cr.want /\ mem.fresh)'
    <3>1. CASE queued
      BY <2>1, <3>1
    <3>2. CASE ~queued
      BY <2>1, <2>2, <3>2
    <3> QED BY <3>1, <3>2
  <2> QED BY <2>1, <2>3, <2>4 DEF Careful
<1>3. ~Quiet'
  BY DEF Quiet
<1> QED BY <1>1, <1>2, <1>3 DEF Kept

\* What a refused or failed write leaves of the pass.
LEMMA FailsType ==
    ASSUME IInv, Fails
    PROVE  /\ pc' = "report" /\ UNCHANGED <<up, unsaid>>
           /\ mem' \in Mem /\ mem'.want = mem.want /\ mem'.fresh = mem.fresh
<1>1. mem \in Mem /\ "Error" \in StatusValues
  BY DEF IInv, TypeOK, StatusValues
<1> QED BY <1>1, StatusType DEF Fails, Then

\* Creating the object, with or without success.
LEMMA CreateStep == ASSUME IInv, Create PROVE Kept
<1> DEFINE new == [content |-> mem.want, health |-> "new", dying |-> FALSE]
<1>1. /\ pc = "create" /\ up /\ UNCHANGED <<crs, queued, delayed>>
      /\ mem \in Mem /\ budget \in [Disturbances -> Nat]
      /\ objs \in Versions(Object \cup {Absent}) /\ Len(objs) <= MaxLag + 1
  BY DEF Create, Call, IInv, TypeOK, Versions
<1>2. new \in Object \cup {Absent}
  BY <1>1 DEF Object, Mem
<1>3. ASSUME WriteObj(new)
      PROVE  /\ objs' \in Versions(Object \cup {Absent})
             /\ Len(objs') <= MaxLag + 1 /\ Len(objs') # 1
  BY <1>1, <1>2, <1>3, WritesObj DEF IInv
<1>4. CASE /\ WriteObj(new) /\ Then("finish", setStatus(mem, "Pending"))
           /\ UNCHANGED budget
  <2>1. /\ pc' = "finish" /\ UNCHANGED <<up, unsaid>>
        /\ mem' \in Mem /\ mem'.want = mem.want /\ mem'.fresh = mem.fresh
    <3>1. "Pending" \in StatusValues
      BY DEF StatusValues
    <3> QED BY <1>1, <1>4, <3>1, StatusType DEF Then
  <2> QED BY <1>1, <1>3, <1>4, <2>1, PassGoesOn DEF Calls
<1>5. CASE WriteObj(new) /\ Fails /\ Spend("fault")
  <2>1. budget' \in [Disturbances -> Nat]
    BY <1>1, <1>5, SpendType DEF Disturbances
  <2> QED BY <1>1, <1>3, <1>5, <2>1, FailsType, PassGoesOn DEF Calls
<1>6. CASE Fails /\ UNCHANGED objs /\ (UNCHANGED budget \/ Spend("fault"))
  <2>1. budget' \in [Disturbances -> Nat]
    BY <1>1, <1>6, SpendType DEF Disturbances
  <2>2. objs' = objs
    BY <1>6
  <2> QED BY <1>1, <1>6, <2>1, <2>2, FailsType, PassGoesOn DEF Calls
<1> QED BY <1>4, <1>5, <1>6 DEF Create

\* What removing the object writes.
LEMMA Removes ==
    ASSUME TypeOK, obj # Absent, RemoveObject
    PROVE  /\ objs' \in Versions(Object \cup {Absent}) /\ Len(objs') <= MaxLag + 1
           /\ \/ obj' = Absent
              \/ obj' # Absent /\ obj'.content = obj.content
           /\ ~obj.dying /\ up => Len(objs') # 1
<1>1. obj \in Object
  BY VersionTypes
<1>2. [obj EXCEPT !.dying = TRUE] \in Object
  BY <1>1 DEF Object
<1>3. CASE WriteObj(Absent)
  BY <1>3, WritesObj
<1>4. CASE WriteObj([obj EXCEPT !.dying = TRUE])
  <2>1. obj' = [obj EXCEPT !.dying = TRUE]
    BY <1>2, <1>4, WritesObj
  <2>2. obj' # Absent
    BY <1>2, <2>1, AbsentAssumption
  <2>3. obj'.content = obj.content
    BY <1>1, <2>1 DEF Object
  <2> QED BY <1>2, <1>4, <2>2, <2>3, WritesObj
<1>5. CASE obj.dying /\ UNCHANGED objs
  BY <1>5, VersionTypes DEF TypeOK, Versions, obj
<1> QED BY <1>3, <1>4, <1>5 DEF RemoveObject

\* Deleting the object, with or without success.
LEMMA DeleteStep == ASSUME IInv, Delete PROVE Kept
<1>1. /\ pc = "delete" /\ up /\ UNCHANGED <<crs, queued, delayed>>
      /\ mem \in Mem /\ budget \in [Disturbances -> Nat]
  BY DEF Delete, Call, IInv, TypeOK
<1>2. objs' \in Versions(Object \cup {Absent}) /\ Len(objs') <= MaxLag + 1
  <2>1. CASE obj # Absent /\ RemoveObject
    BY <2>1, Removes DEF IInv
  <2>2. CASE UNCHANGED objs
    BY <2>2 DEF IInv, TypeOK, Versions
  <2> QED BY <2>1, <2>2 DEF Delete
<1>3. /\ pc' \in {"create", "report"} /\ UNCHANGED <<up, unsaid>>
      /\ mem' \in Mem /\ mem'.want = mem.want /\ mem'.fresh = mem.fresh
      /\ budget' \in [Disturbances -> Nat]
  <2>1. CASE Then("create", mem) /\ UNCHANGED budget
    BY <1>1, <2>1 DEF Then
  <2>2. CASE Fails /\ (UNCHANGED budget \/ Spend("fault"))
    <3>1. budget' \in [Disturbances -> Nat]
      BY <1>1, <2>2, SpendType DEF Disturbances
    <3> QED BY <2>2, <3>1, FailsType
  <2> QED BY <2>1, <2>2 DEF Delete
<1> QED BY <1>1, <1>2, <1>3, PassGoesOn DEF Calls

\* The status update that ends a pass: it changes the status only, which then
\* is news; when it is neither news nor unsaid, the status was right already.
LEMMA StatusWritten ==
    ASSUME IInv, up, WriteStatus
    PROVE  /\ crs' \in Versions(Horreum) /\ Len(crs') <= MaxLag + 1
           /\ cr'.want = cr.want
           /\ unsaid' \in BOOLEAN /\ budget' \in [Disturbances -> Nat]
           /\ budget'["meddle"] = budget["meddle"]
           /\ Len(crs') # 1 \/ crs' = crs
           /\ mem.fresh /\ ~unsaid' /\ crs' = crs => Len(crs') # 1 \/ cr.status = mem.status
<1> DEFINE new == [cr EXCEPT !.status = mem.status]
<1>1. /\ cr \in Horreum /\ mem \in Mem /\ TypeOK
      /\ crs \in Versions(Horreum) /\ Len(crs) <= MaxLag + 1
      /\ budget \in [Disturbances -> Nat]
  BY VersionTypes DEF IInv, TypeOK
<1>2. new \in Horreum /\ new.want = cr.want /\ new.status = mem.status
  BY <1>1 DEF Horreum, Mem
<1>3. CASE /\ WriteCr(new) /\ unsaid' = FALSE /\ UNCHANGED budget
  <2>1. /\ crs' \in Versions(Horreum) /\ Len(crs') <= MaxLag + 1 /\ cr' = new
        /\ Len(crs') # 1
    BY <1>1, <1>2, <1>3, WritesCr
  <2> QED BY <1>1, <1>2, <1>3, <2>1
<1>4. CASE /\ mem.fresh => new = cr
           /\ UNCHANGED <<crs, budget>> /\ unsaid' = FALSE
  <2>1. cr' = cr
    BY <1>4 DEF cr
  <2>2. mem.fresh => cr.status = mem.status
    BY <1>2, <1>4
  <2> QED BY <1>1, <1>4, <2>1, <2>2
<1>5. CASE UNCHANGED crs /\ unsaid' = TRUE /\ Spend("fault")
  <2>1. cr' = cr
    BY <1>5 DEF cr
  <2>2. /\ budget' \in [Disturbances -> Nat]
        /\ budget'["meddle"] = budget["meddle"]
    BY <1>1, <1>5, SpendType DEF Disturbances
  <2> QED BY <1>1, <1>5, <2>1, <2>2
<1> QED BY <1>3, <1>4, <1>5 DEF WriteStatus

\* The end of a pass forgets it.
LEMMA PassEnds ==
    ASSUME IInv, up, WriteStatus, EndPass, delayed' \in BOOLEAN
    PROVE  TypeOK' /\ Careful'
<1>1. /\ pc' = "idle" /\ mem' = Idle /\ UNCHANGED <<up, objs, queued>>
  BY DEF EndPass
<1>2. Idle \in Mem
  BY IdleType DEF IInv
<1>3. TypeOK'
  BY <1>1, <1>2, StatusWritten DEF IInv, TypeOK, Versions, Calls
<1>4. Careful'
  BY <1>1 DEF Careful
<1> QED BY <1>3, <1>4

\* A failed pass waits for its rate limit.
LEMMA ReportStep == ASSUME IInv, Report PROVE Kept
<1>1. up /\ WriteStatus /\ EndPass /\ delayed' = TRUE
  BY DEF Report, Call
<1>2. TypeOK' /\ Careful'
  BY <1>1, PassEnds
<1> QED BY <1>1, <1>2 DEF Kept, Quiet

\* A pass that went well may be the last: all is well then.
LEMMA FinishStep ==
    ASSUME IInv, Finish
    PROVE  IInv' /\ cr'.want = cr.want /\ obj' = obj /\ budget'["meddle"] = budget["meddle"]
<1>1. /\ up /\ pc = "finish" /\ WriteStatus /\ EndPass /\ UNCHANGED delayed
      /\ UNCHANGED <<queued, objs>>
  BY DEF Finish, Call, EndPass
<1>2. TypeOK' /\ Careful'
  BY <1>1, PassEnds DEF IInv, TypeOK
<1>3. obj' = obj
  BY <1>1 DEF obj
<1>4. Rested'
  <2> SUFFICES ASSUME Quiet'
               PROVE  /\ obj # Absent /\ <<cr.want, obj.content>> \in Accepts
                      /\ ~unsaid' => cr'.status = StatusOf(obj.health)
    BY <1>1, <1>3, StatusWritten DEF Rested, matches
  <2>1. ~queued /\ Len(crs') = 1 /\ Len(objs) = 1
    BY <1>1 DEF Quiet
  <2>2. crs' = crs /\ cr' = cr
    BY <1>1, <2>1, StatusWritten DEF cr
  <2>3. /\ mem.want = cr.want /\ mem.fresh
        /\ obj # Absent /\ matches(mem.want, obj)
        /\ mem.status = StatusOf(obj.health)
    BY <1>1, <2>1, <2>2 DEF IInv, Careful
  <2>4. ~unsaid' => cr.status = mem.status
    BY <1>1, <2>1, <2>2, <2>3, StatusWritten
  <2> QED BY <2>2, <2>3, <2>4 DEF matches
<1> QED BY <1>1, <1>2, <1>3, <1>4, StatusWritten DEF IInv

\* The process is killed: a restart is owed.
LEMMA CrashStep == ASSUME IInv, Crash PROVE Kept
<1>1. /\ up' = FALSE /\ pc' = "idle" /\ mem' = Idle
      /\ queued' = FALSE /\ delayed' = FALSE /\ UNCHANGED <<crs, objs, unsaid>>
  BY DEF Crash
<1>2. Idle \in Mem
  BY IdleType DEF IInv
<1>3. budget' \in [Disturbances -> Nat]
  BY SpendType DEF Crash, IInv, TypeOK, Disturbances
<1>4. TypeOK'
  BY <1>1, <1>2, <1>3 DEF IInv, TypeOK, Calls
<1> QED BY <1>1, <1>4 DEF Kept, Careful, Quiet

\* It starts again, with lists in its caches and every resource queued.
LEMMA RestartStep == ASSUME IInv, Restart PROVE Kept
<1>1. /\ ~up /\ up' = TRUE /\ queued' = TRUE
      /\ UNCHANGED <<delayed, pc, mem, unsaid, budget>>
  BY DEF Restart
<1>2. pc = "idle"
  BY <1>1 DEF IInv, Careful
<1>3. /\ crs' \in Versions(Horreum) /\ Len(crs') = 1
      /\ objs' \in Versions(Object \cup {Absent}) /\ Len(objs') = 1
  BY VersionTypes, Listed DEF Restart, IInv
<1>4. 1 <= MaxLag + 1
  BY MaxLagAssumption
<1>5. TypeOK'
  BY <1>1, <1>3, <1>4 DEF IInv, TypeOK, Versions
<1> QED BY <1>1, <1>2, <1>5 DEF Kept, Careful, Quiet

\* A change of the object by others is news, or meets no operator.
LEMMA ObjectChanges ==
    ASSUME IInv, Others, UNCHANGED <<crs, mem>>,
           budget' \in [Disturbances -> Nat],
           objs' \in Versions(Object \cup {Absent}), Len(objs') <= MaxLag + 1,
           up => Len(objs') # 1
    PROVE  Kept
<1>1. TypeOK'
  BY DEF IInv, TypeOK, Versions, Others
<1>2. ~(up' /\ Len(objs') = 1)
  BY DEF Others
<1>3. Careful'
  <2>1. /\ cr' = cr /\ Len(crs') = Len(crs) /\ queued' = queued
        /\ up' = up /\ pc' = pc /\ mem' = mem
    BY DEF Others, cr
  <2>2. /\ pc # "idle" => up
        /\ pc # "idle" /\ ~queued /\ Len(crs) = 1 => mem.want = cr.want /\ mem.fresh
        /\ pc = "get" => mem.status = "Ready"
    BY DEF IInv, Careful
  <2>3. ~(pc' = "finish" /\ Len(objs') = 1)
    BY <1>2, <2>1, <2>2, Zenon
  <2> QED BY <2>1, <2>2, <2>3 DEF Careful
<1>4. ~Quiet'
  BY <1>2 DEF Quiet
<1> QED BY <1>1, <1>3, <1>4 DEF Kept

\* The health of the object changes.
LEMMA HealthChanges ==
    ASSUME IInv, Others, UNCHANGED <<crs, mem>>, budget' \in [Disturbances -> Nat],
           obj # Absent, NEW h \in {"new", "ok", "bad"},
           WriteObj([obj EXCEPT !.health = h])
    PROVE  Kept /\ obj' # Absent /\ obj'.content = obj.content
<1>1. obj \in Object
  BY VersionTypes DEF IInv
<1>2. [obj EXCEPT !.health = h] \in Object
  BY <1>1 DEF Object
<1>3. obj' = [obj EXCEPT !.health = h]
  BY <1>2, WritesObj DEF IInv
<1>4. obj' # Absent
  BY <1>2, <1>3, AbsentAssumption
<1>5. obj'.content = obj.content
  BY <1>1, <1>3 DEF Object
<1>6. Kept
  BY <1>2, WritesObj, ObjectChanges DEF IInv
<1> QED BY <1>4, <1>5, <1>6

\* Somebody deletes the object or changes it.
LEMMA MeddleStep ==
    ASSUME IInv, Meddle
    PROVE  Kept /\ cr'.want = cr.want /\ obj' \in Object \cup {Absent}
<1>1. /\ obj # Absent /\ Others /\ UNCHANGED <<crs, mem>>
      /\ budget' \in [Disturbances -> Nat] /\ obj \in Object /\ TypeOK
  BY VersionTypes, SpendType DEF Meddle, IInv, TypeOK, Disturbances
<1>2. /\ objs' \in Versions(Object \cup {Absent}) /\ Len(objs') <= MaxLag + 1
      /\ up => Len(objs') # 1
  <2>1. CASE ~obj.dying /\ RemoveObject
    BY <1>1, <2>1, Removes
  <2>2. CASE \E c \in Contents \ {obj.content} : WriteObj([obj EXCEPT !.content = c])
    <3>1. PICK c \in Contents : WriteObj([obj EXCEPT !.content = c])
      BY <2>2
    <3>2. [obj EXCEPT !.content = c] \in Object
      BY <1>1 DEF Object
    <3> QED BY <1>1, <3>1, <3>2, WritesObj
  <2> QED BY <2>1, <2>2 DEF Meddle
<1>3. Kept
  BY <1>1, <1>2, ObjectChanges
<1>4. cr' = cr /\ obj' \in Object \cup {Absent}
  BY <1>1, <1>2, Current DEF cr, obj
<1> QED BY <1>3, <1>4

\* The spec is edited: what a pass has read is out of date.
LEMMA EditSpecStep ==
    ASSUME IInv, EditSpec
    PROVE  Kept /\ cr'.want \in Contents /\ obj' = obj
           /\ budget'["meddle"] = budget["meddle"]
<1>1. /\ Others /\ UNCHANGED objs /\ Spend("edit")
      /\ mem' = [mem EXCEPT !.fresh = FALSE]
  BY DEF EditSpec
<1>2. PICK c \in Contents : WriteCr([cr EXCEPT !.want = c])
  BY DEF EditSpec
<1>3. [cr EXCEPT !.want = c] \in Horreum
  BY VersionTypes DEF IInv, Horreum
<1>4. /\ crs' \in Versions(Horreum) /\ Len(crs') <= MaxLag + 1
      /\ cr' = [cr EXCEPT !.want = c] /\ (up => Len(crs') # 1)
  BY <1>2, <1>3, WritesCr DEF IInv
<1>5. cr'.want \in Contents
  BY <1>3, <1>4 DEF Horreum
<1>6. /\ budget' \in [Disturbances -> Nat]
      /\ budget'["meddle"] = budget["meddle"]
  BY <1>1, SpendType DEF IInv, TypeOK, Disturbances
<1>7. /\ mem' \in Mem /\ mem'.want = mem.want /\ mem'.status = mem.status
      /\ mem = Idle => mem' = Idle
  <2>1. mem \in Mem
    BY DEF IInv, TypeOK
  <2>2. [Idle EXCEPT !.fresh = FALSE] = Idle
    <3>1. Idle.fresh = FALSE
      BY DEF Idle
    <3>2. Idle \in Mem
      BY IdleType DEF IInv
    <3> QED BY <3>1, <3>2 DEF Mem
  <2> QED BY <1>1, <2>1, <2>2 DEF Mem
<1>8. TypeOK'
  BY <1>1, <1>4, <1>6, <1>7 DEF IInv, TypeOK, Versions, Others
<1>9. ~(up' /\ Len(crs') = 1)
  BY <1>1, <1>4 DEF Others
<1>10. Careful'
  <2>1. /\ obj' = obj /\ Len(objs') = Len(objs) /\ queued' = queued
        /\ up' = up /\ pc' = pc
    BY <1>1 DEF Others, obj
  <2>2. /\ pc # "idle" => up
        /\ pc = "get" => mem.status = "Ready"
        /\ pc = "finish" /\ ~queued /\ Len(objs) = 1 =>
             /\ obj # Absent /\ matches(mem.want, obj)
             /\ mem.status = StatusOf(obj.health)
    BY DEF IInv, Careful
  <2>3. ~(pc' # "idle" /\ Len(crs') = 1)
    BY <1>9, <2>1, <2>2, Zenon
  <2> QED BY <1>7, <2>1, <2>2, <2>3 DEF Careful, matches
<1>11. ~Quiet'
  BY <1>9 DEF Quiet
<1>12. obj' = obj
  BY <1>1 DEF obj
<1> QED BY <1>5, <1>6, <1>8, <1>10, <1>11, <1>12 DEF Kept

----------------------------------------------------------------------------
(* The promise of Follower.                                                *)

Have  == IF obj = Absent THEN Absent ELSE obj.content
Dying == IF obj = Absent THEN FALSE ELSE obj.dying
Owed  == ~Quiet \/ Dying

\* As long as something runs, waits or is on its way, something is owed.
LEMMA StillOwed == ASSUME ~Quiet PROVE Owed = TRUE
BY DEF Owed

LEMMA StillOwedNext == ASSUME ~Quiet' PROVE Owed' = TRUE
BY DEF Owed

\* The steps of the promise, in terms of the model.
LEMMA Wakes ==
    ASSUME cr'.want = cr.want, Have' = Have, Owed' = TRUE,
           budget'["meddle"] = budget["meddle"]
    PROVE  F!Next
BY DEF F!Next, F!Wake, Have, Owed, Dying

LEMMA Rests ==
    ASSUME cr'.want = cr.want, Have' = Have, Owed' = FALSE,
           <<cr.want, Have>> \in Accepts, budget'["meddle"] = budget["meddle"]
    PROVE  F!Next
BY DEF F!Next, F!Rest, F!Suits, Have, Owed, Dying

LEMMA Makes ==
    ASSUME cr'.want = cr.want, Have = Absent, NEW c \in Contents, Have' = c,
           Owed = TRUE, Owed' = TRUE, budget'["meddle"] = budget["meddle"]
    PROVE  F!Next
BY DEF F!Next, F!Make, Have, Owed, Dying

LEMMA Clears ==
    ASSUME cr'.want = cr.want, Have # Absent, Have' = Absent,
           Owed = TRUE, Owed' = TRUE, budget'["meddle"] = budget["meddle"]
    PROVE  F!Next
BY DEF F!Next, F!Clear, Have, Owed, Dying

LEMMA Asks ==
    ASSUME cr'.want \in Contents, Have' = Have, Owed' = TRUE,
           budget'["meddle"] = budget["meddle"]
    PROVE  F!Next
BY DEF F!Next, F!Ask, Have, Owed, Dying

LEMMA Meddles ==
    ASSUME cr'.want = cr.want, Have' \in Contents \cup {Absent}, Owed' = TRUE,
           budget["meddle"] > 0, budget'["meddle"] = budget["meddle"] - 1
    PROVE  F!Next
BY DEF F!Next, F!Meddle, Have, Owed, Dying

\* The content of an object that is there is a content.
LEMMA HaveType ==
    ASSUME obj \in Object \cup {Absent}
    PROVE  /\ Have \in Contents \cup {Absent}
           /\ (Have = Absent) <=> (obj = Absent)
<1>1. CASE obj = Absent
  BY <1>1 DEF Have
<1>2. CASE obj # Absent
  <2>1. obj.content \in Contents
    BY <1>2 DEF Object
  <2> QED BY <1>2, <2>1, AbsentAssumption DEF Have
<1> QED BY <1>1, <1>2

\* Informers move versions without changing the current one.
LEMMA InformersMap == ASSUME IInv, Informers PROVE Kept /\ F!Next
<1>1. /\ crs \in Versions(Horreum) /\ objs \in Versions(Object \cup {Absent})
      /\ cr \in Horreum /\ obj \in Object \cup {Absent}
  BY VersionTypes DEF IInv
<1>2. cr' = cr /\ budget' = budget
  BY <1>1, Delivered, Listed
     DEF Informers, DeliverCr, DeliverObj, Relist, Resync, Retry, cr, worker
<1>3. obj' = obj
  BY <1>1, Delivered, Listed
     DEF Informers, DeliverCr, DeliverObj, Relist, Resync, Retry, obj, worker
<1>4. Kept
  BY InformersStep
<1> QED BY <1>2, <1>3, <1>4, StillOwedNext, Wakes DEF Kept, Have

\* The steps of a pass that write nothing but the status, and the restart.
LEMMA QuietlyMap ==
    ASSUME IInv, Begin \/ Get \/ Report \/ Crash \/ Restart
    PROVE  Kept /\ F!Next
<1>1. Kept
  BY BeginStep, GetStep, ReportStep, CrashStep, RestartStep
<1>2. /\ cr \in Horreum /\ obj \in Object \cup {Absent}
      /\ budget \in [Disturbances -> Nat]
  BY VersionTypes DEF IInv, TypeOK
<1>3. cr'.want = cr.want /\ obj' = obj /\ budget'["meddle"] = budget["meddle"]
  <2>1. CASE Begin
    BY <2>1 DEF Begin, cr, obj
  <2>2. CASE Get
    BY <1>2, <2>2, SpendType DEF Get, Fails, cr, obj, Disturbances
  <2>3. CASE Report
    BY <2>3, StatusWritten DEF Report, Call, EndPass, obj
  <2>4. CASE Crash
    BY <1>2, <2>4, SpendType DEF Crash, cr, obj, Disturbances
  <2>5. CASE Restart
    BY <1>2, <2>5, Listed DEF Restart, cr, obj
  <2> QED BY <2>1, <2>2, <2>3, <2>4, <2>5
<1> QED BY <1>1, <1>3, StillOwedNext, Wakes DEF Kept, Have

\* A creation makes the object, or it is refused or fails.
LEMMA CreateMap == ASSUME IInv, Create PROVE Kept /\ F!Next
<1> DEFINE new == [content |-> mem.want, health |-> "new", dying |-> FALSE]
<1>1. Kept
  BY CreateStep
<1>2. /\ crs' = crs /\ cr' = cr /\ pc = "create"
      /\ mem.want \in Contents /\ budget \in [Disturbances -> Nat]
  BY DEF Create, Call, IInv, TypeOK, Mem, cr
<1>3. budget'["meddle"] = budget["meddle"]
  BY <1>2, SpendType DEF Create, Disturbances
<1>4. CASE obj = Absent /\ WriteObj(new)
  <2>1. new \in Object
    BY <1>2 DEF Object
  <2>2. obj' = new
    BY <1>4, <2>1, WritesObj DEF IInv
  <2>3. obj' # Absent
    BY <2>1, <2>2, AbsentAssumption
  <2>4. Have = Absent /\ Have' = mem.want
    BY <1>4, <2>2, <2>3 DEF Have
  <2>5. Owed = TRUE /\ Owed' = TRUE
    BY <1>1, <1>2, StillOwed, StillOwedNext DEF Kept, Quiet
  <2> QED BY <1>1, <1>2, <1>3, <2>4, <2>5, Makes
<1>5. CASE UNCHANGED objs
  <2>1. Have' = Have
    BY <1>5 DEF Have, obj
  <2> QED BY <1>1, <1>2, <1>3, <2>1, StillOwedNext, Wakes DEF Kept
<1> QED BY <1>4, <1>5 DEF Create

\* A deletion clears the object, marks it, or is refused or fails.
LEMMA DeleteMap == ASSUME IInv, Delete PROVE Kept /\ F!Next
<1>1. Kept
  BY DeleteStep
<1>2. /\ cr' = cr /\ pc = "delete" /\ budget \in [Disturbances -> Nat]
      /\ obj \in Object \cup {Absent}
  BY VersionTypes DEF Delete, Call, IInv, TypeOK, cr
<1>3. budget'["meddle"] = budget["meddle"]
  BY <1>2, SpendType DEF Delete, Fails, Disturbances
<1>4. CASE obj # Absent /\ RemoveObject /\ obj' = Absent
  <2>1. Have # Absent /\ Have' = Absent
    BY <1>2, <1>4, HaveType DEF Have
  <2>2. Owed = TRUE /\ Owed' = TRUE
    BY <1>1, <1>2, StillOwed, StillOwedNext DEF Kept, Quiet
  <2> QED BY <1>1, <1>2, <1>3, <2>1, <2>2, Clears
<1>5. CASE obj # Absent /\ obj' # Absent /\ obj'.content = obj.content
  <2>1. Have' = Have
    BY <1>5 DEF Have
  <2> QED BY <1>1, <1>2, <1>3, <2>1, StillOwedNext, Wakes DEF Kept
<1>6. CASE UNCHANGED objs
  <2>1. Have' = Have
    BY <1>6 DEF Have, obj
  <2> QED BY <1>1, <1>2, <1>3, <2>1, StillOwedNext, Wakes DEF Kept
<1> QED BY <1>4, <1>5, <1>6, Removes DEF Delete, IInv

\* Kubelets and the router work on the object.
LEMMA BecomeOkMap == ASSUME IInv, BecomeOk PROVE Kept /\ F!Next
<1>1. /\ obj # Absent /\ Others /\ UNCHANGED <<crs, mem, budget>>
      /\ WriteObj([obj EXCEPT !.health = "ok"])
      /\ budget' \in [Disturbances -> Nat]
  BY DEF BecomeOk, IInv, TypeOK
<1>2. Kept /\ obj' # Absent /\ obj'.content = obj.content
  BY <1>1, HealthChanges
<1>3. cr' = cr /\ Have' = Have
  BY <1>1, <1>2 DEF cr, Have
<1> QED BY <1>1, <1>2, <1>3, StillOwedNext, Wakes DEF Kept

LEMMA BecomeBadMap == ASSUME IInv, BecomeBad PROVE Kept /\ F!Next
<1>1. /\ obj # Absent /\ Others /\ UNCHANGED <<crs, mem>> /\ Spend("meddle")
      /\ WriteObj([obj EXCEPT !.health = "bad"])
      /\ obj \in Object \cup {Absent} /\ budget \in [Disturbances -> Nat]
  BY VersionTypes DEF BecomeBad, IInv, TypeOK
<1>2. /\ budget' \in [Disturbances -> Nat]
      /\ budget["meddle"] > 0 /\ budget'["meddle"] = budget["meddle"] - 1
  BY <1>1, SpendType DEF Disturbances
<1>3. Kept /\ obj' # Absent /\ obj'.content = obj.content
  BY <1>1, <1>2, HealthChanges
<1>4. cr' = cr /\ Have' \in Contents \cup {Absent}
  BY <1>1, <1>3, HaveType DEF cr, Have
<1> QED BY <1>2, <1>3, <1>4, StillOwedNext, Meddles DEF Kept

\* The end of a termination is owed while the object is dying.
LEMMA TerminateMap == ASSUME IInv, Terminate PROVE Kept /\ F!Next
<1>1. /\ obj # Absent /\ obj.dying /\ Others /\ UNCHANGED <<crs, mem, budget>>
      /\ WriteObj(Absent) /\ budget' \in [Disturbances -> Nat]
      /\ obj \in Object \cup {Absent} /\ TypeOK
  BY VersionTypes DEF Terminate, IInv, TypeOK
<1>2. Kept /\ obj' = Absent
  BY <1>1, WritesObj, ObjectChanges
<1>3. cr' = cr /\ Have # Absent /\ Have' = Absent
  BY <1>1, <1>2, HaveType DEF cr, Have
<1>4. Owed = TRUE
  BY <1>1 DEF Owed, Dying
<1> QED BY <1>1, <1>2, <1>3, <1>4, StillOwedNext, Clears DEF Kept

\* Others change or delete the object, or the user edits the spec.
LEMMA MeddleMap == ASSUME IInv, Meddle PROVE Kept /\ F!Next
<1>1. Kept /\ cr'.want = cr.want /\ obj' \in Object \cup {Absent}
  BY MeddleStep
<1>2. Have' \in Contents \cup {Absent}
  BY <1>1, HaveType DEF Have, Object
<1>3. budget["meddle"] > 0 /\ budget'["meddle"] = budget["meddle"] - 1
  BY SpendType DEF Meddle, IInv, TypeOK, Disturbances
<1> QED BY <1>1, <1>2, <1>3, StillOwedNext, Meddles DEF Kept

LEMMA EditSpecMap == ASSUME IInv, EditSpec PROVE Kept /\ F!Next
<1>1. /\ Kept /\ cr'.want \in Contents /\ Have' = Have
      /\ budget'["meddle"] = budget["meddle"]
  BY EditSpecStep DEF Have
<1> QED BY <1>1, StillOwedNext, Asks DEF Kept

\* The end of a pass may be the rest of the operator.
LEMMA FinishMap == ASSUME IInv, Finish PROVE IInv' /\ F!Next
<1>1. /\ IInv' /\ cr'.want = cr.want /\ obj' = obj
      /\ budget'["meddle"] = budget["meddle"]
  BY FinishStep
<1>2. Have' = Have
  BY <1>1 DEF Have
<1>3. CASE Owed'
  <2>1. Owed' = TRUE
    BY <1>3 DEF Owed
  <2> QED BY <1>1, <1>2, <2>1, Wakes
<1>4. CASE ~Owed'
  <2>1. Owed' = FALSE
    BY <1>4 DEF Owed
  <2>2. Quiet'
    BY <1>4 DEF Owed
  <2>3. <<cr.want, Have>> \in Accepts
    BY <1>1, <2>2 DEF IInv, Rested, matches, Have
  <2> QED BY <1>1, <1>2, <2>1, <2>3, Rests
<1> QED BY <1>1, <1>3, <1>4

----------------------------------------------------------------------------
(* The theorems.                                                           *)

LEMMA Initially == ASSUME Init PROVE IInv /\ F!Init
<1>1. PICK w \in Contents : crs = <<[want |-> w, status |-> ""]>>
  BY DEF Init
<1>2. [want |-> w, status |-> ""] \in Horreum
  BY DEF Horreum, StatusValues
<1>3. crs \in Versions(Horreum) /\ Len(crs) = 1 /\ cr = [want |-> w, status |-> ""]
  BY <1>1, <1>2, Listed DEF cr
<1>4. objs \in Versions(Object \cup {Absent}) /\ Len(objs) = 1 /\ obj = Absent
  BY Listed DEF Init, obj
<1>5. /\ queued = TRUE /\ delayed = FALSE /\ up = TRUE /\ pc = "idle"
      /\ mem = Idle /\ unsaid = FALSE /\ budget \in [Disturbances -> Nat]
  BY BoundsAssumption DEF Init
<1>6. Idle \in Mem
  <2>1. (CHOOSE c \in Contents : TRUE) \in Contents
    BY <1>1
  <2> QED BY <2>1 DEF Idle, Mem, StatusValues
<1>7. 1 <= MaxLag + 1
  BY MaxLagAssumption
<1>8. TypeOK
  BY <1>3, <1>4, <1>5, <1>6, <1>7 DEF TypeOK, Versions, Calls
<1>9. ~Quiet
  BY <1>5 DEF Quiet
<1>10. IInv
  BY <1>5, <1>8, <1>9 DEF IInv, Careful, Rested
<1>11. F!Init
  <2>1. Have = Absent /\ Owed = TRUE /\ cr.want \in Contents
        /\ budget["meddle"] \in Nat
    BY <1>3, <1>4, <1>5, <1>9, StillOwed DEF Have, Disturbances
  <2> QED BY <2>1 DEF F!Init, F!TypeOK, Have, Owed, Dying
<1> QED BY <1>10, <1>11

\* One step keeps the invariant and is a step of the promise, or none.
LEMMA Step ==
    ASSUME IInv, [Next]_vars
    PROVE  IInv' /\ [F!Next]_(F!vars)
<1>1. CASE Next
  <2>1. CASE Finish
    BY <2>1, FinishMap
  <2>2. CASE ~Finish
    <3>1. Kept /\ F!Next
      BY <1>1, <2>2, InformersMap, QuietlyMap, CreateMap, DeleteMap, BecomeOkMap,
         BecomeBadMap, TerminateMap, MeddleMap, EditSpecMap
         DEF Next, Operator, Cluster, Trouble
    <3>2. Rested'
      BY <3>1 DEF Kept, Rested
    <3> QED BY <3>1, <3>2 DEF Kept, IInv
  <2> QED BY <2>1, <2>2
<1>2. CASE UNCHANGED vars
  <2>1. IInv'
    BY <1>2 DEF vars, worker, IInv, TypeOK, Careful, Rested, Quiet, cr, obj, matches
  <2>2. UNCHANGED F!vars
    BY <1>2 DEF F!vars, vars, worker, Quiet, cr, obj
  <2> QED BY <2>1, <2>2
<1> QED BY <1>1, <1>2

\* The inductive invariant holds.
LEMMA Invariant == Spec => []IInv
<1>1. Init => IInv
  BY Initially
<1>2. IInv /\ [Next]_vars => IInv'
  BY Step
<1> QED BY <1>1, <1>2, PTL DEF Spec

\* Every variable has its type, the caches always hold a version, and no pass
\* leaves anything behind.
THEOREM TypeCorrect == Spec => []TypeOK
<1>1. IInv => TypeOK
  BY DEF IInv
<1> QED BY <1>1, Invariant, PTL

\* At rest the status is the health of the object, unless its write failed.
THEOREM StatusTold == Spec => []QuietStatus
<1>1. IInv => QuietStatus
  BY DEF IInv, Rested, QuietStatus, StatusOf
<1> QED BY <1>1, Invariant, PTL

\* ensureSame, with its caches, queue, faults and restarts, implements the
\* promise: nothing is owed only while the object suits the spec, and the
\* operator touches the object only while it owes.
THEOREM Refines == Spec => Follows
<1>1. Init => F!Init
  BY Initially
<1>2. IInv /\ [Next]_vars => [F!Next]_(F!vars)
  BY Step
<1> QED BY <1>1, <1>2, Invariant, PTL DEF Spec, Follows, F!Spec

\* What the abstract promise is for, carried over to the code: whenever the
\* operator owes nothing, the object is there and will do for what is wanted.
THEOREM AtRestItSuits == Spec => []F!Followed
<1>1. F!Init => F!Followed
  BY DEF F!Init, F!Followed
<1>2. F!Followed /\ [F!Next]_(F!vars) => F!Followed'
  BY DEF F!Followed, F!Next, F!vars, F!Ask, F!Meddle, F!Make, F!Clear, F!Wake, F!Rest, F!Suits
<1> QED BY <1>1, <1>2, Refines, PTL DEF Follows, F!Spec

=============================================================================
