------------------------- MODULE CertificatesProofs -------------------------
(***************************************************************************)
(* Proofs about Certificates for any resources and operator processes, any *)
(* supply of keys, both platforms and every bound on the disturbances.     *)
(***************************************************************************)
EXTENDS Certificates, TLAPS

----------------------------------------------------------------------------
(* The inductive invariant.                                                *)

Objects == [Slots -> Object \cup {Absent}]

\* The CA secret of o holds key k.
Holds(objects, o, k) == Exists(objects, CaSecret(o)) /\ objects[CaSecret(o)].key = k

\* A pass works for a resource that exists, unless it was told otherwise.
Begun == \A p \in Operators : pc[p] # "idle" /\ ~mem[p].orphan => mem[p].owner \in live

\* The CA a process has in its cache, or in the pass, is the one the API
\* server has, or it is lost.
CacheSaved ==
    \A p \in Operators, o \in Owners : \A k \in Keys \ lost :
        Holds(cache[p], o, k) => Holds(api, o, k)
MemSaved ==
    \A p \in Operators : mem[p].key \in Keys \ lost => Holds(api, mem[p].owner, mem[p].key)

\* A CA secret belongs to the resource it is named after, and no two have the
\* same CA, so that one that is gone is gone for everybody.
OwnCa == \A o \in Owners : Exists(api, CaSecret(o)) => api[CaSecret(o)].owner = o
OneCa == \A o, q \in Owners : \A k \in Keys : Holds(api, o, k) /\ Holds(api, q, k) => o = q

Saved == SavedCa /\ CacheSaved /\ MemSaved /\ OwnCa /\ OneCa
IInv  == TypeOK /\ Begun /\ Saved

----------------------------------------------------------------------------
(* Names and types.                                                        *)

LEMMA SlotNames ==
    /\ \A o \in Owners : CaSecret(o) \in Secrets /\ CaSecret(o) \in {"ca"} \X Owners
    /\ \A o \in Owners, s \in Services : Cert(s, o) \in Secrets
    /\ Secrets \subseteq Slots /\ CaMap \in Slots
    /\ \A x \in {"ca"} \X Owners : \E o \in Owners : x = CaSecret(o)
BY DEF CaSecret, Cert, CaMap, Secrets, Slots, Services

LEMMA SlotsDiffer ==
    /\ \A o \in Owners : CaMap # CaSecret(o)
    /\ \A o, q \in Owners : CaSecret(o) = CaSecret(q) => o = q
    /\ \A o, q \in Owners, s \in Services : Cert(s, o) # CaSecret(q)
BY DEF CaSecret, Cert, CaMap, Services

LEMMA IdleType == Idle \in Mem /\ Idle.key \notin Keys /\ Idle.orphan = FALSE
<1>1. (CHOOSE o \in Owners : TRUE) \in Owners
  BY OwnersAssumption
<1> QED BY <1>1, KeysAssumption DEF Idle, Mem, Signers

\* An object that exists, in a view of the right type.
LEMMA ObjectType ==
    ASSUME NEW objects \in Objects, NEW x \in Slots, Exists(objects, x)
    PROVE  objects[x] \in Object /\ objects[x].key \in Signers /\ objects[x].owner \in Owners
BY DEF Objects, Object, Exists

\* Views remain views.
LEMMA ViewType ==
    ASSUME NEW objects \in Objects, NEW o \in Owners
    PROVE  /\ Orphaned(objects, o) \in Objects
           /\ \A x \in Slots : /\ Exists(Orphaned(objects, o), x) <=> Exists(objects, x)
                               /\ Exists(objects, x) =>
                                    /\ Orphaned(objects, o)[x].key = objects[x].key
                                    /\ Orphaned(objects, o)[x].owner = objects[x].owner
<1> DEFINE gone(x) == [objects[x] EXCEPT !.orphan = @ \/ objects[x].owner = o]
<1>1. \A x \in Slots : Exists(objects, x) =>
        /\ gone(x) \in Object /\ gone(x).key = objects[x].key
        /\ gone(x).owner = objects[x].owner
  <2> SUFFICES ASSUME NEW x \in Slots, Exists(objects, x)
               PROVE  /\ gone(x) \in Object /\ gone(x).key = objects[x].key
                      /\ gone(x).owner = objects[x].owner
    OBVIOUS
  <2>1. objects[x] \in Object
    BY ObjectType
  <2>2. (objects[x].orphan \/ objects[x].owner = o) \in BOOLEAN
    BY Zenon
  <2> QED BY <2>1, <2>2 DEF Object
<1> HIDE DEF gone
<1>2. Orphaned(objects, o) = [x \in Slots |-> IF Exists(objects, x) THEN gone(x) ELSE Absent]
  BY DEF Orphaned, gone
<1>3. \A x \in Slots : Exists(objects, x) => gone(x) # Absent
  BY <1>1, AbsentAssumption
<1> QED BY <1>1, <1>2, <1>3 DEF Objects, Exists

----------------------------------------------------------------------------
(* Keys.                                                                   *)

\* What a view of the objects or a pass refers to is in use.
LEMMA KeysUsed ==
    ASSUME NEW objects, NEW caches, NEW m, NEW k \in Keys
    PROVE  /\ \A x \in Slots : Exists(objects, x) /\ objects[x].key = k
                => k \in InUse(objects, caches, m)
           /\ \A p \in Operators, x \in Slots : Exists(caches[p], x) /\ caches[p][x].key = k
                => k \in InUse(objects, caches, m)
           /\ \A p \in Operators : m[p].key = k => k \in InUse(objects, caches, m)
BY DEF InUse, KeysOf

\* The keys of CA secrets are those some resource's CA secret holds.
LEMMA CaKeysHeld ==
    ASSUME NEW objects, NEW k
    PROVE  k \in CaKeys(objects) <=> \E o \in Owners : Holds(objects, o, k)
BY SlotNames DEF CaKeys, Holds

\* A CA that is still used and not lost stays where it is, as long as new CA
\* secrets have keys that nothing uses.
LEMMA StillHolds ==
    ASSUME IInv, NEW objects, Commit(objects),
           \A o \in Owners : \A k \in Keys :
               Holds(objects, o, k) => Holds(api, o, k) \/ k \in Unused,
           NEW k \in Keys \ lost', k \in InUse(objects, cache', mem')
    PROVE  /\ k \notin lost
           /\ \A o \in Owners : Holds(api, o, k) => Holds(objects, o, k)
<1>1. k \notin lost /\ (k \in CaKeys(api) => k \in CaKeys(objects))
  BY DEF Commit
<1>2. ASSUME NEW o \in Owners, Holds(api, o, k) PROVE Holds(objects, o, k)
  <2>1. PICK q \in Owners : Holds(objects, q, k)
    BY <1>1, <1>2, CaKeysHeld
  <2>2. k \in InUse(api, cache, mem)
    BY <1>2, KeysUsed, SlotNames DEF Holds
  <2>3. Holds(api, q, k)
    BY <2>1, <2>2 DEF Unused
  <2>4. q = o
    BY <1>2, <2>3 DEF IInv, Saved, OneCa
  <2> QED BY <2>1, <2>4
<1> QED BY <1>1, <1>2

\* A write keeps the invariant when it adds no CA but one with a new key, and
\* everything it adds, or a pass takes over, comes from the CA secret of the
\* resource, before the write or with it.
LEMMA CommitSaves ==
    ASSUME IInv, NEW objects \in Objects, Commit(objects), UNCHANGED cache,
           \A o \in Owners : Exists(objects, CaSecret(o)) => objects[CaSecret(o)].owner = o,
           \A o \in Owners : \A k \in Keys :
               Holds(objects, o, k) => Holds(api, o, k) \/ k \in Unused,
           \A o, q \in Owners : \A k \in Unused :
               Holds(objects, o, k) /\ Holds(objects, q, k) => o = q,
           \A x \in Slots : Exists(objects, x) /\ objects[x].key \in Keys \ lost =>
               \/ Holds(api, objects[x].owner, objects[x].key)
               \/ Holds(objects, objects[x].owner, objects[x].key),
           \A p \in Operators : mem'[p].key \in Keys \ lost =>
               \/ Holds(api, mem'[p].owner, mem'[p].key)
               \/ Holds(objects, mem'[p].owner, mem'[p].key),
           \A p \in Operators : mem'[p].owner \in Owners
    PROVE  Saved'
<1>1. api' = objects
  BY DEF Commit
<1>2. SavedCa'
  <2> SUFFICES ASSUME NEW x \in Slots, Exists(objects, x), objects[x].key \in Keys \ lost'
               PROVE  Holds(objects, objects[x].owner, objects[x].key)
    BY <1>1 DEF SavedCa, Holds, Exists
  <2>1. objects[x].key \in InUse(objects, cache', mem') /\ objects[x].owner \in Owners
    BY KeysUsed, ObjectType
  <2> QED BY <2>1, StillHolds
<1>3. CacheSaved'
  <2> SUFFICES ASSUME NEW p \in Operators, NEW o \in Owners, NEW k \in Keys \ lost',
                      Holds(cache[p], o, k)
               PROVE  Holds(objects, o, k)
    BY <1>1 DEF CacheSaved, Holds, Exists
  <2>1. k \in InUse(objects, cache', mem')
    BY KeysUsed, SlotNames DEF Holds
  <2>2. k \notin lost
    BY <2>1, StillHolds
  <2>3. Holds(api, o, k)
    BY <2>2 DEF IInv, Saved, CacheSaved
  <2> QED BY <2>1, <2>3, StillHolds
<1>4. MemSaved'
  <2> SUFFICES ASSUME NEW p \in Operators, mem'[p].key \in Keys \ lost'
               PROVE  Holds(objects, mem'[p].owner, mem'[p].key)
    BY <1>1 DEF MemSaved, Holds, Exists
  <2>1. mem'[p].key \in InUse(objects, cache', mem')
    BY KeysUsed
  <2> QED BY <2>1, StillHolds
<1>5. OwnCa'
  BY <1>1 DEF OwnCa, Exists
<1>6. OneCa'
  <2> SUFFICES ASSUME NEW o \in Owners, NEW q \in Owners, NEW k \in Keys,
                      Holds(objects, o, k), Holds(objects, q, k)
               PROVE  o = q
    BY <1>1 DEF OneCa, Holds, Exists
  <2> QED BY DEF IInv, Saved, OneCa
<1> QED BY <1>2, <1>3, <1>4, <1>5, <1>6 DEF Saved

----------------------------------------------------------------------------
(* A pass.                                                                 *)

Budgets == [Disturbances -> Nat]

\* The local variables of the pass of p, with another CA.
WithKey(p, m) == m \in Mem /\ m.owner = mem[p].owner /\ m.orphan = mem[p].orphan

\* A pass goes on with its resource, or ends and is queued again.
LEMMA PassType ==
    ASSUME IInv, NEW p \in Operators, pc[p] # "idle",
           \/ Fail(p)
           \/ \E step \in Calls \ {"idle"}, m \in Mem : WithKey(p, m) /\ Go(p, step, m),
           api' \in Objects, lost' \subseteq Keys, budget' \in Budgets
    PROVE  /\ TypeOK' /\ Begun' /\ UNCHANGED cache /\ mem' \in [Operators -> Mem]
           /\ \A q \in Operators : q # p => mem'[q] = mem[q]
<1>1. /\ UNCHANGED <<openshift, live, served, up, routes, cache>>
      /\ mem \in [Operators -> Mem] /\ pc \in [Operators -> Calls]
      /\ queue \in [Operators -> SUBSET Owners] /\ mem[p] \in Mem
      /\ mem[p].owner \in Owners /\ "idle" \in Calls
  BY DEF IInv, TypeOK, Fail, Go, Process, cluster, Mem, Calls
<1>2. CASE Fail(p)
  <2>1. /\ pc' = [pc EXCEPT ![p] = "idle"] /\ mem' = [mem EXCEPT ![p] = Idle]
        /\ queue' = [queue EXCEPT ![p] = @ \cup {mem[p].owner}]
    BY <1>2 DEF Fail
  <2>2. queue' \in [Operators -> SUBSET Owners]
    BY <1>1, <2>1
  <2>3. /\ pc' \in [Operators -> Calls] /\ mem' \in [Operators -> Mem]
        /\ pc'[p] = "idle" /\ mem'[p] = Idle
        /\ \A q \in Operators : q # p => pc'[q] = pc[q] /\ mem'[q] = mem[q]
    BY <1>1, <2>1, IdleType
  <2>4. TypeOK'
    BY <1>1, <2>2, <2>3 DEF IInv, TypeOK, Objects, Budgets
  <2>5. Begun'
    BY <1>1, <2>3 DEF IInv, Begun
  <2> QED BY <1>1, <2>3, <2>4, <2>5
<1>3. CASE \E step \in Calls \ {"idle"}, m \in Mem : WithKey(p, m) /\ Go(p, step, m)
  <2>1. PICK step \in Calls \ {"idle"}, m \in Mem : WithKey(p, m) /\ Go(p, step, m)
    BY <1>3
  <2>2. /\ pc' = [pc EXCEPT ![p] = step] /\ mem' = [mem EXCEPT ![p] = m] /\ UNCHANGED queue
    BY <2>1 DEF Go
  <2>3. /\ pc' \in [Operators -> Calls] /\ mem' \in [Operators -> Mem]
        /\ pc'[p] # "idle" /\ mem'[p] = m
        /\ \A q \in Operators : q # p => pc'[q] = pc[q] /\ mem'[q] = mem[q]
    BY <1>1, <2>2
  <2>4. TypeOK'
    BY <1>1, <2>2, <2>3 DEF IInv, TypeOK, Objects, Budgets
  <2>5. Begun'
    BY <1>1, <2>1, <2>3 DEF IInv, Begun, WithKey
  <2> QED BY <1>1, <2>3, <2>4, <2>5
<1> QED BY <1>2, <1>3

\* A disturbance is paid for.
LEMMA Spending ==
    ASSUME IInv, NEW d \in Disturbances, Spend(d)
    PROVE  budget' \in Budgets
BY DEF IInv, TypeOK, Spend, Budgets

LEMMA LostType == ASSUME NEW objects, Commit(objects) PROVE lost' \subseteq Keys
BY DEF Commit, InUse

\* Nothing is written, and a pass ends or takes a CA from the cache.
LEMMA NothingWritten ==
    ASSUME IInv, UNCHANGED <<api, lost, cache>>,
           \A p \in Operators : mem'[p].key \in Keys \ lost =>
               Holds(api, mem'[p].owner, mem'[p].key)
    PROVE  Saved'
<1>1. SavedCa' /\ OwnCa' /\ OneCa'
  BY DEF IInv, Saved, SavedCa, OwnCa, OneCa, Holds, Exists
<1>2. CacheSaved'
  BY DEF IInv, Saved, CacheSaved, Holds, Exists
<1>3. MemSaved'
  BY DEF MemSaved, Holds, Exists
<1> QED BY <1>1, <1>2, <1>3 DEF Saved

\* What the pass of p creates is signed by its CA, or is a new CA.
LEMMA CreateObjectKeeps ==
    ASSUME IInv, NEW p \in Operators, pc[p] # "idle",
           NEW x \in Slots, NEW key \in Signers, NEW step \in Calls \ {"idle"},
           NEW m \in Mem, WithKey(p, m), CreateObject(p, x, key, step, m),
           \/ /\ x \notin {"ca"} \X Owners
              /\ key \in Keys => key = mem[p].key
              /\ m.key = mem[p].key
           \/ x = CaSecret(mem[p].owner) /\ key \in Unused /\ m.key = key
    PROVE  IInv'
<1> DEFINE created == [api EXCEPT ![x] = New(p, key)]
<1>1. /\ mem \in [Operators -> Mem] /\ mem[p] \in Mem /\ mem[p].owner \in Owners
      /\ mem[p].orphan \in BOOLEAN /\ api \in Objects
  BY DEF IInv, TypeOK, Mem, Objects
<1>2. /\ New(p, key) \in Object /\ New(p, key).key = key
      /\ New(p, key).owner = mem[p].owner
  BY <1>1 DEF New, Object
<1>3. /\ created \in Objects /\ created[x] = New(p, key) /\ Exists(created, x)
      /\ \A y \in Slots : y # x => created[y] = api[y]
  BY <1>1, <1>2, AbsentAssumption DEF Objects, Exists
<1> HIDE DEF created
<1>4. ASSUME NEW objects \in {api, created}, Commit(objects), budget' \in Budgets,
             \/ Fail(p) \/ (Go(p, step, m) /\ objects = created)
      PROVE  IInv'
  <2>1. objects \in Objects /\ api' = objects /\ lost' \subseteq Keys
    BY <1>1, <1>3, <1>4, LostType DEF Commit
  <2>2. /\ TypeOK' /\ Begun' /\ UNCHANGED cache /\ mem' \in [Operators -> Mem]
        /\ \A q \in Operators : q # p => mem'[q] = mem[q]
    BY <1>4, <2>1, PassType
  <2>3. mem'[p] = Idle \/ (mem'[p] = m /\ objects = created)
    BY <1>1, <1>4 DEF Fail, Go
  <2>4. \A o \in Owners : \A k \in Keys : Holds(objects, o, k) => Holds(api, o, k) \/ k \in Unused
    BY <1>2, <1>3, SlotNames DEF Holds, Exists
  <2>5. \A o \in Owners : Exists(objects, CaSecret(o)) => objects[CaSecret(o)].owner = o
    BY <1>1, <1>2, <1>3, SlotNames, SlotsDiffer DEF IInv, Saved, OwnCa, Exists
  <2>6. \A o, q \in Owners : \A k \in Unused :
          Holds(objects, o, k) /\ Holds(objects, q, k) => o = q
    <3> SUFFICES ASSUME NEW o \in Owners, NEW k \in Unused, Holds(objects, o, k)
                 PROVE  x = CaSecret(o)
      BY SlotsDiffer
    <3>1. k \in Keys /\ k \notin InUse(api, cache, mem)
      BY DEF Unused
    <3>2. ~Holds(api, o, k)
      BY <3>1, KeysUsed, SlotNames DEF Holds
    <3> QED BY <1>3, <3>2, SlotNames DEF Holds, Exists
  <2>7. \A k \in Keys \ lost : k = mem[p].key => Holds(api, mem[p].owner, k)
    BY DEF IInv, Saved, MemSaved
  <2>8. \A k \in Keys \ lost : k = key /\ objects = created =>
          Holds(api, mem[p].owner, k) \/ Holds(objects, mem[p].owner, k)
    BY <1>2, <1>3, <2>7 DEF Holds
  <2>9. \A y \in Slots : Exists(objects, y) /\ objects[y].key \in Keys \ lost =>
          \/ Holds(api, objects[y].owner, objects[y].key)
          \/ Holds(objects, objects[y].owner, objects[y].key)
    <3> SUFFICES ASSUME NEW y \in Slots, Exists(objects, y), objects[y].key \in Keys \ lost
                 PROVE  \/ Holds(api, objects[y].owner, objects[y].key)
                        \/ Holds(objects, objects[y].owner, objects[y].key)
      OBVIOUS
    <3>1. CASE objects = created /\ y = x
      BY <1>2, <1>3, <2>8, <3>1
    <3>2. CASE objects[y] = api[y]
      BY <3>2 DEF IInv, Saved, SavedCa, Holds, Exists
    <3> QED BY <1>3, <1>4, <3>1, <3>2
  <2>10. \A q \in Operators : mem'[q].key \in Keys \ lost =>
          \/ Holds(api, mem'[q].owner, mem'[q].key)
          \/ Holds(objects, mem'[q].owner, mem'[q].key)
    <3> SUFFICES ASSUME NEW q \in Operators, mem'[q].key \in Keys \ lost
                 PROVE  \/ Holds(api, mem'[q].owner, mem'[q].key)
                        \/ Holds(objects, mem'[q].owner, mem'[q].key)
      OBVIOUS
    <3>1. CASE q # p
      BY <2>2, <3>1 DEF IInv, Saved, MemSaved
    <3>2. CASE q = p
      <4>1. mem'[p] = m /\ objects = created
        BY <2>3, <3>2, IdleType
      <4> QED BY <2>7, <2>8, <3>2, <4>1 DEF WithKey
    <3> QED BY <3>1, <3>2
  <2>11. \A q \in Operators : mem'[q].owner \in Owners
    BY <2>2 DEF Mem
  <2>12. Saved'
    BY <1>4, <2>1, <2>2, <2>4, <2>5, <2>6, <2>9, <2>10, <2>11, CommitSaves
  <2> QED BY <2>2, <2>12 DEF IInv
<1>5. budget \in Budgets /\ (Spend("fault") => budget' \in Budgets)
  BY Spending DEF IInv, TypeOK, Budgets, Disturbances
<1>6. \/ Go(p, step, m) /\ Commit(created) /\ UNCHANGED budget
      \/ Fail(p) /\ Commit(created) /\ Spend("fault")
      \/ Fail(p) /\ Commit(api) /\ (UNCHANGED budget \/ Spend("fault"))
  BY DEF CreateObject, created
<1> QED BY <1>4, <1>5, <1>6

\* A pass goes on without a write, with its CA or the one in the cache.
LEMMA GoKeeps ==
    ASSUME IInv, NEW p \in Operators, pc[p] # "idle", NEW step \in Calls \ {"idle"},
           NEW m \in Mem, WithKey(p, m), Go(p, step, m), UNCHANGED <<api, lost, budget>>,
           \/ m.key = mem[p].key
           \/ Exists(cache[p], CaSecret(mem[p].owner))
              /\ m.key = cache[p][CaSecret(mem[p].owner)].key
    PROVE  IInv'
<1>1. mem[p].owner \in Owners /\ api' \in Objects /\ lost' \subseteq Keys /\ budget' \in Budgets
  BY DEF IInv, TypeOK, Mem, Objects, Budgets
<1>2. /\ TypeOK' /\ Begun' /\ UNCHANGED cache /\ mem' \in [Operators -> Mem]
      /\ \A q \in Operators : q # p => mem'[q] = mem[q]
  BY <1>1, PassType
<1>3. mem'[p] = m
  BY DEF Go, IInv, TypeOK
<1>4. m.key \in Keys \ lost => Holds(api, m.owner, m.key)
  <2>1. CASE m.key = mem[p].key
    BY <2>1 DEF IInv, Saved, MemSaved, WithKey
  <2>2. CASE Holds(cache[p], m.owner, m.key)
    BY <1>1, <2>2 DEF IInv, Saved, CacheSaved, WithKey
  <2> QED BY <2>1, <2>2 DEF WithKey, Holds
<1>5. \A q \in Operators : mem'[q].key \in Keys \ lost => Holds(api, mem'[q].owner, mem'[q].key)
  BY <1>2, <1>3, <1>4 DEF IInv, Saved, MemSaved
<1> QED BY <1>2, <1>5, NothingWritten DEF IInv

\* A pass fails without a write.
LEMMA FailKeeps ==
    ASSUME IInv, NEW p \in Operators, pc[p] # "idle", Fail(p), UNCHANGED <<api, lost>>,
           budget' \in Budgets
    PROVE  IInv'
<1>1. api' \in Objects /\ lost' \subseteq Keys
  BY DEF IInv, TypeOK, Objects
<1>2. /\ TypeOK' /\ Begun' /\ UNCHANGED cache /\ mem' \in [Operators -> Mem]
      /\ \A q \in Operators : q # p => mem'[q] = mem[q]
  BY <1>1, PassType
<1>3. mem'[p] = Idle
  BY DEF Fail, IInv, TypeOK
<1>4. \A q \in Operators : mem'[q].key \in Keys \ lost => Holds(api, mem'[q].owner, mem'[q].key)
  BY <1>2, <1>3, IdleType DEF IInv, Saved, MemSaved
<1> QED BY <1>2, <1>4, NothingWritten DEF IInv

LEMMA EnsureObjectKeeps ==
    ASSUME IInv, NEW p \in Operators, pc[p] # "idle",
           NEW x \in Slots, x \notin {"ca"} \X Owners,
           NEW key \in Signers, key \in Keys => key = mem[p].key,
           NEW step \in Calls \ {"idle"}, EnsureObject(p, x, key, step, mem[p])
    PROVE  IInv'
<1>1. mem[p] \in Mem /\ WithKey(p, mem[p])
  BY DEF IInv, TypeOK, WithKey
<1>2. CASE Exists(cache[p], x)
  BY <1>1, <1>2, GoKeeps DEF EnsureObject
<1>3. CASE ~Exists(cache[p], x)
  BY <1>1, <1>3, CreateObjectKeeps DEF EnsureObject
<1> QED BY <1>2, <1>3

LEMMA GetFailsKeeps == ASSUME IInv, NEW p \in Operators, GetFails(p) PROVE IInv'
<1>1. pc[p] # "idle" /\ Fail(p) /\ UNCHANGED <<api, lost>> /\ budget' \in Budgets
  BY Spending DEF GetFails, Disturbances
<1> QED BY <1>1, FailKeeps

\* The slots of certificates and bundles are not those of CAs.
LEMMA NoCaSlot ==
    /\ CaMap \notin {"ca"} \X Owners
    /\ \A o \in Owners, s \in Services : Cert(s, o) \notin {"ca"} \X Owners
BY SlotNames, SlotsDiffer

LEMMA InjectedKeeps == ASSUME IInv, NEW p \in Operators, Injected(p) PROVE IInv'
<1>1. "nobody" \in Signers \ Keys /\ "services" \in Calls \ {"idle"} /\ CaMap \in Slots
  BY KeysAssumption, SlotNames DEF Signers, Calls
<1>2. pc[p] # "idle" /\ EnsureObject(p, CaMap, "nobody", "services", mem[p])
  BY DEF Injected
<1> QED BY <1>1, <1>2, NoCaSlot, EnsureObjectKeeps

LEMMA CreateCaKeeps == ASSUME IInv, NEW p \in Operators, CreateCa(p) PROVE IInv'
<1> DEFINE x == CaSecret(mem[p].owner)
           m(k) == [mem[p] EXCEPT !.key = k]
<1>1. /\ pc[p] # "idle" /\ mem[p] \in Mem /\ mem[p].owner \in Owners
      /\ "map" \in Calls \ {"idle"}
  BY DEF CreateCa, IInv, TypeOK, Mem, Calls
<1>2. \A k \in Signers : m(k) \in Mem /\ m(k).key = k /\ WithKey(p, m(k))
  BY <1>1 DEF Mem, WithKey
<1>3. x \in Slots /\ x \in {"ca"} \X Owners
  BY <1>1, SlotNames
<1>4. CASE Exists(cache[p], x) /\ cache[p][x].key = "unreadable"
           /\ Fail(p) /\ UNCHANGED <<api, lost, budget>>
  <2>1. budget' \in Budgets
    BY <1>4 DEF IInv, TypeOK, Budgets
  <2> QED BY <1>1, <1>4, <2>1, FailKeeps
<1>5. CASE Exists(cache[p], x) /\ Go(p, "map", m(cache[p][x].key))
           /\ UNCHANGED <<api, lost, budget>>
  <2>1. cache[p] \in Objects
    BY DEF IInv, TypeOK, Objects
  <2>2. cache[p][x].key \in Signers
    BY <1>3, <1>5, <2>1, ObjectType
  <2> QED BY <1>1, <1>2, <1>5, <2>2, GoKeeps
<1>6. CASE Unused # {} /\ CreateObject(p, x, Fresh, "map", m(Fresh))
  <2>1. Fresh \in Unused
    BY <1>6 DEF Fresh
  <2>2. Fresh \in Signers
    BY <2>1 DEF Unused, Signers
  <2> QED BY <1>1, <1>2, <1>3, <1>6, <2>1, <2>2, CreateObjectKeeps
<1> QED BY <1>4, <1>5, <1>6 DEF CreateCa

LEMMA CreateCaMapKeeps == ASSUME IInv, NEW p \in Operators, CreateCaMap(p) PROVE IInv'
<1>1. mem[p].key \in Signers /\ "app" \in Calls \ {"idle"} /\ CaMap \in Slots
  BY SlotNames DEF IInv, TypeOK, Mem, Calls
<1>2. pc[p] # "idle" /\ EnsureObject(p, CaMap, mem[p].key, "app", mem[p])
  BY DEF CreateCaMap
<1> QED BY <1>1, <1>2, NoCaSlot, EnsureObjectKeeps

LEMMA CreateServiceCertKeeps ==
    ASSUME IInv, NEW p \in Operators, NEW s \in Services, CreateServiceCert(p, s) PROVE IInv'
<1> DEFINE step == IF s = "app" THEN "keycloak" ELSE "services"
<1>1. /\ mem[p].key \in Signers /\ step \in Calls \ {"idle"} /\ mem[p].owner \in Owners
      /\ s # "idle"
  BY DEF IInv, TypeOK, Mem, Calls, Services
<1>2. Cert(s, mem[p].owner) \in Slots
  BY <1>1, SlotNames
<1>3. pc[p] # "idle" /\ EnsureObject(p, Cert(s, mem[p].owner), mem[p].key, step, mem[p])
  BY <1>1 DEF CreateServiceCert
<1> HIDE DEF step
<1> QED BY <1>1, <1>2, <1>3, NoCaSlot, EnsureObjectKeeps

LEMMA BeginKeeps ==
    ASSUME IInv, NEW p \in Operators, NEW o \in Owners, Begin(p, o) PROVE IInv'
<1>1. /\ pc[p] = "idle" /\ mem[p] = Idle /\ queue' = [queue EXCEPT ![p] = @ \ {o}]
      /\ UNCHANGED <<openshift, live, served, up, routes, cache, api, lost, budget>>
  BY DEF Begin, Process, cluster, IInv, TypeOK
<1>2. queue' \in [Operators -> SUBSET Owners]
  BY <1>1 DEF IInv, TypeOK
<1> DEFINE m == [Idle EXCEPT !.owner = o]
<1>3. m \in Mem /\ m.owner = o /\ m.key \notin Keys
  BY IdleType DEF Mem
<1>4. /\ pc' \in [Operators -> Calls] /\ mem' \in [Operators -> Mem]
      /\ \A q \in Operators : q # p => pc'[q] = pc[q] /\ mem'[q] = mem[q]
      /\ \/ o \in live /\ pc'[p] # "idle" /\ mem'[p] = m
         \/ pc'[p] = "idle" /\ mem'[p] = Idle
  <2>1. CASE o \in live
    <3>1. mem' = [mem EXCEPT ![p] = m]
      BY <1>1, <2>1 DEF Begin, IInv, TypeOK
    <3>2. PICK first \in {"injected", "ca"} : pc' = [pc EXCEPT ![p] = first]
      BY <2>1, Zenon DEF Begin
    <3>3. first \in Calls /\ first # "idle"
      BY <3>2 DEF Calls
    <3> QED BY <1>3, <2>1, <3>1, <3>2, <3>3 DEF IInv, TypeOK
  <2>2. CASE o \notin live
    BY <1>1, <2>2 DEF Begin, IInv, TypeOK
  <2> QED BY <2>1, <2>2
<1>5. TypeOK'
  BY <1>1, <1>2, <1>4 DEF IInv, TypeOK
<1>6. Begun'
  BY <1>1, <1>3, <1>4 DEF IInv, Begun
<1>7. \A q \in Operators : mem'[q].key \in Keys \ lost => Holds(api, mem'[q].owner, mem'[q].key)
  BY <1>3, <1>4, IdleType DEF IInv, Saved, MemSaved
<1> QED BY <1>1, <1>5, <1>6, <1>7, NothingWritten DEF IInv

\* A pass is over, or its process is.
LEMMA Over ==
    ASSUME IInv, NEW p \in Operators,
           pc' = [pc EXCEPT ![p] = "idle"], mem' = [mem EXCEPT ![p] = Idle],
           UNCHANGED <<openshift, live, api, lost, routes, cache>>,
           served' \subseteq live, up' \in [Operators -> BOOLEAN],
           queue' \in [Operators -> SUBSET Owners], budget' \in Budgets
    PROVE  IInv'
<1>1. /\ pc' \in [Operators -> Calls] /\ mem' \in [Operators -> Mem]
      /\ pc'[p] = "idle" /\ mem'[p] = Idle
      /\ \A q \in Operators : q # p => pc'[q] = pc[q] /\ mem'[q] = mem[q]
  BY IdleType DEF IInv, TypeOK, Calls
<1>2. TypeOK'
  BY <1>1 DEF IInv, TypeOK, Budgets
<1>3. Begun'
  BY <1>1 DEF IInv, Begun
<1>4. \A q \in Operators : mem'[q].key \in Keys \ lost => Holds(api, mem'[q].owner, mem'[q].key)
  BY <1>1, IdleType DEF IInv, Saved, MemSaved
<1> QED BY <1>2, <1>3, <1>4, NothingWritten DEF IInv

LEMMA FinishKeeps == ASSUME IInv, NEW p \in Operators, Finish(p) PROVE IInv'
<1>1. ~mem[p].orphan => mem[p].owner \in live
  BY DEF Finish, IInv, Begun
<1>2. served' \subseteq live
  BY <1>1 DEF Finish, IInv, TypeOK
<1>3. /\ up' \in [Operators -> BOOLEAN] /\ queue' \in [Operators -> SUBSET Owners]
      /\ budget' \in Budgets
  BY DEF Finish, IInv, TypeOK, Budgets
<1> QED BY <1>2, <1>3, Over DEF Finish

LEMMA CrashKeeps == ASSUME IInv, NEW p \in Operators, Crash(p) PROVE IInv'
<1>1. up' \in [Operators -> BOOLEAN]
  BY DEF Crash, IInv, TypeOK
<1>2. served' \subseteq live /\ queue' \in [Operators -> SUBSET Owners] /\ budget' \in Budgets
  BY Spending DEF Crash, cluster, IInv, TypeOK, Disturbances
<1> QED BY <1>1, <1>2, Over DEF Crash, cluster

\* A process starts: what it reads first is what there is.
LEMMA StartKeeps == ASSUME IInv, NEW p \in Operators, Start(p) PROVE IInv'
<1>1. PICK fails \in {f \in BOOLEAN : f => openshift /\ budget["discovery"] > 0} :
        /\ routes' = [routes EXCEPT ![p] = openshift /\ ~fails]
        /\ budget' = [budget EXCEPT !["discovery"] = @ - IF fails THEN 1 ELSE 0,
                                    !["second"] = @ - IF p = Main THEN 0 ELSE 1]
  BY DEF Start
<1>2. /\ up' = [up EXCEPT ![p] = TRUE] /\ (p # Main => budget["second"] > 0)
      /\ cache' = [cache EXCEPT ![p] = api] /\ queue' = [queue EXCEPT ![p] = live]
      /\ UNCHANGED <<openshift, live, served, api, lost, pc, mem>>
  BY DEF Start, cluster
<1>3. routes' \in [Operators -> BOOLEAN]
  <2>1. (openshift /\ ~fails) \in BOOLEAN
    BY Zenon
  <2> QED BY <1>1, <2>1 DEF IInv, TypeOK
<1>4. budget' \in Budgets
  <2>1. PICK a \in {0, 1} : a = (IF fails THEN 1 ELSE 0) /\ (a = 1 => budget["discovery"] > 0)
    BY <1>1
  <2>2. PICK b \in {0, 1} : b = (IF p = Main THEN 0 ELSE 1) /\ (b = 1 => budget["second"] > 0)
    BY <1>2
  <2>3. budget' = [budget EXCEPT !["discovery"] = @ - a, !["second"] = @ - b]
    BY <1>1, <2>1, <2>2
  <2> QED BY <2>1, <2>2, <2>3 DEF IInv, TypeOK, Budgets, Disturbances
<1>5. up' \in [Operators -> BOOLEAN] /\ queue' \in [Operators -> SUBSET Owners]
  BY <1>2 DEF IInv, TypeOK
<1>6. /\ cache' \in [Operators -> Objects]
      /\ \A q \in Operators : cache'[q] \in {cache[q], api}
  BY <1>2 DEF IInv, TypeOK, Objects
<1>7. TypeOK'
  BY <1>2, <1>3, <1>4, <1>5, <1>6 DEF IInv, TypeOK, Objects, Budgets
<1>8. Begun'
  BY <1>2 DEF IInv, Begun
<1>9. CacheSaved'
  <2> SUFFICES ASSUME NEW q \in Operators, NEW o \in Owners, NEW k \in Keys \ lost,
                      Holds(cache'[q], o, k)
               PROVE  Holds(api, o, k)
    BY <1>2 DEF CacheSaved, Holds, Exists
  <2> QED BY <1>6 DEF IInv, Saved, CacheSaved
<1>10. (SavedCa /\ MemSaved /\ OwnCa /\ OneCa)'
  BY <1>2 DEF IInv, Saved, SavedCa, MemSaved, OwnCa, OneCa, Holds, Exists
<1> QED BY <1>7, <1>8, <1>9, <1>10 DEF IInv, Saved

----------------------------------------------------------------------------
(* The informers and the rest of the cluster.                              *)

LEMMA SyncKeeps ==
    ASSUME IInv, NEW p \in Operators, NEW kind \in {Secrets, {CaMap}}, Sync(p, kind)
    PROVE  IInv'
<1> DEFINE view == [x \in Slots |-> IF x \in kind THEN api[x] ELSE cache[p][x]]
<1>1. /\ cache' = [cache EXCEPT ![p] = view]
      /\ queue' = [queue EXCEPT ![p] = @ \cup Changed(kind, cache[p], api)]
      /\ UNCHANGED <<openshift, live, served, api, lost, up, routes, pc, mem, budget>>
      /\ kind \subseteq Slots
  BY SlotNames DEF Sync, cluster
<1>2. api \in Objects /\ cache[p] \in Objects /\ cache \in [Operators -> Objects]
  BY DEF IInv, TypeOK, Objects
<1>3. view \in Objects /\ \A x \in Slots : view[x] \in {api[x], cache[p][x]}
  BY <1>2 DEF Objects
<1> HIDE DEF view
<1>4. Changed(kind, cache[p], api) \subseteq Owners
  <2>1. \A x \in kind : Hears(x, cache[p]) \subseteq Owners /\ Hears(x, api) \subseteq Owners
    BY <1>1, <1>2, ObjectType DEF Hears
  <2> QED BY <2>1 DEF Changed
<1>5. /\ queue' \in [Operators -> SUBSET Owners] /\ cache' \in [Operators -> Objects]
      /\ cache'[p] = view /\ \A q \in Operators : q # p => cache'[q] = cache[q]
  BY <1>1, <1>2, <1>3, <1>4 DEF IInv, TypeOK
<1>6. TypeOK'
  BY <1>1, <1>5 DEF IInv, TypeOK, Objects
<1>7. Begun'
  BY <1>1 DEF IInv, Begun
<1>8. CacheSaved'
  <2> SUFFICES ASSUME NEW q \in Operators, NEW o \in Owners, NEW k \in Keys \ lost,
                      Holds(cache'[q], o, k)
               PROVE  Holds(api, o, k)
    BY <1>1 DEF CacheSaved, Holds, Exists
  <2>1. Holds(api, o, k) \/ Holds(cache[q], o, k)
    BY <1>3, <1>5, SlotNames DEF Holds, Exists
  <2> QED BY <2>1 DEF IInv, Saved, CacheSaved
<1>9. (SavedCa /\ MemSaved /\ OwnCa /\ OneCa)'
  BY <1>1 DEF IInv, Saved, SavedCa, MemSaved, OwnCa, OneCa, Holds, Exists
<1> QED BY <1>6, <1>7, <1>8, <1>9 DEF IInv, Saved

\* Nothing happens but that requests are queued, resources come, or go.
LEMMA OnlyQueued ==
    ASSUME IInv, UNCHANGED <<openshift, served, api, lost, up, routes, cache, pc, mem>>,
           live \subseteq live', live' \subseteq Owners,
           queue' \in [Operators -> SUBSET Owners], budget' \in Budgets
    PROVE  IInv'
<1>1. TypeOK'
  BY DEF IInv, TypeOK, Budgets
<1>2. Begun'
  BY DEF IInv, Begun
<1>3. Saved'
  BY NothingWritten DEF IInv, Saved, MemSaved
<1> QED BY <1>1, <1>2, <1>3 DEF IInv

LEMMA ResyncKeeps == ASSUME IInv, NEW p \in Operators, Resync(p) PROVE IInv'
<1>1. queue' \in [Operators -> SUBSET Owners] /\ budget' \in Budgets /\ live \subseteq Owners
  BY DEF Resync, IInv, TypeOK, Budgets
<1> QED BY <1>1, OnlyQueued DEF Resync, cluster

\* Others write objects: they make no CA.
LEMMA OthersWrite ==
    ASSUME IInv, NEW objects \in Objects, Commit(objects), Elsewhere,
           UNCHANGED <<live, served, queue>>, budget' \in Budgets,
           \A o \in Owners : Exists(objects, CaSecret(o)) =>
               Exists(api, CaSecret(o)) /\ objects[CaSecret(o)].owner = api[CaSecret(o)].owner,
           \A x \in Slots : Exists(objects, x) /\ objects[x].key \in Keys =>
               /\ Exists(api, x)
               /\ objects[x].key = api[x].key /\ objects[x].owner = api[x].owner
    PROVE  IInv'
<1>1. /\ UNCHANGED <<openshift, live, served, up, routes, cache, queue, pc, mem>>
      /\ api' = objects /\ lost' \subseteq Keys
  BY LostType DEF Elsewhere, Commit
<1>2. TypeOK'
  BY <1>1 DEF IInv, TypeOK, Objects, Budgets
<1>3. Begun'
  BY <1>1 DEF IInv, Begun
<1>4. \A o \in Owners : \A k \in Keys : Holds(objects, o, k) => Holds(api, o, k)
  BY SlotNames DEF Holds
<1>5. \A o, q \in Owners : \A k \in Unused : Holds(objects, o, k) /\ Holds(objects, q, k) => o = q
  BY <1>4 DEF Unused, IInv, Saved, OneCa
<1>6. \A x \in Slots : Exists(objects, x) /\ objects[x].key \in Keys \ lost =>
        Holds(api, objects[x].owner, objects[x].key)
  BY DEF IInv, Saved, SavedCa, Holds
<1>7. \A p \in Operators : mem'[p].key \in Keys \ lost => Holds(api, mem'[p].owner, mem'[p].key)
  BY <1>1 DEF IInv, Saved, MemSaved
<1>8. \A p \in Operators : mem'[p].owner \in Owners
  BY <1>1 DEF IInv, TypeOK, Mem
<1>9. \A o \in Owners : Exists(objects, CaSecret(o)) => objects[CaSecret(o)].owner = o
  BY DEF IInv, Saved, OwnCa
<1>10. Saved'
  BY <1>1, <1>4, <1>5, <1>6, <1>7, <1>8, <1>9, CommitSaves
<1> QED BY <1>2, <1>3, <1>10 DEF IInv

\* An object is written by others: a bundle or a certificate with the CA of
\* the cluster, or a CA secret that cannot be read.
LEMMA OneWritten ==
    ASSUME IInv, NEW x \in Slots, NEW new \in Object, new.key \notin Keys,
           x \in {"ca"} \X Owners => Exists(api, x) /\ new.owner = api[x].owner,
           Commit([api EXCEPT ![x] = new]), Elsewhere,
           UNCHANGED <<live, served, queue>>, budget' \in Budgets
    PROVE  IInv'
<1> DEFINE objects == [api EXCEPT ![x] = new]
<1>1. api \in Objects
  BY DEF IInv, TypeOK, Objects
<1>2. /\ objects \in Objects /\ objects[x] = new
      /\ \A y \in Slots : y # x => objects[y] = api[y]
  BY <1>1 DEF Objects
<1> HIDE DEF objects
<1>3. \A o \in Owners : Exists(objects, CaSecret(o)) =>
        Exists(api, CaSecret(o)) /\ objects[CaSecret(o)].owner = api[CaSecret(o)].owner
  BY <1>2, SlotNames DEF Exists
<1>4. \A y \in Slots : Exists(objects, y) /\ objects[y].key \in Keys =>
        Exists(api, y) /\ objects[y].key = api[y].key /\ objects[y].owner = api[y].owner
  BY <1>2 DEF Exists
<1>5. Commit(objects)
  BY DEF objects
<1> QED BY <1>2, <1>3, <1>4, <1>5, OthersWrite

LEMMA InjectKeeps == ASSUME IInv, Inject PROVE IInv'
<1> DEFINE new == [api[CaMap] EXCEPT !.key = "cluster"]
<1>1. /\ api[CaMap] \in Object /\ CaMap \in Slots /\ api \in Objects
      /\ "cluster" \in Signers \ Keys
  BY SlotNames, ObjectType, KeysAssumption DEF Inject, IInv, TypeOK, Objects, Signers
<1>2. new \in Object /\ new.key \notin Keys
  BY <1>1 DEF Object
<1>3. [api EXCEPT ![CaMap].key = "cluster"] = [api EXCEPT ![CaMap] = new]
  BY <1>1 DEF Objects
<1>4. budget' \in Budgets
  BY DEF Inject, IInv, TypeOK, Budgets
<1> HIDE DEF new
<1> QED BY <1>1, <1>2, <1>3, <1>4, NoCaSlot, OneWritten DEF Inject

LEMMA ServeKeeps ==
    ASSUME IInv, NEW s \in Services, NEW o \in Owners, Serve(s, o) PROVE IInv'
<1> DEFINE new == [key |-> "cluster", owner |-> o, orphan |-> FALSE]
<1>1. "cluster" \in Signers \ Keys
  BY KeysAssumption DEF Signers
<1>2. new \in Object /\ new.key \notin Keys
  BY <1>1 DEF Object
<1>3. budget' \in Budgets
  BY DEF Serve, IInv, TypeOK, Budgets
<1>4. Cert(s, o) \in Slots
  BY SlotNames
<1> QED BY <1>2, <1>3, <1>4, NoCaSlot, OneWritten DEF Serve

\* Objects are removed.
LEMMA Removed ==
    ASSUME IInv, NEW garbage, NEW objects,
           objects = [x \in Slots |-> IF x \in garbage THEN Absent ELSE api[x]],
           Commit(objects), Elsewhere, UNCHANGED <<live, served, queue>>, budget' \in Budgets
    PROVE  IInv'
<1>1. objects \in Objects /\ \A x \in Slots : Exists(objects, x) => objects[x] = api[x]
  BY DEF IInv, TypeOK, Objects, Exists
<1>2. \A o \in Owners : Exists(objects, CaSecret(o)) =>
        Exists(api, CaSecret(o)) /\ objects[CaSecret(o)].owner = api[CaSecret(o)].owner
  BY <1>1, SlotNames DEF Exists
<1>3. \A x \in Slots : Exists(objects, x) /\ objects[x].key \in Keys =>
        Exists(api, x) /\ objects[x].key = api[x].key /\ objects[x].owner = api[x].owner
  BY <1>1 DEF Exists
<1> QED BY <1>1, <1>2, <1>3, OthersWrite

LEMMA CollectGarbageKeeps ==
    ASSUME IInv, NEW batch, CollectGarbage(batch) PROVE IInv'
<1>1. budget' \in Budgets
  BY DEF CollectGarbage, IInv, TypeOK, Budgets
<1> QED BY <1>1, Removed DEF CollectGarbage

LEMMA MeddleKeeps == ASSUME IInv, NEW x \in Slots, Meddle(x) PROVE IInv'
<1>1. /\ Exists(api, x) /\ Elsewhere /\ UNCHANGED <<live, served, queue>>
      /\ budget' \in Budgets /\ api \in Objects
  BY Spending DEF Meddle, Disturbances, IInv, TypeOK, Objects
<1>2. CASE Commit([api EXCEPT ![x] = Absent])
  <2>1. [api EXCEPT ![x] = Absent] = [y \in Slots |-> IF y \in {x} THEN Absent ELSE api[y]]
    BY <1>1 DEF Objects
  <2> QED BY <1>1, <1>2, <2>1, Removed
<1>3. CASE x \in {"ca"} \X Owners /\ Commit([api EXCEPT ![x].key = "unreadable"])
  <2> DEFINE new == [api[x] EXCEPT !.key = "unreadable"]
  <2>1. api[x] \in Object /\ "unreadable" \in Signers \ Keys
    BY <1>1, ObjectType, KeysAssumption DEF Signers
  <2>2. new \in Object /\ new.key \notin Keys /\ new.owner = api[x].owner
    BY <2>1 DEF Object
  <2>3. [api EXCEPT ![x].key = "unreadable"] = [api EXCEPT ![x] = new]
    BY <1>1 DEF Objects
  <2> HIDE DEF new
  <2> QED BY <1>1, <1>3, <2>2, <2>3, OneWritten
<1> QED BY <1>2, <1>3 DEF Meddle

\* Requests for o are queued wherever the operator runs.
LEMMA QueueType == ASSUME IInv, NEW o \in Owners PROVE Queue(o) \in [Operators -> SUBSET Owners]
BY DEF IInv, TypeOK, Queue

LEMMA CreateHorreumKeeps == ASSUME IInv, NEW o \in Owners, CreateHorreum(o) PROVE IInv'
<1>1. /\ queue' \in [Operators -> SUBSET Owners] /\ budget' \in Budgets
      /\ live \subseteq live' /\ live' \subseteq Owners
  BY QueueType, Spending DEF CreateHorreum, Disturbances, IInv, TypeOK
<1> QED BY <1>1, OnlyQueued DEF CreateHorreum

\* A resource that goes leaves its objects as they are, but for the owner.
LEMMA DeleteHorreumKeeps == ASSUME IInv, NEW o \in Owners, DeleteHorreum(o) PROVE IInv'
<1> DEFINE gone(p) == IF pc[p] # "idle" /\ mem[p].owner = o
                      THEN [mem[p] EXCEPT !.orphan = TRUE] ELSE mem[p]
<1>1. /\ live' = live \ {o} /\ served' = served \ {o}
      /\ api' = Orphaned(api, o)
      /\ cache' = [p \in Operators |-> Orphaned(cache[p], o)]
      /\ mem' = [p \in Operators |-> gone(p)]
      /\ queue' = Queue(o) /\ UNCHANGED <<openshift, lost, up, routes, pc>>
      /\ budget' \in Budgets
  BY Spending DEF DeleteHorreum, Disturbances
<1>2. api \in Objects /\ \A p \in Operators : cache[p] \in Objects
  BY DEF IInv, TypeOK, Objects
<1>3. \A p \in Operators :
        /\ gone(p) \in Mem /\ gone(p).owner = mem[p].owner /\ gone(p).key = mem[p].key
        /\ pc[p] = "idle" => gone(p) = mem[p]
        /\ pc[p] # "idle" /\ mem[p].owner = o => gone(p).orphan
        /\ mem[p].owner # o => gone(p) = mem[p]
  BY DEF IInv, TypeOK, Mem
<1> HIDE DEF gone
<1>4. \A x \in Slots : /\ Exists(api', x) <=> Exists(api, x)
                       /\ Exists(api, x) => /\ api'[x].key = api[x].key
                                            /\ api'[x].owner = api[x].owner
  BY <1>1, <1>2, ViewType
<1>5. \A q \in Owners, k \in Keys : Holds(api', q, k) <=> Holds(api, q, k)
  BY <1>4, SlotNames DEF Holds
<1>6. \A p \in Operators, q \in Owners, k \in Keys : Holds(cache'[p], q, k) <=> Holds(cache[p], q, k)
  <2> SUFFICES ASSUME NEW p \in Operators, NEW q \in Owners, NEW k \in Keys
               PROVE  Holds(cache'[p], q, k) <=> Holds(cache[p], q, k)
    OBVIOUS
  <2>1. cache'[p] = Orphaned(cache[p], o) /\ CaSecret(q) \in Slots
    BY <1>1, SlotNames
  <2> QED BY <1>2, <2>1, ViewType DEF Holds
<1>7. TypeOK'
  <2>1. api' \in Objects /\ cache' \in [Operators -> Objects]
    BY <1>1, <1>2, ViewType
  <2>2. mem' \in [Operators -> Mem] /\ \A p \in Operators : pc'[p] = "idle" => mem'[p] = Idle
    BY <1>1, <1>3 DEF IInv, TypeOK
  <2>3. queue' \in [Operators -> SUBSET Owners]
    BY <1>1, QueueType
  <2> QED BY <1>1, <2>1, <2>2, <2>3 DEF IInv, TypeOK, Objects, Budgets
<1>8. Begun'
  <2> SUFFICES ASSUME NEW p \in Operators, pc[p] # "idle", ~gone(p).orphan
               PROVE  gone(p).owner \in live \ {o}
    BY <1>1 DEF Begun
  <2>1. mem[p].owner # o /\ gone(p) = mem[p]
    BY <1>3
  <2> QED BY <2>1 DEF IInv, Begun
<1>9. SavedCa'
  <2> SUFFICES ASSUME NEW x \in Slots, Exists(api', x), api'[x].key \in Keys \ lost
               PROVE  Holds(api', api'[x].owner, api'[x].key)
    BY <1>1 DEF SavedCa, Holds, Exists
  <2>1. Exists(api, x) /\ api'[x].key = api[x].key /\ api'[x].owner = api[x].owner
    BY <1>4
  <2>2. Holds(api, api[x].owner, api[x].key) /\ api[x].owner \in Owners
    BY <1>2, <2>1, ObjectType DEF IInv, Saved, SavedCa, Holds
  <2> QED BY <1>5, <2>1, <2>2
<1>10. CacheSaved'
  <2> SUFFICES ASSUME NEW p \in Operators, NEW q \in Owners, NEW k \in Keys \ lost,
                      Holds(cache'[p], q, k)
               PROVE  Holds(api', q, k)
    BY <1>1 DEF CacheSaved, Holds, Exists
  <2> QED BY <1>5, <1>6 DEF IInv, Saved, CacheSaved
<1>11. MemSaved'
  <2> SUFFICES ASSUME NEW p \in Operators, mem'[p].key \in Keys \ lost
               PROVE  Holds(api', mem'[p].owner, mem'[p].key)
    BY <1>1 DEF MemSaved, Holds, Exists
  <2>1. mem'[p].owner = mem[p].owner /\ mem'[p].key = mem[p].key /\ mem[p].owner \in Owners
    BY <1>1, <1>3 DEF IInv, TypeOK, Mem
  <2> QED BY <1>5, <2>1 DEF IInv, Saved, MemSaved
<1>12. OwnCa'
  <2> SUFFICES ASSUME NEW q \in Owners, Exists(api', CaSecret(q))
               PROVE  api'[CaSecret(q)].owner = q
    BY DEF OwnCa, Exists
  <2> QED BY <1>4, SlotNames DEF IInv, Saved, OwnCa
<1>13. OneCa'
  <2> SUFFICES ASSUME NEW q \in Owners, NEW r \in Owners, NEW k \in Keys,
                      Holds(api', q, k), Holds(api', r, k)
               PROVE  q = r
    BY DEF OneCa, Holds, Exists
  <2> QED BY <1>5 DEF IInv, Saved, OneCa
<1> QED BY <1>7, <1>8, <1>9, <1>10, <1>11, <1>12, <1>13 DEF IInv, Saved

----------------------------------------------------------------------------
(* The theorems.                                                           *)

\* In the beginning there are no objects.
LEMMA InitKeeps == ASSUME Init PROVE IInv
<1>1. /\ live = Early /\ served = {} /\ lost = {}
      /\ api = [x \in Slots |-> Absent] /\ cache = [p \in Operators |-> api]
      /\ up = [p \in Operators |-> FALSE] /\ routes = [p \in Operators |-> FALSE]
      /\ queue = [p \in Operators |-> {}]
      /\ pc = [p \in Operators |-> "idle"] /\ mem = [p \in Operators |-> Idle]
  BY DEF Init
<1>2. openshift \in BOOLEAN /\ budget \in [Disturbances -> Nat]
  BY ScenariosAssumption DEF Init
<1>3. TypeOK
  BY <1>1, <1>2, IdleType, OwnersAssumption DEF TypeOK, Calls
<1>4. Begun
  BY <1>1 DEF Begun
<1>5. \A x \in Slots : ~Exists(api, x) /\ \A p \in Operators : ~Exists(cache[p], x)
  BY <1>1 DEF Exists
<1>6. Saved
  BY <1>1, <1>5, IdleType, SlotNames
     DEF Saved, SavedCa, CacheSaved, MemSaved, OwnCa, OneCa, Holds
<1> QED BY <1>3, <1>4, <1>6 DEF IInv

\* Every step keeps the invariant.
LEMMA NextKeeps == ASSUME IInv, [Next]_vars PROVE IInv'
<1>1. CASE UNCHANGED vars
  <2>1. /\ queue' \in [Operators -> SUBSET Owners] /\ budget' \in Budgets
        /\ live \subseteq live' /\ live' \subseteq Owners
    BY <1>1 DEF vars, cluster, IInv, TypeOK, Budgets
  <2> QED BY <1>1, <2>1, OnlyQueued DEF vars, cluster
<1>2. ASSUME NEW p \in Operators, Operator(p) PROVE IInv'
  BY <1>2, BeginKeeps, StartKeeps, GetFailsKeeps, InjectedKeeps, CreateCaKeeps,
     CreateCaMapKeeps, FinishKeeps, CreateServiceCertKeeps
     DEF Operator, Step
<1>3. ASSUME NEW p \in Operators, Informer(p) PROVE IInv'
  BY <1>3, SyncKeeps, ResyncKeeps DEF Informer
<1>4. CASE Cluster
  BY <1>4, InjectKeeps, CollectGarbageKeeps, ServeKeeps DEF Cluster
<1>5. CASE Trouble
  BY <1>5, CrashKeeps, MeddleKeeps, DeleteHorreumKeeps, CreateHorreumKeeps DEF Trouble
<1> QED BY <1>1, <1>2, <1>3, <1>4, <1>5 DEF Next

\* Every variable has its type, and no pass leaves a CA behind for the next.
THEOREM TypeCorrect == Spec => []TypeOK
<1>1. IInv => TypeOK
  BY DEF IInv
<1> QED BY <1>1, InitKeeps, NextKeeps, PTL DEF Spec

\* createCA saves a CA before createServiceCert signs with it: with any number
\* of operator processes, resources, stale caches, failing calls and crashes,
\* no object is signed by a CA that its resource does not have.
THEOREM NothingUnsaved == Spec => []SavedCa
<1>1. IInv => SavedCa
  BY DEF IInv, Saved
<1> QED BY <1>1, InitKeeps, NextKeeps, PTL DEF Spec

\* Nor does a pass or a cache hold such a CA, and each resource has its own:
\* what a process reads late never makes it sign with the CA of another.
THEOREM PassesUseSavedCas == Spec => [](CacheSaved /\ MemSaved /\ OwnCa /\ OneCa)
<1>1. IInv => CacheSaved /\ MemSaved /\ OwnCa /\ OneCa
  BY DEF IInv, Saved
<1> QED BY <1>1, InitKeeps, NextKeeps, PTL DEF Spec

=============================================================================
