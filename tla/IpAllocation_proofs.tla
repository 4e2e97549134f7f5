------------------------ MODULE IpAllocation_proofs -------------------------
(***************************************************************************)
(* IpAllocation hands out clean addresses exclusively, for every number of *)
(* requests, addresses and pools and every bound: the inductive invariant  *)
(* IInv, and what follows from it.                                         *)
(***************************************************************************)
EXTENDS IpAllocation, TLAPS

-----------------------------------------------------------------------------
(* The inductive invariant.                                                 *)

\* Request r holds an address in the newest object and may still get it
\* stored in time.
Claims(r) ==
  /\ phase[r] = "taken" /\ ref[r] = rv
  /\ now <= stamp[r] + PersistWithin

Active(r) == Occupies(r) \/ Claims(r)

\* Object o keeps others from the address of r: as long as the reconciler
\* cannot see the pod the address is stamped, and it is not listed as free.
Guards(o, r) ==
  /\ seen[r] = "no" => o.pending[ip[r]] # Absent /\ o.pending[ip[r]] >= stamp[r]
  /\ ~o.raw => ip[r] \notin o.free[PoolOf[r]]

\* Where requests and the reconciler point, and which locals are set.
Control ==
  /\ \A r \in Req : ref[r] <= cached
  /\ rc.ref <= cached
  /\ \A r \in Req : phase[r] \in {"taken", "granted", "bound", "gone"}
                      => ip[r] \in IpPools[PoolOf[r]]
  /\ \A r \in Req : seen[r] = "yes" => phase[r] \in {"bound", "gone"}

\* Free lists stay inside the pools of the spec.
InPools ==
  /\ \A p \in Pool : stored.free[p] \subseteq IpPools[p]
  /\ \A v \in Version : \A p \in Pool : heap[v].free[p] \subseteq IpPools[p]

\* An unseen pod is younger than the time that expires its stamp.
Timing ==
  \A r \in Req :
    /\ stamp[r] <= now
    /\ phase[r] \in {"bound", "gone"} /\ seen[r] = "no" =>
         born[r] <= stamp[r] + PersistWithin /\ now <= born[r] + CacheLag

\* Between reset and recompute, removed children have no free list.
ResetDropsRemoved ==
  rc.at = "reset" =>
    \A p \in Pool \ heap[rc.ref].spec : heap[rc.ref].free[p] = {}

\* A request that had to make the PendingIPs map holds a tainted address.
NewMapTaints ==
  \A r \in Req :
    phase[r] = "taken" /\ ~heap[ref[r]].made => ip[r] \in tainted

Exclusive ==
  \A r, q \in Req :
    r # q /\ Active(r) /\ Active(q) /\ ip[r] = ip[q] => ip[r] \in tainted

StoredGuards ==
  \A r \in Req : Occupies(r) /\ ip[r] \notin tainted => Guards(stored, r)

HeapGuards ==
  cached = rv =>
    \A r \in Req : Active(r) /\ ip[r] \notin tainted => Guards(heap[rv], r)

\* No object in memory or in store lists an address as free and pending.
Disjoint(o) ==
  ~o.raw => \A p \in Pool : \A a \in o.free[p] : o.pending[a] # Absent => a \in tainted

ObjectsDisjoint == Disjoint(stored) /\ \A v \in Version : Disjoint(heap[v])

IInv ==
  /\ TypeOK /\ Control /\ InPools /\ Timing /\ ResetDropsRemoved
  /\ NewMapTaints /\ ObjectsDisjoint
  /\ Exclusive /\ StoredGuards /\ HeapGuards

-----------------------------------------------------------------------------
(* Types.                                                                   *)

USE DEF Time, Version, Absent

LEMMA ObjectType ==
  ASSUME NEW s \in SUBSET Pool, NEW f \in [Pool -> SUBSET IP],
         NEW p \in [IP -> Time \cup {Absent}],
         NEW m \in BOOLEAN, NEW w \in BOOLEAN
  PROVE  Object(s, f, p, m, w) \in Status
  BY DEF Object, Status

\* Every field of an object has its type.
LEMMA StatusFields ==
  ASSUME NEW o \in Status
  PROVE  /\ o.spec \in SUBSET Pool
         /\ o.free \in [Pool -> SUBSET IP]
         /\ o.pending \in [IP -> Time \cup {Absent}]
         /\ o.made \in BOOLEAN
         /\ o.raw \in BOOLEAN
  BY DEF Status

LEMMA UnusedType ==
  ASSUME NEW made \in BOOLEAN
  PROVE  /\ Unused(made) \in Status
         /\ Unused(made).free = IpPools
         /\ Unused(made).pending = [a \in IP |-> Absent]
  BY PoolAssumption, ObjectType DEF Unused, Object

LEMMA FreshType == Fresh \in Status
  BY UnusedType DEF Fresh

LEMMA InitObjects ==
  ASSUME Init
  PROVE  \E made \in BOOLEAN :
           /\ stored = Unused(made)
           /\ \A v \in Version : heap[v] = Unused(made) \/ heap[v] = Fresh
  BY DEF Init

LEMMA TakenType ==
  ASSUME NEW o \in Status, NEW p \in Pool, NEW a \in IP, now \in Time
  PROVE  Taken(o, p, a) \in Status
<1>1. [o.free EXCEPT ![p] = o.free[p] \ {a}] \in [Pool -> SUBSET IP]
  BY StatusFields
<1>2. (IF o.made THEN [o.pending EXCEPT ![a] = now] ELSE o.pending)
        \in [IP -> Time \cup {Absent}]
  BY StatusFields
<1> QED BY <1>1, <1>2, StatusFields, ObjectType DEF Taken

LEMMA SentType ==
  ASSUME TypeOK, NEW r \in Req, phase[r] = "taken", ip[r] \in IP
  PROVE  Sent(r) \in Status
<1>1. heap[ref[r]] \in Status /\ stamp[r] \in Time
  BY DEF TypeOK
<1>2. [heap[ref[r]].pending EXCEPT ![ip[r]] = stamp[r]] \in [IP -> Time \cup {Absent}]
  BY <1>1, StatusFields
<1> QED BY <1>1, <1>2, StatusFields, ObjectType DEF Sent

LEMMA WholePoolsType ==
  ASSUME NEW o \in Status
  PROVE  WholePools(o) \in Status
  BY PoolAssumption, StatusFields, ObjectType DEF WholePools

LEMMA RemainingType ==
  ASSUME NEW o \in Status
  PROVE  Remaining(o) \in Status
<1>1. Pruned(o) \in [IP -> Time \cup {Absent}]
  BY StatusFields DEF Pruned
<1>2. [p \in Pool |-> {a \in o.free[p] :
         Pruned(o)[a] = Absent /\ a \notin PodIPs(o.spec)}] \in [Pool -> SUBSET IP]
  BY StatusFields
<1> QED BY <1>1, <1>2, StatusFields, ObjectType DEF Remaining

\* An update moves to a legal version.
LEMMA StoreType ==
  ASSUME TypeOK, NEW o \in Status, Store(o)
  PROVE  /\ stored' \in Status
         /\ rv' \in Version
         /\ rv' = rv \/ rv' = rv + 1
         /\ cached <= rv'
  BY TimeAssumption DEF TypeOK, Store

LEMMA InitType == Init => TypeOK
<1> SUFFICES ASSUME Init PROVE TypeOK
  OBVIOUS
<1>1. stored \in Status
  BY UnusedType, InitObjects
<1>2. heap \in [Version -> Status]
  BY <1>1, FreshType DEF Init
<1> QED BY <1>1, <1>2, PoolAssumption, TimeAssumption DEF Init, TypeOK, Idle, Phases

LEMMA OfferedType ==
  ASSUME TypeOK, NEW r \in Req, NEW a \in Offered(r)
  PROVE  heap[cached] \in Status /\ a \in heap[cached].free[PoolOf[r]] /\ a \in IP
<1>1. PoolOf[r] \in Pool /\ heap[cached] \in Status
  BY PoolAssumption DEF TypeOK
<1>2. heap[cached].free \in [Pool -> SUBSET IP]
  BY <1>1, StatusFields
<1>3. a \in heap[cached].free[PoolOf[r]]
  BY DEF Offered
<1> QED BY <1>1, <1>2, <1>3

\* Actions of admission requests and pods.
LEMMA RequestType ==
  ASSUME TypeOK, Control, InPools, NEW r \in Req, Webhook(r) \/ Pod(r)
  PROVE  TypeOK'
<1> USE DEF requestVars, podVars
<1>0. IpPools[PoolOf[r]] \subseteq IP /\ PoolOf[r] \in Pool
  BY PoolAssumption
<1>1. ASSUME Close(r), UNCHANGED <<now, rv, stored, cached, heap, rc, tainted>>,
             seen' \in [Req -> {"no", "yes"}], born' \in [Req -> Time],
             lease' \in [by : Req \cup {NoReq}, until : 0 .. MaxTime + LeaseTTL]
      PROVE  TypeOK'
  BY <1>1, TimeAssumption DEF TypeOK, Close, Phases
<1>2. CASE Lock(r)
  BY <1>2, TimeAssumption DEF TypeOK, Lock, Phases
<1>3. CASE Refuse(r)
  BY <1>1, <1>3 DEF TypeOK, Refuse
<1>4. CASE Take(r)
  <2>1. PICK a \in Offered(r) :
          /\ heap' = [heap EXCEPT ![cached] = Taken(heap[cached], PoolOf[r], a)]
          /\ ip' = [ip EXCEPT ![r] = a]
          /\ tainted' = IF heap[cached].raw \/ ~heap[cached].made
                        THEN tainted \cup {a} ELSE tainted
    BY <1>4 DEF Take
  <2>2. heap[cached] \in Status /\ a \in IP
    BY <1>0, OfferedType
  <2>3. heap' \in [Version -> Status]
    BY <2>1, <2>2, <1>0, TakenType DEF TypeOK
  <2> QED BY <1>4, <2>1, <2>2, <2>3 DEF TypeOK, Take, Phases
<1>5. CASE TakeDry(r)
  <2>1. PICK a \in Offered(r) :
          heap' = [heap EXCEPT ![cached] = Taken(heap[cached], PoolOf[r], a)]
    BY <1>5 DEF TakeDry
  <2>2. heap[cached] \in Status /\ a \in IP
    BY <1>0, OfferedType
  <2>3. heap' \in [Version -> Status]
    BY <2>1, <2>2, <1>0, TakenType DEF TypeOK
  <2> QED BY <1>5, <2>3, TimeAssumption DEF TypeOK, TakeDry, Close, Phases
<1>6. CASE Grant(r)
  <2>1. Sent(r) \in Status
    BY <1>0, <1>6, SentType DEF Grant, Control
  <2>2. Store(Sent(r))
    BY <1>6 DEF Grant
  <2>3. stored' \in Status /\ rv' \in Version /\ cached <= rv'
    BY <2>1, <2>2, StoreType
  <2> QED BY <1>6, <2>3, TimeAssumption DEF TypeOK, Grant, Phases
<1>7. CASE Fail(r)
  <2>1. Sent(r) \in Status
    BY <1>0, <1>7, SentType DEF Fail, Control
  <2>2. stored' \in Status /\ rv' \in Version /\ cached <= rv'
    BY <1>7, <2>1, StoreType DEF TypeOK, Fail
  <2> QED BY <1>7, <2>2, TimeAssumption DEF TypeOK, Fail, Close, Phases
<1>8. CASE Persist(r)
  BY <1>8 DEF TypeOK, Persist, Phases
<1>9. CASE Drop(r)
  BY <1>1, <1>9 DEF TypeOK, Drop
<1>10. CASE Delete(r)
  BY <1>10 DEF TypeOK, Delete, Phases
<1>11. CASE Show(r)
  BY <1>11, TimeAssumption DEF TypeOK, Show, Phases
<1>12. CASE Forget(r)
  BY <1>1, <1>12, TimeAssumption DEF TypeOK, Forget
<1> QED BY <1>2, <1>3, <1>4, <1>5, <1>6, <1>7, <1>8, <1>9, <1>10, <1>11, <1>12
        DEF Webhook, Pod

\* Actions of the reconciler, the caches, other writers and the clock.
LEMMA SystemType ==
  ASSUME TypeOK, [Next]_vars, ~ \E r \in Req : Webhook(r) \/ Pod(r)
  PROVE  TypeOK'
<1> USE DEF requestVars, podVars
<1>0. heap[cached] \in Status /\ heap[rc.ref] \in Status /\ stored \in Status
  BY DEF TypeOK
<1>1. CASE Deliver
  BY <1>1, FreshType DEF TypeOK, Deliver
<1>2. CASE Reset
  BY <1>2, <1>0, WholePoolsType DEF TypeOK, Reset
<1>3. CASE Recompute
  BY <1>3, <1>0, RemainingType DEF TypeOK, Recompute
<1>4. CASE Save
  <2>1. stored' \in Status /\ rv' \in Version /\ cached <= rv'
    BY <1>4, <1>0, StoreType DEF Save
  <2> QED BY <1>4, <2>1, TimeAssumption DEF TypeOK, Save, Idle
<1>5. CASE Abort
  BY <1>5, TimeAssumption DEF TypeOK, Abort, Idle
<1>6. CASE OperatorWrite
  BY <1>6, <1>0, TimeAssumption DEF TypeOK, OperatorWrite
<1>7. CASE MonitorWrite
  BY <1>7, TimeAssumption DEF TypeOK, MonitorWrite
<1>8. ASSUME NEW s \in SUBSET Pool, EditSpec(s)
      PROVE  TypeOK'
  <2>1. stored' \in Status
    BY <1>8, <1>0, StatusFields, ObjectType DEF EditSpec
  <2> QED BY <1>8, <2>1, TimeAssumption DEF TypeOK, EditSpec
<1>9. CASE Restart
  <2>1. heap' \in [Version -> Status]
    BY <1>9, <1>0, FreshType DEF Restart
  <2>2. /\ phase' \in [Req -> Phases] /\ ref' \in [Req -> Version]
        /\ ip' \in [Req -> IP \cup {NoIP}] /\ stamp' \in [Req -> Time]
    BY <1>9, TimeAssumption DEF TypeOK, Restart, Phases
  <2>3. /\ born' \in [Req -> Time] /\ seen' \in [Req -> {"no", "yes"}]
        /\ rc' \in [at : {"idle", "reset", "listed"}, ref : Version]
    BY <1>9, TimeAssumption DEF TypeOK, Restart, Idle
  <2>4. cached' \in Version /\ rv' \in Version /\ cached' <= rv'
    BY <1>9, TimeAssumption DEF TypeOK, Restart
  <2> QED BY <1>9, <2>1, <2>2, <2>3, <2>4 DEF TypeOK, Restart
<1>10. CASE Tick
  BY <1>10, TimeAssumption DEF TypeOK, Tick
<1>11. CASE UNCHANGED vars
  BY <1>11 DEF TypeOK, vars
<1> QED BY <1>1, <1>2, <1>3, <1>4, <1>5, <1>6, <1>7, <1>8, <1>9, <1>10, <1>11
        DEF Next, Reconciler

-----------------------------------------------------------------------------
(* Control, timing and the extent of free lists.                            *)

LEMMA ControlStep ==
  ASSUME TypeOK, Control, InPools, [Next]_vars
  PROVE  Control'
<1> USE TimeAssumption DEF TypeOK, Control, requestVars, podVars
<1>1. ASSUME NEW r \in Req, Webhook(r)
      PROVE  Control'
  <2>1. CASE Lock(r)      BY <2>1 DEF Lock
  <2>2. CASE Refuse(r)    BY <2>2 DEF Refuse, Close
  <2>3. CASE Take(r)
    <3>1. PICK a \in Offered(r) : ip' = [ip EXCEPT ![r] = a]
      BY <2>3 DEF Take
    <3>2. a \in IpPools[PoolOf[r]]
      BY <3>1, OfferedType, PoolAssumption DEF InPools
    <3> QED BY <2>3, <3>1, <3>2 DEF Take
  <2>4. CASE TakeDry(r)   BY <2>4 DEF TakeDry, Close
  <2>5. CASE Grant(r)     BY <2>5 DEF Grant
  <2>6. CASE Fail(r)      BY <2>6 DEF Fail, Close
  <2> QED BY <1>1, <2>1, <2>2, <2>3, <2>4, <2>5, <2>6 DEF Webhook
<1>2. ASSUME NEW r \in Req, Pod(r)
      PROVE  Control'
  <2>1. CASE Persist(r)   BY <2>1 DEF Persist
  <2>2. CASE Drop(r)      BY <2>2 DEF Drop, Close
  <2>3. CASE Delete(r)    BY <2>3 DEF Delete
  <2>4. CASE Show(r)      BY <2>4 DEF Show
  <2>5. CASE Forget(r)    BY <2>5 DEF Forget, Close
  <2> QED BY <1>2, <2>1, <2>2, <2>3, <2>4, <2>5 DEF Pod
<1>3. CASE Deliver        BY <1>3 DEF Deliver
<1>4. CASE Reconciler
  BY <1>4 DEF Reconciler, Reset, Recompute, Save, Abort, OperatorWrite, Idle
<1>5. CASE Restart        BY <1>5 DEF Restart, Idle
<1>6. CASE MonitorWrite \/ Tick \/ \E s \in SUBSET Pool : EditSpec(s)
  BY <1>6 DEF MonitorWrite, Tick, EditSpec
<1>7. CASE UNCHANGED vars BY <1>7 DEF vars
<1> QED BY <1>1, <1>2, <1>3, <1>4, <1>5, <1>6, <1>7 DEF Next

LEMMA TimingStep ==
  ASSUME TypeOK, Control, Timing, [Next]_vars
  PROVE  Timing'
<1> USE TimeAssumption DEF TypeOK, Control, Timing, requestVars, podVars
<1>1. ASSUME NEW r \in Req, Webhook(r)
      PROVE  Timing'
  <2>1. CASE Lock(r)      BY <2>1 DEF Lock
  <2>2. CASE Refuse(r)    BY <2>2 DEF Refuse, Close
  <2>3. CASE Take(r)      BY <2>3 DEF Take
  <2>4. CASE TakeDry(r)   BY <2>4 DEF TakeDry, Close
  <2>5. CASE Grant(r)     BY <2>5 DEF Grant
  <2>6. CASE Fail(r)      BY <2>6 DEF Fail, Close
  <2> QED BY <1>1, <2>1, <2>2, <2>3, <2>4, <2>5, <2>6 DEF Webhook
<1>2. ASSUME NEW r \in Req, Pod(r)
      PROVE  Timing'
  <2>1. CASE Persist(r)   BY <2>1 DEF Persist
  <2>2. CASE Drop(r)      BY <2>2 DEF Drop, Close
  <2>3. CASE Delete(r)    BY <2>3 DEF Delete
  <2>4. CASE Show(r)      BY <2>4 DEF Show
  <2>5. CASE Forget(r)    BY <2>5 DEF Forget, Close
  <2> QED BY <1>2, <2>1, <2>2, <2>3, <2>4, <2>5 DEF Pod
<1>3. CASE Reconciler \/ Deliver \/ MonitorWrite
  BY <1>3 DEF Reconciler, Reset, Recompute, Save, Abort, OperatorWrite, Deliver,
              MonitorWrite
<1>4. CASE Restart        BY <1>4 DEF Restart
<1>5. CASE Tick           BY <1>5 DEF Tick
<1>6. CASE \E s \in SUBSET Pool : EditSpec(s)
  BY <1>6 DEF EditSpec
<1>7. CASE UNCHANGED vars BY <1>7 DEF vars
<1> QED BY <1>1, <1>2, <1>3, <1>4, <1>5, <1>6, <1>7 DEF Next

\* Of a taken object, free lists and stamps, one address at a time.
LEMMA TakenEffect ==
  ASSUME NEW o \in Status, NEW p \in Pool, NEW a \in IP, now \in Time
  PROVE  /\ Taken(o, p, a).spec = o.spec
         /\ Taken(o, p, a).made = o.made
         /\ Taken(o, p, a).raw = o.raw
         /\ \A q \in Pool : Taken(o, p, a).free[q] \subseteq o.free[q]
         /\ a \notin Taken(o, p, a).free[p]
         /\ \A b \in IP : Taken(o, p, a).pending[b] =
              IF o.made /\ b = a THEN now ELSE o.pending[b]
  BY StatusFields DEF Taken, Object

LEMMA WholePoolsEffect ==
  ASSUME NEW o \in Status
  PROVE  /\ WholePools(o).spec = o.spec
         /\ WholePools(o).pending = o.pending
         /\ WholePools(o).raw = TRUE
         /\ \A p \in Pool : WholePools(o).free[p] \subseteq IpPools[p]
         /\ \A p \in Pool \ o.spec : WholePools(o).free[p] = {}
  BY DEF WholePools, Object

LEMMA RemainingEffect ==
  ASSUME NEW o \in Status
  PROVE  /\ Remaining(o).spec = o.spec
         /\ Remaining(o).pending = Pruned(o)
         /\ \A p \in Pool : Remaining(o).free[p] = {a \in o.free[p] :
              Pruned(o)[a] = Absent /\ a \notin PodIPs(o.spec)}
  BY DEF Remaining, Object

LEMMA SentEffect ==
  ASSUME TypeOK, NEW r \in Req, ip[r] \in IP
  PROVE  /\ Sent(r).free = heap[ref[r]].free
         /\ Sent(r).raw = heap[ref[r]].raw
         /\ \A b \in IP :
              \/ Sent(r).pending[b] = heap[ref[r]].pending[b]
              \/ b = ip[r] /\ ~heap[ref[r]].made
<1>1. heap[ref[r]] \in Status
  BY DEF TypeOK
<1>2. CASE heap[ref[r]].made
  <2>1. Sent(r) = heap[ref[r]]
    BY <1>2 DEF Sent
  <2> QED BY <2>1
<1>3. CASE ~heap[ref[r]].made
  <2>1. heap[ref[r]].pending \in [IP -> Time \cup {Absent}]
    BY <1>1, StatusFields
  <2>2. Sent(r) = Object(heap[ref[r]].spec, heap[ref[r]].free,
                         [heap[ref[r]].pending EXCEPT ![ip[r]] = stamp[r]],
                         TRUE, heap[ref[r]].raw)
    BY <1>3 DEF Sent
  <2> QED BY <1>3, <2>1, <2>2 DEF Object
<1> QED BY <1>2, <1>3

\* Rewriting one version of the heap within the pools keeps InPools.
LEMMA HeapInPools ==
  ASSUME TypeOK, InPools, NEW v \in Version, NEW o,
         \A p \in Pool : o.free[p] \subseteq IpPools[p],
         heap' = [heap EXCEPT ![v] = o], UNCHANGED stored
  PROVE  InPools'
  BY DEF TypeOK, InPools

LEMMA InPoolsStep ==
  ASSUME TypeOK, Control, InPools, [Next]_vars
  PROVE  InPools'
<1>0. heap[cached] \in Status /\ heap[rc.ref] \in Status /\ stored \in Status
      /\ cached \in Version /\ rc.ref \in Version
  BY DEF TypeOK
<1>1. ASSUME NEW r \in Req, Take(r) \/ TakeDry(r)
      PROVE  InPools'
  <2>1. PICK a \in Offered(r) :
          heap' = [heap EXCEPT ![cached] = Taken(heap[cached], PoolOf[r], a)]
    BY <1>1 DEF Take, TakeDry
  <2>2. a \in IP /\ PoolOf[r] \in Pool /\ now \in Time
    BY OfferedType, PoolAssumption DEF TypeOK
  <2>3. \A p \in Pool : Taken(heap[cached], PoolOf[r], a).free[p] \subseteq heap[cached].free[p]
    BY <1>0, <2>2, TakenEffect
  <2>4. UNCHANGED stored
    BY <1>1 DEF Take, TakeDry
  <2> QED BY <1>0, <2>1, <2>3, <2>4, HeapInPools DEF InPools
<1>2. ASSUME NEW r \in Req, Grant(r) \/ Fail(r)
      PROVE  InPools'
  <2>1. ip[r] \in IP
    BY <1>2, PoolAssumption DEF Grant, Fail, Control
  <2>2. ref[r] \in Version
    BY DEF TypeOK
  <2>3. \A p \in Pool : Sent(r).free[p] \subseteq IpPools[p]
    BY <2>1, <2>2, SentEffect DEF InPools
  <2> QED BY <1>2, <2>3 DEF Grant, Fail, Store, InPools
<1>3. ASSUME NEW r \in Req, Lock(r) \/ Refuse(r) \/ Pod(r)
      PROVE  InPools'
  BY <1>3 DEF InPools, Lock, Refuse, Pod, Persist, Drop, Delete, Show, Forget
<1>4. CASE Reset
  BY <1>0, <1>4, WholePoolsEffect, HeapInPools DEF Reset
<1>5. CASE Recompute
  <2>1. \A p \in Pool : Remaining(heap[rc.ref]).free[p] \subseteq heap[rc.ref].free[p]
    BY <1>0, RemainingEffect
  <2> QED BY <1>0, <1>5, <2>1, HeapInPools DEF Recompute, InPools
<1>6. CASE Save \/ Abort \/ OperatorWrite \/ MonitorWrite \/ Tick \/ UNCHANGED vars
  BY <1>0, <1>6 DEF InPools, Save, Store, Abort, OperatorWrite, MonitorWrite, Tick, vars
<1>7. Fresh.free = IpPools
  BY UnusedType DEF Fresh
<1>8. CASE Deliver \/ Restart
  BY <1>7, <1>8 DEF InPools, Deliver, Restart
<1>9. ASSUME NEW s \in SUBSET Pool, EditSpec(s)
      PROVE  InPools'
  <2>1. stored'.free = stored.free
    BY <1>9 DEF EditSpec, Object
  <2> QED BY <1>9, <2>1 DEF EditSpec, InPools
<1> QED BY <1>1, <1>2, <1>3, <1>4, <1>5, <1>6, <1>8, <1>9
        DEF Next, Webhook, Reconciler

LEMMA ResetDropsRemovedStep ==
  ASSUME TypeOK, Control, ResetDropsRemoved, [Next]_vars
  PROVE  ResetDropsRemoved'
<1> USE DEF ResetDropsRemoved
<1>0. heap[cached] \in Status /\ cached \in Version /\ rc.ref \in Version
  BY DEF TypeOK
<1>1. ASSUME NEW r \in Req, Take(r) \/ TakeDry(r)
      PROVE  ResetDropsRemoved'
  <2>1. PICK a \in Offered(r) :
          heap' = [heap EXCEPT ![cached] = Taken(heap[cached], PoolOf[r], a)]
    BY <1>1 DEF Take, TakeDry
  <2>2. a \in IP /\ PoolOf[r] \in Pool /\ now \in Time
    BY OfferedType, PoolAssumption DEF TypeOK
  <2>3. /\ Taken(heap[cached], PoolOf[r], a).spec = heap[cached].spec
        /\ \A p \in Pool : Taken(heap[cached], PoolOf[r], a).free[p] \subseteq heap[cached].free[p]
    BY <1>0, <2>2, TakenEffect
  <2>4. UNCHANGED rc
    BY <1>1 DEF Take, TakeDry
  <2> QED BY <1>0, <2>1, <2>3, <2>4 DEF TypeOK
<1>2. ASSUME NEW r \in Req, Lock(r) \/ Refuse(r) \/ Grant(r) \/ Fail(r) \/ Pod(r)
      PROVE  ResetDropsRemoved'
  BY <1>2 DEF Lock, Refuse, Grant, Fail, Pod, Persist, Drop, Delete, Show, Forget
<1>3. CASE Reset
  <2>1. rc'.ref = cached /\ heap'[cached] = WholePools(heap[cached])
    BY <1>0, <1>3 DEF Reset, TypeOK
  <2>2. WholePools(heap[cached]).spec = heap[cached].spec
    BY <1>0, WholePoolsEffect
  <2>3. \A p \in Pool \ heap[cached].spec : WholePools(heap[cached]).free[p] = {}
    BY <1>0, WholePoolsEffect
  <2> QED BY <2>1, <2>2, <2>3
<1>4. CASE Recompute \/ Save \/ Abort \/ Restart
  BY <1>4 DEF Recompute, Save, Abort, Restart, Idle
<1>5. CASE OperatorWrite \/ MonitorWrite \/ Tick \/ UNCHANGED vars
            \/ \E s \in SUBSET Pool : EditSpec(s)
  BY <1>5 DEF OperatorWrite, MonitorWrite, Tick, EditSpec, vars
<1>6. CASE Deliver
  <2>1. rc.ref # rv
    BY <1>6, TimeAssumption DEF Deliver, TypeOK, Control
  <2> QED BY <1>0, <1>6, <2>1 DEF Deliver
<1> QED BY <1>1, <1>2, <1>3, <1>4, <1>5, <1>6 DEF Next, Webhook, Reconciler

-----------------------------------------------------------------------------
(* Exclusive use, and the guards that keep it.                              *)

\* The three conjuncts that depend on each other.
Guarded == Exclusive /\ StoredGuards /\ HeapGuards

\* A step that moves no request towards an address and leaves the objects
\* alone keeps Guarded.
LEMMA QuietStep ==
  ASSUME TypeOK, Guarded, UNCHANGED <<cached, heap, stored, tainted>>,
         rv' = rv \/ rv' = rv + 1,
         \A q \in Req : Active(q)' =>
           /\ Active(q)
           /\ Occupies(q)' => Occupies(q)
           /\ ip'[q] = ip[q]
           /\ seen'[q] = "no" => seen[q] = "no" /\ stamp'[q] = stamp[q]
  PROVE  Guarded'
<1>1. Exclusive'
  BY DEF Guarded, Exclusive
<1>2. StoredGuards'
  BY DEF Guarded, StoredGuards, Guards, Active
<1>3. HeapGuards'
  <2> SUFFICES ASSUME (cached = rv)', NEW q \in Req, Active(q)', (ip[q] \notin tainted)'
               PROVE  Guards(heap[rv], q)'
    BY DEF HeapGuards
  <2>1. rv' = rv
    BY TimeAssumption DEF TypeOK
  <2> QED BY <2>1 DEF Guarded, HeapGuards, Guards
<1> QED BY <1>1, <1>2, <1>3 DEF Guarded

\* A step that stores object o, read at the version stored so far, keeps
\* Guarded if o guards every active request.
LEMMA WriteStep ==
  ASSUME TypeOK, Guarded, UNCHANGED <<cached, heap, tainted>>, cached = rv,
         rv' = rv \/ rv' = rv + 1,
         \A q \in Req : Active(q) /\ ip[q] \notin tainted => Guards(stored', q),
         \A q \in Req : Active(q)' =>
           /\ Active(q)
           /\ ip'[q] = ip[q] /\ seen'[q] = seen[q] /\ stamp'[q] = stamp[q]
  PROVE  Guarded'
<1>1. Exclusive'
  BY DEF Guarded, Exclusive
<1>2. StoredGuards'
  <2> SUFFICES ASSUME NEW q \in Req, Occupies(q)', (ip[q] \notin tainted)'
               PROVE  Guards(stored, q)'
    BY DEF StoredGuards
  <2>1. Active(q)'
    BY DEF Active
  <2>2. Guards(stored', q)
    BY <2>1
  <2> QED BY <2>1, <2>2 DEF Guards
<1>3. HeapGuards'
  <2> SUFFICES ASSUME (cached = rv)', NEW q \in Req, Active(q)', (ip[q] \notin tainted)'
               PROVE  Guards(heap[rv], q)'
    BY DEF HeapGuards
  <2>1. rv' = rv
    BY TimeAssumption DEF TypeOK
  <2> QED BY <2>1 DEF Guarded, HeapGuards, Guards
<1> QED BY <1>1, <1>2, <1>3 DEF Guarded

\* The steps of a request or a pod that touch no object.
LEMMA QuietRequestStep ==
  ASSUME TypeOK, Control, Timing, Guarded, NEW r \in Req,
         Lock(r) \/ Refuse(r) \/ Pod(r)
  PROVE  Guarded'
<1> USE DEF requestVars, podVars, Active, Occupies, Claims, TypeOK
<1>1. CASE Lock(r)     BY <1>1, QuietStep DEF Lock
<1>2. CASE Refuse(r)   BY <1>2, QuietStep DEF Refuse, Close
<1>3. CASE Persist(r)  BY <1>3, QuietStep DEF Persist
<1>4. CASE Drop(r)     BY <1>4, QuietStep DEF Drop, Close
<1>5. CASE Delete(r)   BY <1>5, QuietStep DEF Delete
<1>6. CASE Show(r)     BY <1>6, QuietStep DEF Show
<1>7. CASE Forget(r)   BY <1>7, QuietStep DEF Forget, Close
<1> QED BY <1>1, <1>2, <1>3, <1>4, <1>5, <1>6, <1>7 DEF Pod

\* What a request sends guards every active request.
LEMMA SentGuards ==
  ASSUME TypeOK, Control, NewMapTaints, Guarded,
         NEW r \in Req, phase[r] = "taken", ref[r] = rv
  PROVE  /\ cached = rv
         /\ \A q \in Req : Active(q) /\ ip[q] \notin tainted => Guards(Sent(r), q)
<1>1. cached = rv
  BY TimeAssumption DEF TypeOK, Control
<1>2. ip[r] \in IP
  BY PoolAssumption DEF Control
<1>3. ASSUME NEW q \in Req, Active(q), ip[q] \notin tainted
      PROVE  Guards(Sent(r), q)
  <2>1. ip[q] \in IP
    BY <1>3, PoolAssumption DEF Control, Active, Occupies, Claims
  <2>2. Guards(heap[rv], q)
    BY <1>1, <1>3 DEF Guarded, HeapGuards
  <2>3. /\ Sent(r).free = heap[rv].free
        /\ Sent(r).raw = heap[rv].raw
        /\ \/ Sent(r).pending[ip[q]] = heap[rv].pending[ip[q]]
           \/ ip[q] = ip[r] /\ ~heap[rv].made
    BY <1>2, <2>1, SentEffect
  <2>4. Sent(r).pending[ip[q]] = heap[rv].pending[ip[q]]
    BY <1>3, <2>3 DEF NewMapTaints
  <2> QED BY <2>2, <2>3, <2>4 DEF Guards
<1> QED BY <1>1, <1>3

LEMMA NewMapTaintsStep ==
  ASSUME TypeOK, Control, NewMapTaints, [Next]_vars
  PROVE  NewMapTaints'
<1> USE DEF NewMapTaints, requestVars
<1>0. /\ heap[cached] \in Status /\ heap[rc.ref] \in Status
      /\ cached \in Version /\ rc.ref \in Version
      /\ \A r \in Req : ref[r] \in Version
  BY DEF TypeOK
<1>1. ASSUME NEW r \in Req, Take(r) \/ TakeDry(r)
      PROVE  NewMapTaints'
  <2>1. PICK a \in Offered(r) :
          /\ heap' = [heap EXCEPT ![cached] = Taken(heap[cached], PoolOf[r], a)]
          /\ Take(r) => /\ ip' = [ip EXCEPT ![r] = a]
                        /\ tainted' = IF heap[cached].raw \/ ~heap[cached].made
                                      THEN tainted \cup {a} ELSE tainted
    BY <1>1 DEF Take, TakeDry
  <2>2. a \in IP /\ PoolOf[r] \in Pool /\ now \in Time
    BY OfferedType, PoolAssumption DEF TypeOK
  <2>3. Taken(heap[cached], PoolOf[r], a).made = heap[cached].made
    BY <1>0, <2>2, TakenEffect
  <2>4. \A v \in Version : heap'[v].made = heap[v].made
    BY <1>0, <2>1, <2>3 DEF TypeOK
  <2>5. CASE Take(r)
    BY <1>0, <2>1, <2>4, <2>5 DEF Take, TypeOK
  <2>6. CASE TakeDry(r)
    BY <1>0, <2>4, <2>6 DEF TakeDry, Close, TypeOK
  <2> QED BY <1>1, <2>5, <2>6
<1>2. ASSUME NEW r \in Req, Lock(r) \/ Refuse(r) \/ Grant(r) \/ Fail(r) \/ Pod(r)
      PROVE  NewMapTaints'
  BY <1>2 DEF Lock, Refuse, Grant, Fail, Pod, Persist, Drop, Delete, Show,
              Forget, Close, TypeOK
<1>3. CASE Reset
  <2>1. WholePools(heap[cached]).made = heap[cached].made
    BY DEF WholePools, Object
  <2> QED BY <1>0, <1>3, <2>1 DEF Reset, TypeOK
<1>4. CASE Recompute
  <2>1. Remaining(heap[rc.ref]).made = heap[rc.ref].made
    BY DEF Remaining, Object
  <2> QED BY <1>0, <1>4, <2>1 DEF Recompute, TypeOK
<1>5. CASE Save \/ Abort \/ OperatorWrite \/ MonitorWrite \/ Tick \/ UNCHANGED vars
            \/ \E s \in SUBSET Pool : EditSpec(s)
  BY <1>5 DEF Save, Abort, OperatorWrite, MonitorWrite, Tick, EditSpec, vars
<1>6. CASE Deliver
  BY <1>0, <1>6, TimeAssumption DEF Deliver, TypeOK, Control
<1>7. CASE Restart
  BY <1>7 DEF Restart
<1> QED BY <1>1, <1>2, <1>3, <1>4, <1>5, <1>6, <1>7 DEF Next, Webhook, Reconciler

\* The steps that store an object: a request's update, the reconciler's, and
\* those of other writers.
LEMMA GuardedWrites ==
  ASSUME TypeOK, Control, NewMapTaints, Guarded,
         \/ \E r \in Req : Grant(r) \/ Fail(r)
         \/ Save \/ OperatorWrite \/ MonitorWrite
         \/ \E s \in SUBSET Pool : EditSpec(s)
  PROVE  Guarded'
<1> USE TimeAssumption DEF requestVars, podVars, Active, Occupies, Claims
<1>0. /\ rv \in Int /\ cached \in Int /\ cached <= rv
      /\ \A q \in Req : ref[q] \in Int /\ ref[q] <= cached
  BY DEF TypeOK, Control
<1>1. ASSUME NEW r \in Req, Grant(r)
      PROVE  Guarded'
  <2>1. /\ cached = rv
        /\ \A q \in Req : Active(q) /\ ip[q] \notin tainted => Guards(stored', q)
    BY <1>1, SentGuards DEF Grant, Store
  <2>2. rv' = rv \/ rv' = rv + 1
    BY <1>1 DEF Grant, Store
  <2> QED BY <1>0, <1>1, <2>1, <2>2, WriteStep DEF Grant, TypeOK
<1>2. ASSUME NEW r \in Req, Fail(r), ref[r] = rv, Store(Sent(r))
      PROVE  Guarded'
  <2>1. /\ cached = rv
        /\ \A q \in Req : Active(q) /\ ip[q] \notin tainted => Guards(stored', q)
    BY <1>2, SentGuards DEF Fail, Store
  <2>2. rv' = rv \/ rv' = rv + 1
    BY <1>2 DEF Store
  <2> QED BY <1>0, <1>2, <2>1, <2>2, WriteStep DEF Fail, Close, TypeOK
<1>3. ASSUME NEW r \in Req, Fail(r), UNCHANGED <<rv, stored>>
      PROVE  Guarded'
  BY <1>3, QuietStep DEF Fail, Close, TypeOK
<1>4. CASE Save
  <2>1. cached = rv /\ stored' = heap[rv]
    BY <1>4, TimeAssumption DEF Save, Store, Control, TypeOK
  <2>2. \A q \in Req : Active(q) /\ ip[q] \notin tainted => Guards(stored', q)
    BY <2>1 DEF Guarded, HeapGuards
  <2>3. rv' = rv \/ rv' = rv + 1
    BY <1>4 DEF Save, Store
  <2> QED BY <1>0, <1>4, <2>1, <2>2, <2>3, WriteStep DEF Save
<1>5. CASE OperatorWrite
  <2>1. cached = rv /\ stored' = heap[rv]
    BY <1>5 DEF OperatorWrite
  <2>2. \A q \in Req : Active(q) /\ ip[q] \notin tainted => Guards(stored', q)
    BY <2>1 DEF Guarded, HeapGuards
  <2> QED BY <1>0, <1>5, <2>1, <2>2, WriteStep DEF OperatorWrite
<1>6. CASE MonitorWrite
  <2>1. /\ rv' = rv + 1
        /\ UNCHANGED <<now, phase, ref, ip, stamp, seen, stored, cached, heap, tainted>>
    BY <1>6 DEF MonitorWrite
  <2>2. \A q \in Req : ~ Claims(q)'
    BY <1>0, <2>1
  <2> QED BY <2>1, <2>2, QuietStep
<1>7. ASSUME NEW s \in SUBSET Pool, EditSpec(s)
      PROVE  Guarded'
  <2>1. /\ stored'.free = stored.free /\ stored'.pending = stored.pending
        /\ stored'.raw = stored.raw
    BY <1>7 DEF EditSpec, Object
  <2>2. Exclusive'
    BY <1>7, TimeAssumption DEF EditSpec, Guarded, Exclusive, TypeOK, Control
  <2>3. StoredGuards'
    BY <1>7, <2>1 DEF EditSpec, Guarded, StoredGuards, Guards
  <2>4. HeapGuards'
    BY <1>7, TimeAssumption DEF EditSpec, HeapGuards, TypeOK
  <2> QED BY <2>2, <2>3, <2>4 DEF Guarded
<1> QED BY <1>1, <1>2, <1>3, <1>4, <1>5, <1>6, <1>7 DEF Fail

\* A step that rewrites version v of the heap keeps Guarded if no request gets
\* hold of an address in it that another one holds, and the new object guards
\* the active requests, should v be the newest version.
LEMMA HeapStep ==
  ASSUME TypeOK, Guarded, NEW v \in Version, NEW o,
         heap' = [heap EXCEPT ![v] = o],
         UNCHANGED <<rv, cached, stored>>, tainted \subseteq tainted',
         \A q \in Req : Occupies(q)' =>
           /\ Occupies(q)
           /\ ip'[q] = ip[q] /\ seen'[q] = seen[q] /\ stamp'[q] = stamp[q],
         Exclusive',
         v = rv => \A q \in Req :
           Active(q)' /\ ip'[q] \notin tainted' => Guards(o, q)',
         v # rv => \A q \in Req : Active(q)' =>
           /\ Active(q)
           /\ ip'[q] = ip[q] /\ seen'[q] = seen[q] /\ stamp'[q] = stamp[q]
  PROVE  Guarded'
<1>1. StoredGuards'
  BY DEF Guarded, StoredGuards, Guards
<1>2. HeapGuards'
  <2> SUFFICES ASSUME (cached = rv)', NEW q \in Req, Active(q)', (ip[q] \notin tainted)'
               PROVE  Guards(heap[rv], q)'
    BY DEF HeapGuards
  <2>1. CASE v = rv
    BY <2>1 DEF TypeOK, Guards
  <2>2. CASE v # rv
    BY <2>2 DEF TypeOK, Guards, Guarded, HeapGuards
  <2> QED BY <2>1, <2>2
<1> QED BY <1>1, <1>2 DEF Guarded

LEMMA GuardedTake ==
  ASSUME TypeOK, Control, InPools, Timing, Guarded,
         NEW r \in Req, Take(r) \/ TakeDry(r)
  PROVE  Guarded'
<1> DEFINE p == PoolOf[r]
<1>0. /\ heap[cached] \in Status /\ cached \in Version /\ p \in Pool
      /\ phase[r] = "locked" /\ seen[r] = "no" /\ now \in Time
      /\ PersistWithin \in Nat
  <2>1. heap[cached] \in Status /\ cached \in Version /\ now \in Time
    BY DEF TypeOK
  <2>2. phase[r] = "locked" /\ seen[r] = "no"
    BY DEF TypeOK, Take, TakeDry, Control
  <2> QED BY <2>1, <2>2, PoolAssumption, TimeAssumption
<1>1. PICK a \in Offered(r) :
        /\ heap' = [heap EXCEPT ![cached] = Taken(heap[cached], p, a)]
        /\ Take(r) => /\ ip' = [ip EXCEPT ![r] = a]
                      /\ tainted' = IF heap[cached].raw \/ ~heap[cached].made
                                    THEN tainted \cup {a} ELSE tainted
  BY DEF Take, TakeDry
<1>2. a \in IP /\ a \in heap[cached].free[p]
  BY OfferedType
<1>3. PICK n :
      /\ n = Taken(heap[cached], p, a)
      /\ n.raw = heap[cached].raw
      /\ \A q \in Pool : n.free[q] \subseteq heap[cached].free[q]
      /\ a \notin n.free[p]
      /\ \A b \in IP : n.pending[b] =
           IF heap[cached].made /\ b = a THEN now ELSE heap[cached].pending[b]
  BY <1>0, <1>2, TakenEffect
\* Whoever was active before is still guarded.
<1>4. ASSUME cached = rv, NEW q \in Req, Active(q), ip[q] \notin tainted
      PROVE  /\ Guards(n, q)
             /\ ip[q] = a => heap[cached].raw
  <2>1. Guards(heap[cached], q)
    BY <1>4 DEF Guarded, HeapGuards
  <2>2. ip[q] \in IpPools[PoolOf[q]] /\ PoolOf[q] \in Pool /\ ip[q] \in IP
    BY <1>4, PoolAssumption DEF Control, Active, Occupies, Claims
  <2>3. stamp[q] <= now /\ stamp[q] \in Int /\ now \in Nat
    BY TimeAssumption DEF Timing, TypeOK
  <2>4. heap[cached].pending[ip[q]] \in Int
    BY <1>0, <2>2, StatusFields
  <2>5. Guards(n, q)
    BY <1>3, <2>1, <2>2, <2>3, <2>4 DEF Guards
  <2>6. ASSUME ip[q] = a PROVE heap[cached].raw
    <3>1. a \in IpPools[p]
      BY <1>0, <1>2 DEF InPools
    <3>2. PoolOf[q] = p
      BY <1>0, <2>2, <2>6, <3>1, PoolAssumption
    <3> QED BY <1>2, <2>1, <2>6, <3>2 DEF Guards
  <2> QED BY <2>5, <2>6
<1>5. /\ UNCHANGED <<now, rv, stored, cached, seen>>
      /\ \A q \in Req \ {r} : /\ phase'[q] = phase[q] /\ ref'[q] = ref[q]
                              /\ ip'[q] = ip[q] /\ stamp'[q] = stamp[q]
  BY DEF Take, TakeDry, Close, podVars, TypeOK
<1>6. \A q \in Req \ {r} : /\ Occupies(q)' <=> Occupies(q)
                           /\ Active(q)' <=> Active(q)
  BY <1>5 DEF Active, Occupies, Claims
<1>7. CASE TakeDry(r)
  <2>1. ~Active(r)' /\ tainted' = tainted
    BY <1>0, <1>7 DEF TakeDry, Close, Active, Occupies, Claims, TypeOK
  <2>2. Exclusive'
    BY <1>5, <1>6, <2>1 DEF Guarded, Exclusive
  <2>3. \A q \in Req : Active(q)' /\ ip'[q] \notin tainted' /\ cached = rv => Guards(n, q)'
    BY <1>4, <1>5, <1>6, <2>1 DEF Guards
  <2>4. \A q \in Req : Active(q)' => q # r
    BY <2>1
  <2>5. \A q \in Req : Occupies(q)' => q # r
    BY <2>4 DEF Active
  <2>6. heap' = [heap EXCEPT ![cached] = n]
    BY <1>1, <1>3
  <2> HIDE DEF p
  <2> QED BY <1>0, <1>5, <1>6, <2>1, <2>2, <2>3, <2>4, <2>5, <2>6, HeapStep
<1>8. CASE Take(r)
  <2>1. /\ phase'[r] = "taken" /\ ref'[r] = cached /\ ip'[r] = a /\ stamp'[r] = now
        /\ tainted \subseteq tainted'
        /\ a \notin tainted' => ~heap[cached].raw /\ heap[cached].made
    BY <1>1, <1>8 DEF Take, TypeOK
  <2>2. ~Occupies(r)' /\ (Active(r)' => cached = rv)
    BY <1>5, <2>1 DEF Active, Occupies, Claims
  <2>3. Exclusive'
    <3>1. ASSUME NEW q \in Req \ {r}, Active(q)', Active(r)', ip'[q] = a
          PROVE  a \in tainted'
      BY <1>4, <1>5, <1>6, <2>1, <2>2, <3>1
    <3>2. \A q, s \in Req \ {r} :
            q # s /\ Active(q)' /\ Active(s)' /\ ip'[q] = ip'[s] => ip'[q] \in tainted'
      BY <1>5, <1>6, <2>1 DEF Guarded, Exclusive
    <3> QED BY <2>1, <3>1, <3>2 DEF Exclusive
  <2>4. ASSUME NEW q \in Req, Active(q)', ip'[q] \notin tainted', cached = rv
        PROVE  Guards(n, q)'
    <3>1. CASE q = r
      <4>1. n.pending[a] = now /\ a \notin n.free[p] /\ now # Absent
        BY <1>2, <1>3, <2>1, <2>4, <3>1, TimeAssumption DEF TypeOK
      <4> QED BY <1>0, <2>1, <3>1, <4>1 DEF Guards
    <3>2. CASE q # r
      BY <1>4, <1>5, <1>6, <2>1, <2>4, <3>2 DEF Guards
    <3> QED BY <3>1, <3>2
  <2>5. cached # rv => ~Active(r)'
    BY <2>2
  <2>6. heap' = [heap EXCEPT ![cached] = n]
    BY <1>1, <1>3
  <2>7. \A q \in Req : Occupies(q)' => q # r
    BY <2>2
  <2>8. cached # rv => \A q \in Req : Active(q)' => q # r
    BY <2>5
  <2> HIDE DEF p
  <2> QED BY <1>0, <1>5, <1>6, <2>1, <2>3, <2>4, <2>6, <2>7, <2>8, HeapStep
<1> QED BY <1>7, <1>8

\* Whole pools in the shared object: it is marked, and keeps the stamps.
LEMMA GuardedReset ==
  ASSUME TypeOK, Control, Guarded, Reset
  PROVE  Guarded'
<1>0. heap[cached] \in Status /\ cached \in Version
  BY DEF TypeOK
<1>1. PICK n : /\ n = WholePools(heap[cached])
               /\ n.raw = TRUE /\ n.pending = heap[cached].pending
  BY <1>0, WholePoolsEffect
<1>2. /\ heap' = [heap EXCEPT ![cached] = n]
      /\ UNCHANGED <<now, rv, stored, cached, tainted, phase, ref, ip, stamp, seen>>
  BY <1>1 DEF Reset, requestVars, podVars
<1>3. \A q \in Req : (Active(q)' <=> Active(q)) /\ (Occupies(q)' <=> Occupies(q))
  BY <1>2 DEF Active, Occupies, Claims
<1>4. Exclusive'
  BY <1>2, <1>3 DEF Guarded, Exclusive
<1>5. ASSUME cached = rv, NEW q \in Req, Active(q)', ip'[q] \notin tainted'
      PROVE  Guards(n, q)'
  <2>1. Guards(heap[cached], q)
    BY <1>2, <1>3, <1>5 DEF Guarded, HeapGuards
  <2> QED BY <1>1, <1>2, <2>1 DEF Guards
<1> QED BY <1>0, <1>2, <1>3, <1>4, <1>5, HeapStep

\* Recomputed free lists guard every active request: an unseen pod's stamp has
\* not expired, a seen pod is on the list.
LEMMA GuardedRecompute ==
  ASSUME TypeOK, Control, Timing, ResetDropsRemoved, Guarded, Recompute
  PROVE  Guarded'
<1> DEFINE v == rc.ref
<1>0. heap[v] \in Status /\ v \in Version
  BY DEF TypeOK
<1>1. PICK n : /\ n = Remaining(heap[v])
               /\ n.pending = Pruned(heap[v])
               /\ \A p \in Pool : n.free[p] = {a \in heap[v].free[p] :
                    Pruned(heap[v])[a] = Absent /\ a \notin PodIPs(heap[v].spec)}
  BY <1>0, RemainingEffect
<1>2. /\ heap' = [heap EXCEPT ![v] = n]
      /\ UNCHANGED <<now, rv, stored, cached, tainted, phase, ref, ip, stamp, seen>>
  BY <1>1 DEF Recompute, requestVars, podVars
<1>3. \A q \in Req : (Active(q)' <=> Active(q)) /\ (Occupies(q)' <=> Occupies(q))
  BY <1>2 DEF Active, Occupies, Claims
<1>4. Exclusive'
  BY <1>2, <1>3 DEF Guarded, Exclusive
<1>5. ASSUME v = rv, NEW q \in Req, Active(q), ip[q] \notin tainted
      PROVE  Guards(n, q)
  <2>0. cached = rv
    BY <1>5, TimeAssumption DEF TypeOK, Control
  <2>1. Guards(heap[v], q)
    BY <1>5, <2>0 DEF Guarded, HeapGuards
  <2>2. ip[q] \in IpPools[PoolOf[q]] /\ PoolOf[q] \in Pool /\ ip[q] \in IP
    BY <1>5, PoolAssumption DEF Control, Active, Occupies, Claims
  <2>3. CASE seen[q] = "no"
    <3>1. ip[q] \notin PodIPs(heap[v].spec)
      <4> SUFFICES ASSUME NEW s \in Req, seen[s] = "yes", ip[s] = ip[q]
                   PROVE  FALSE
        BY DEF PodIPs
      <4>1. Active(s) /\ s # q
        BY <2>3 DEF Control, Active, Occupies
      <4> QED BY <1>5, <4>1 DEF Guarded, Exclusive
    <3>2. now <= stamp[q] + PersistWithin + CacheLag
      BY <1>5, <2>3, TimeAssumption DEF Timing, Active, Occupies, Claims, TypeOK
    <3>3. /\ heap[v].pending[ip[q]] # Absent
          /\ heap[v].pending[ip[q]] >= stamp[q]
      BY <2>1, <2>3 DEF Guards
    <3>4. heap[v].pending[ip[q]] \in Int /\ stamp[q] \in Int /\ now \in Int
      BY <1>0, <2>2, StatusFields, TimeAssumption DEF TypeOK
    <3>5. ~Expired(heap[v].pending[ip[q]])
      BY <3>2, <3>3, <3>4, TimeAssumption DEF Expired
    <3>6. Pruned(heap[v])[ip[q]] = heap[v].pending[ip[q]]
      BY <2>2, <3>1, <3>5 DEF Pruned
    <3> QED BY <1>1, <2>2, <3>3, <3>6 DEF Guards
  <2>4. CASE seen[q] = "yes"
    <3>1. CASE PoolOf[q] \in heap[v].spec
      <4>1. ip[q] \in PodIPs(heap[v].spec)
        BY <2>4, <3>1 DEF PodIPs
      <4> QED BY <1>1, <2>2, <2>4, <4>1 DEF Guards
    <3>2. CASE PoolOf[q] \notin heap[v].spec
      <4>1. heap[v].free[PoolOf[q]] = {}
        BY <2>2, <3>2 DEF Recompute, ResetDropsRemoved
      <4> QED BY <1>1, <2>2, <2>4, <4>1 DEF Guards
    <3> QED BY <3>1, <3>2
  <2> QED BY <2>3, <2>4 DEF TypeOK
<1>6. ASSUME v = rv, NEW q \in Req, Active(q)', ip'[q] \notin tainted'
      PROVE  Guards(n, q)'
  BY <1>2, <1>3, <1>5, <1>6 DEF Guards
<1> HIDE DEF v
<1> QED BY <1>0, <1>2, <1>3, <1>4, <1>6, HeapStep

\* A fresh copy of the stored object enters the cache.
LEMMA GuardedRefresh ==
  ASSUME TypeOK, Control, Guarded, Deliver \/ Restart
  PROVE  Guarded'
<1>1. /\ heap'[rv] = stored /\ cached' = rv
      /\ UNCHANGED <<now, rv, stored, tainted>>
  BY DEF Deliver, Restart, TypeOK
<1>2. ASSUME NEW q \in Req, Active(q)'
      PROVE  /\ Occupies(q)
             /\ ip'[q] = ip[q]
             /\ seen'[q] = "no" => seen[q] = "no" /\ stamp'[q] = stamp[q]
  <2>1. CASE Deliver
    BY <1>2, <2>1, TimeAssumption
       DEF Deliver, Active, Occupies, Claims, requestVars, podVars, TypeOK, Control
  <2>2. CASE Restart
    BY <1>2, <2>2 DEF Restart, Active, Occupies, Claims, TypeOK, Control
  <2> QED BY <2>1, <2>2
<1>3. Exclusive'
  BY <1>1, <1>2 DEF Guarded, Exclusive, Active
<1>4. ASSUME NEW q \in Req, Active(q)', ip'[q] \notin tainted'
      PROVE  Guards(stored, q)'
  <2>1. Guards(stored, q)
    BY <1>1, <1>2, <1>4 DEF Guarded, StoredGuards
  <2> QED BY <1>1, <1>2, <1>4, <2>1 DEF Guards
<1>5. StoredGuards'
  BY <1>4 DEF StoredGuards, Active
<1>6. HeapGuards'
  BY <1>1, <1>4 DEF HeapGuards, Guards
<1> QED BY <1>3, <1>5, <1>6 DEF Guarded

\* Time only ends claims.
LEMMA GuardedIdle ==
  ASSUME TypeOK, Guarded, Tick \/ Abort \/ UNCHANGED vars
  PROVE  Guarded'
  BY QuietStep, TimeAssumption
     DEF Tick, Abort, vars, requestVars, podVars, Active, Occupies, Claims, TypeOK

-----------------------------------------------------------------------------
(* Free and pending.                                                        *)

LEMMA DisjointStep ==
  ASSUME TypeOK, Control, InPools, NewMapTaints, ObjectsDisjoint, [Next]_vars
  PROVE  ObjectsDisjoint'
<1> USE DEF ObjectsDisjoint
<1>0. /\ heap[cached] \in Status /\ heap[rc.ref] \in Status /\ stored \in Status
      /\ cached \in Version /\ rc.ref \in Version
      /\ \A r \in Req : ref[r] \in Version
  BY DEF TypeOK
<1>1. ASSUME NEW r \in Req, Take(r) \/ TakeDry(r)
      PROVE  ObjectsDisjoint'
  <2>1. PICK a \in Offered(r) :
          heap' = [heap EXCEPT ![cached] = Taken(heap[cached], PoolOf[r], a)]
    BY <1>1 DEF Take, TakeDry
  <2>2. a \in IP /\ PoolOf[r] \in Pool /\ now \in Time /\ a \in IpPools[PoolOf[r]]
    BY OfferedType, PoolAssumption DEF TypeOK, InPools
  <2>3. PICK n : /\ n = Taken(heap[cached], PoolOf[r], a)
                 /\ n.raw = heap[cached].raw
                 /\ \A p \in Pool : n.free[p] \subseteq heap[cached].free[p]
                 /\ a \notin n.free[PoolOf[r]]
                 /\ \A b \in IP : n.pending[b] =
                      IF heap[cached].made /\ b = a THEN now ELSE heap[cached].pending[b]
    BY <1>0, <2>2, TakenEffect
  <2>4. \A p \in Pool : a \notin n.free[p] /\ n.free[p] \subseteq IP
    BY <1>0, <2>2, <2>3, PoolAssumption DEF InPools
  <2>5. tainted \subseteq tainted' /\ stored' = stored
    BY <1>1 DEF Take, TakeDry
  <2>6. Disjoint(n)'
    BY <1>0, <2>3, <2>4, <2>5 DEF Disjoint
  <2> QED BY <1>0, <2>1, <2>3, <2>5, <2>6 DEF Disjoint, TypeOK
<1>2. ASSUME NEW r \in Req, Grant(r) \/ Fail(r)
      PROVE  ObjectsDisjoint'
  <2>1. ip[r] \in IP /\ phase[r] = "taken"
    BY <1>2, PoolAssumption DEF Grant, Fail, Control
  <2>2. heap[ref[r]] \in Status
    BY <1>0 DEF TypeOK
  <2>3. \A p \in Pool : heap[ref[r]].free[p] \subseteq IP
    BY <2>2, StatusFields
  <2>4. Disjoint(Sent(r))
    BY <1>0, <2>1, <2>3, SentEffect DEF Disjoint, NewMapTaints
  <2>5. UNCHANGED <<heap, tainted>> /\ (stored' = stored \/ stored' = Sent(r))
    BY <1>2 DEF Grant, Fail, Store
  <2> QED BY <2>4, <2>5 DEF Disjoint
<1>3. ASSUME NEW r \in Req, Lock(r) \/ Refuse(r) \/ Pod(r)
      PROVE  ObjectsDisjoint'
  BY <1>3 DEF Disjoint, Lock, Refuse, Pod, Persist, Drop, Delete, Show, Forget
<1>4. CASE Reset
  <2>1. heap' = [heap EXCEPT ![cached] = WholePools(heap[cached])] /\ UNCHANGED <<stored, tainted>>
    BY <1>4 DEF Reset
  <2>2. WholePools(heap[cached]).raw
    BY <1>0, WholePoolsEffect
  <2> QED BY <1>0, <2>1, <2>2 DEF Disjoint, TypeOK
<1>5. CASE Recompute
  <2>1. PICK n : /\ n = Remaining(heap[rc.ref])
                 /\ n.pending = Pruned(heap[rc.ref])
                 /\ \A p \in Pool : n.free[p] = {a \in heap[rc.ref].free[p] :
                      Pruned(heap[rc.ref])[a] = Absent /\ a \notin PodIPs(heap[rc.ref].spec)}
    BY <1>0, RemainingEffect
  <2>2. heap' = [heap EXCEPT ![rc.ref] = n] /\ UNCHANGED <<stored, tainted>>
    BY <1>5, <2>1 DEF Recompute
  <2> QED BY <1>0, <2>1, <2>2 DEF Disjoint, TypeOK
<1>6. CASE Save \/ Abort \/ OperatorWrite \/ MonitorWrite \/ Tick \/ UNCHANGED vars
  BY <1>0, <1>6 DEF Disjoint, Save, Store, Abort, OperatorWrite, MonitorWrite, Tick, vars
<1>7. \A p \in Pool : \A a \in Fresh.free[p] : Fresh.pending[a] = Absent
  BY PoolAssumption, UnusedType DEF Fresh
<1>8. CASE Deliver \/ Restart
  <2>1. \A v \in Version : heap'[v] \in {stored, heap[v], Fresh}
    BY <1>8 DEF Deliver, Restart
  <2>2. UNCHANGED <<stored, tainted>>
    BY <1>8 DEF Deliver, Restart
  <2> QED BY <1>7, <2>1, <2>2 DEF Disjoint
<1>9. ASSUME NEW s \in SUBSET Pool, EditSpec(s)
      PROVE  ObjectsDisjoint'
  <2>1. /\ stored'.free = stored.free /\ stored'.pending = stored.pending
        /\ stored'.raw = stored.raw
    BY <1>9 DEF EditSpec, Object
  <2> QED BY <1>9, <2>1 DEF EditSpec, Disjoint
<1> QED BY <1>1, <1>2, <1>3, <1>4, <1>5, <1>6, <1>8, <1>9
        DEF Next, Webhook, Reconciler

-----------------------------------------------------------------------------
(* The theorems.                                                            *)

LEMMA InitInv == Init => IInv
<1> SUFFICES ASSUME Init PROVE IInv
  OBVIOUS
<1>1. TypeOK
  BY InitType
<1>2. Control /\ Timing /\ NewMapTaints /\ ResetDropsRemoved
  BY <1>1 DEF Init, Control, Timing, NewMapTaints, ResetDropsRemoved, Idle, TypeOK
<1>3. InPools /\ ObjectsDisjoint
  <2>1. PICK made \in BOOLEAN :
          /\ stored = Unused(made)
          /\ \A v \in Version : heap[v] = Unused(made) \/ heap[v] = Fresh
    BY InitObjects
  <2>2. \A p \in Pool : \A a \in IpPools[p] :
          Unused(made).pending[a] = Absent /\ Fresh.pending[a] = Absent
    BY PoolAssumption, UnusedType DEF Fresh
  <2> QED BY <2>1, <2>2, UnusedType DEF InPools, ObjectsDisjoint, Disjoint, Fresh
<1>4. \A r \in Req : ~Active(r)
  BY DEF Init, Active, Occupies, Claims
<1>5. Exclusive /\ StoredGuards /\ HeapGuards
  BY <1>4 DEF Exclusive, StoredGuards, HeapGuards, Active
<1> QED BY <1>1, <1>2, <1>3, <1>5 DEF IInv

LEMMA NextInv == IInv /\ [Next]_vars => IInv'
<1> SUFFICES ASSUME IInv, [Next]_vars PROVE IInv'
  OBVIOUS
<1>0. TypeOK /\ Control /\ InPools /\ Timing /\ ResetDropsRemoved /\ NewMapTaints
      /\ ObjectsDisjoint /\ Guarded
  BY DEF IInv, Guarded
<1>1. TypeOK'
  BY <1>0, RequestType, SystemType
<1>2. Control' /\ InPools' /\ Timing' /\ ResetDropsRemoved' /\ NewMapTaints'
      /\ ObjectsDisjoint'
  BY <1>0, ControlStep, InPoolsStep, TimingStep, ResetDropsRemovedStep,
     NewMapTaintsStep, DisjointStep
<1>3. Guarded'
  BY <1>0, QuietRequestStep, GuardedWrites, GuardedTake, GuardedReset,
     GuardedRecompute, GuardedRefresh, GuardedIdle
     DEF Next, Webhook, Reconciler
<1> QED BY <1>1, <1>2, <1>3 DEF IInv, Guarded

LEMMA Invariance == Spec => []IInv
  BY InitInv, NextInv, PTL DEF Spec

\* Every reachable state has the declared types.
THEOREM TypeCorrect == Spec => []TypeOK
<1>1. IInv => TypeOK
  BY DEF IInv
<1> QED BY <1>1, Invariance, PTL

\* Two pods never hold one VXLAN address, unless the address was handed out in
\* one of the two windows the code leaves open.
THEOREM CleanIPsExclusive == Spec => []OneOwnerOfCleanIP
<1>1. IInv => OneOwnerOfCleanIP
  BY DEF IInv, Exclusive, OneOwnerOfCleanIP, Active
<1> QED BY <1>1, Invariance, PTL

\* What the stored status lists as free, nobody uses.
THEOREM FreeIsUnused == Spec => []FreeMeansUnused
<1>1. IInv => FreeMeansUnused
  BY DEF IInv, StoredGuards, Guards, FreeMeansUnused
<1> QED BY <1>1, Invariance, PTL

\* The stored status never lists an address as free and pending.
THEOREM FreeIsNotPending == Spec => []PendingIsNotFree
<1>1. IInv => PendingIsNotFree
  BY DEF IInv, ObjectsDisjoint, Disjoint, PendingIsNotFree
<1> QED BY <1>1, Invariance, PTL

-----------------------------------------------------------------------------
(* The allocation implements IpPool.                                        *)

Owner == [r \in Req |-> IF Occupies(r) THEN ip[r] ELSE NoIP]

LEMMA PoolInit == Init => Pools!Init
  BY DEF Init, Pools!Init, Occupies

\* A step that lets go of some addresses and hands out none.
LEMMA PoolRelease ==
  ASSUME UNCHANGED tainted,
         \A r \in Req : Occupies(r)' => Occupies(r) /\ ip'[r] = ip[r]
  PROVE  Pools!Next
<1>1. PICK s \in SUBSET Req : \A r \in Req : r \in s <=> ~Occupies(r)'
  <2>1. {r \in Req : ~Occupies(r)'} \in SUBSET Req
    OBVIOUS
  <2> QED BY <2>1
<1>2. Owner' = [r \in Req |-> IF r \in s THEN NoIP ELSE Owner[r]]
  BY <1>1 DEF Owner
<1>3. Pools!Release(s)
  BY <1>2 DEF Pools!Release, Owner
<1> QED BY <1>3 DEF Pools!Next

\* A step that hands out nothing yet.
LEMMA PoolTaint ==
  ASSUME NEW a \in IP, tainted' \in {tainted, tainted \cup {a}},
         \A r \in Req : (Occupies(r)' <=> Occupies(r)) /\ (Occupies(r) => ip'[r] = ip[r])
  PROVE  Pools!Next \/ UNCHANGED Pools!poolVars
<1>1. Owner' = Owner
  BY DEF Owner
<1>2. CASE tainted' = tainted
  BY <1>1, <1>2 DEF Pools!poolVars, Owner
<1>3. CASE tainted' = tainted \cup {a}
  <2>1. Pools!Suspect(a)
    BY <1>1, <1>3 DEF Pools!Suspect, Owner
  <2> QED BY <2>1 DEF Pools!Next
<1> QED BY <1>2, <1>3

\* The step that hands out an address.
LEMMA PoolAssign ==
  ASSUME NEW r \in Req, NEW a \in IP, a = ip[r], NoIP \notin IP,
         UNCHANGED <<tainted, ip>>,
         ~Occupies(r), Occupies(r)',
         \A q \in Req \ {r} : Occupies(q)' <=> Occupies(q),
         a \in tainted \/ \A q \in Req : Occupies(q) => ip[q] # a
  PROVE  Pools!Next
<1>1. Owner[r] = NoIP /\ Owner' = [Owner EXCEPT ![r] = a]
  BY DEF Owner
<1>2. {q \in Req : Owner[q] = a} = {} \/ a \in tainted
  BY DEF Owner
<1>3. Pools!Assign(r, a)
  BY <1>1, <1>2 DEF Pools!Assign, Pools!Holders, Owner
<1> QED BY <1>3 DEF Pools!Next

LEMMA PoolNext ==
  IInv /\ [Next]_vars => Pools!Next \/ UNCHANGED Pools!poolVars
<1> SUFFICES ASSUME IInv, [Next]_vars
             PROVE  Pools!Next \/ UNCHANGED Pools!poolVars
  OBVIOUS
<1>0. TypeOK /\ Control /\ Timing /\ Exclusive
  BY DEF IInv
<1>1. ASSUME NEW r \in Req, Take(r)
      PROVE  Pools!Next \/ UNCHANGED Pools!poolVars
  <2>1. PICK a \in Offered(r) : tainted' \in {tainted, tainted \cup {a}}
    BY <1>1 DEF Take
  <2>2. a \in IP
    BY <1>0, OfferedType
  <2>3. \A q \in Req : (Occupies(q)' <=> Occupies(q)) /\ (Occupies(q) => ip'[q] = ip[q])
    BY <1>0, <1>1 DEF Take, Occupies, TypeOK
  <2> QED BY <2>1, <2>2, <2>3, PoolTaint
<1>2. ASSUME NEW r \in Req, Grant(r)
      PROVE  Pools!Next \/ UNCHANGED Pools!poolVars
  <2>1. PICK a \in IP : a = ip[r]
    BY <1>0, <1>2, PoolAssumption DEF Grant, Control
  <2>2. UNCHANGED <<tainted, ip, stamp, now>> /\ ~Occupies(r)
    BY <1>2 DEF Grant, Occupies
  <2>3. \A q \in Req \ {r} : Occupies(q)' <=> Occupies(q)
    BY <1>0, <1>2 DEF Grant, Occupies, TypeOK
  <2>4. CASE Occupies(r)'
    <3>1. Claims(r)
      BY <1>0, <1>2, <2>4 DEF Claims, Grant, Occupies, TypeOK
    <3>2. a \in tainted \/ \A q \in Req : Occupies(q) => ip[q] # a
      BY <1>0, <2>1, <2>2, <3>1 DEF Exclusive, Active
    <3> QED BY <2>1, <2>2, <2>3, <2>4, <3>2, PoolAssumption, PoolAssign
  <2>5. CASE ~Occupies(r)'
    BY <2>2, <2>3, <2>5, PoolRelease
  <2> QED BY <2>4, <2>5
<1>3. CASE \/ \E r \in Req : Lock(r) \/ Refuse(r) \/ TakeDry(r) \/ Fail(r) \/ Pod(r)
           \/ Reconciler \/ Deliver \/ MonitorWrite \/ Restart \/ Tick
           \/ \E s \in SUBSET Pool : EditSpec(s)
           \/ UNCHANGED vars
  <2>1. UNCHANGED tainted
    BY <1>3 DEF Lock, Refuse, TakeDry, Fail, Pod, Persist, Drop, Delete, Show,
                Forget, Reconciler, Reset, Recompute, Save, Abort, OperatorWrite,
                Deliver, MonitorWrite, Restart, Tick, EditSpec, vars
  <2>2. \A q \in Req : Occupies(q)' => Occupies(q) /\ ip'[q] = ip[q]
    <3>1. ASSUME NEW r \in Req, Lock(r) \/ Refuse(r) \/ TakeDry(r) \/ Fail(r)
          PROVE  \A q \in Req : Occupies(q)' => Occupies(q) /\ ip'[q] = ip[q]
      BY <1>0, <3>1 DEF Lock, Refuse, TakeDry, Fail, Close, Occupies, TypeOK, requestVars
    <3>2. ASSUME NEW r \in Req, Pod(r)
          PROVE  \A q \in Req : Occupies(q)' => Occupies(q) /\ ip'[q] = ip[q]
      BY <1>0, <3>2 DEF Pod, Persist, Drop, Delete, Show, Forget, Close, Occupies, TypeOK
    <3>3. CASE \/ Reconciler \/ Deliver \/ MonitorWrite
               \/ \E s \in SUBSET Pool : EditSpec(s)
               \/ UNCHANGED vars
      BY <3>3 DEF Reconciler, Reset, Recompute, Save, Abort, OperatorWrite, Deliver,
                  MonitorWrite, EditSpec, vars, requestVars, Occupies
    <3>4. CASE Tick
      <4>1. now \in Int /\ PersistWithin \in Int /\ \A q \in Req : stamp[q] \in Int
        BY <1>0, TimeAssumption DEF TypeOK
      <4>2. now' = now + 1 /\ UNCHANGED <<phase, ip, stamp>>
        BY <3>4 DEF Tick, requestVars
      <4> QED BY <4>1, <4>2 DEF Occupies
    <3>5. CASE Restart
      BY <1>0, <3>5 DEF Restart, Occupies, TypeOK
    <3> QED BY <1>3, <3>1, <3>2, <3>3, <3>4, <3>5
  <2> QED BY <2>1, <2>2, PoolRelease
<1> QED BY <1>1, <1>2, <1>3 DEF Next, Webhook

\* Webhook and reconciler together implement IpPool: an address is handed to
\* one pod at a time, and again only after that pod let go of it, unless it
\* was handed out in one of the two windows.
THEOREM KeepsPromise == Spec => KeepsPoolPromise
<1>1. IInv /\ [Next]_vars => [Pools!Next]_(Pools!poolVars)
  BY PoolNext
<1> QED BY <1>1, PoolInit, Invariance, PTL DEF Spec, KeepsPoolPromise, Pools!Spec
=============================================================================
