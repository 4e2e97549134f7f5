---------------------------- MODULE IpAllocation ----------------------------
(***************************************************************************)
(* Allocation of VXLAN addresses to worker pods of one IPSecConnection.    *)
(*                                                                         *)
(* Three parties share the status of the custom resource:                  *)
(*   - the mutating webhook (internal/webhook/v1/mutating_webhook.go),     *)
(*     one goroutine per admission request, which takes an address out of  *)
(*     FreeIPs, stamps it in PendingIPs and answers with a patched pod;    *)
(*   - the reconciler (internal/controller/ipman_controller.go), a single  *)
(*     goroutine, which rebuilds FreeIPs from the pools of the spec, the   *)
(*     worker pods it sees and the pending stamps that have not expired;   *)
(*   - other writers of the same object.                                   *)
(* Both of the first run in one process and read the object from its       *)
(* informer cache.  DeepCopyInto (api/v1/deepcopy.go:58-64) copies Status  *)
(* by assignment, so whoever reads a version of the object holds the SAME  *)
(* maps as the cache: heap[v] is the one in-memory copy of version v.      *)
(* Updates are optimistic: they fail unless they carry the version the API *)
(* server holds.                                                           *)
(***************************************************************************)
EXTENDS Integers

CONSTANTS
  IP,              \* the VXLAN addresses
  NoIP,            \* not an address: a request that holds none
  Pool,            \* the children that ever occur in the spec, each with one pool
  Req,             \* admission requests, each for a pod of its own
  NoReq,           \* not a request: the lease has no holder
  DryRun,          \* the requests with dryRun set
  IpPools,         \* the addresses the spec lists for the pool of a child
  PoolOf,          \* the child a request's annotations name
  PendingTimeout,  \* ReconcilerPendingIPsTimeoutSeconds
  LeaseTTL,        \* k8slock.TTL
  PersistWithin,   \* a pod is stored at most this long after its stamp
  CacheLag,        \* the pod informer shows a stored pod within this time
  Disturbance,     \* which of the events of others below may happen
  MaxTime,         \* bound on the clock
  MaxVersion       \* bound on the versions of the object

Time    == 0 .. MaxTime
Version == 0 .. MaxVersion
Absent  == -1      \* an address with no entry in PendingIPs

\* The pools of two children do not share an address.
ASSUME PoolAssumption ==
  /\ NoIP \notin IP
  /\ NoReq \notin Req
  /\ DryRun \subseteq Req
  /\ Disturbance \subseteq {"monitor", "operator", "edit", "restart"}
  /\ IpPools \in [Pool -> SUBSET IP]
  /\ PoolOf \in [Req -> Pool]
  /\ \A p, q \in Pool : p # q => IpPools[p] \cap IpPools[q] = {}

\* A pod that is stored at all is visible to the reconciler before the stamp
\* of its address expires.  35 s against the 30 s an admission call may take
\* (helm/templates/mutating-webhook.yaml:10) is what the code relies on.
ASSUME TimeAssumption ==
  /\ MaxTime \in Nat /\ MaxVersion \in Nat
  /\ PendingTimeout \in Nat /\ LeaseTTL \in Nat
  /\ PersistWithin \in Nat /\ CacheLag \in Nat
  /\ PersistWithin + CacheLag < PendingTimeout

\* What the properties tell apart of an IPSecConnection.  `made' is whether
\* the PendingIPs map exists.  `raw' is not in the code: it marks free lists
\* that are the whole pools of the spec, used addresses included, as they are
\* between lines 571 and 623 of the reconciler, wherever such lists end up.
Status ==
  [spec    : SUBSET Pool,
   free    : [Pool -> SUBSET IP],
   pending : [IP -> Time \cup {Absent}],
   made    : BOOLEAN,
   raw     : BOOLEAN]

Object(spec, free, pending, made, raw) ==
  [spec |-> spec, free |-> free, pending |-> pending, made |-> made, raw |-> raw]

VARIABLES
  now,       \* the clock, in whole seconds
  rv,        \* resourceVersion the API server holds
  stored,    \* the object at that version
  cached,    \* the version in the operator's informer cache
  heap,      \* version -> the in-memory object shared by cache and readers
  lease,     \* [by, until]: the lease of the connection
  phase,     \* where each admission request, then its pod, is
  ref,       \* the version a request read
  ip,        \* the address a request took
  stamp,     \* when it took it
  born,      \* when the pod was stored
  seen,      \* the pod in the operator's pod cache
  rc,        \* the reconciler: [at, ref]
  tainted    \* addresses handed out from lists or maps known to be wrong

vars == <<now, rv, stored, cached, heap, lease, phase, ref, ip, stamp, born,
          seen, rc, tainted>>

requestVars == <<phase, ref, ip, stamp>>
podVars     == <<born, seen>>

Idle == [at |-> "idle", ref |-> 0]

Phases == {"new", "locked", "taken", "granted", "bound", "gone", "closed"}

-----------------------------------------------------------------------------
(* A connection no pod uses: after its first reconcile, without a PendingIPs *)
(* map (only an admission request creates it), or when its pods are gone     *)
(* again, with an empty one.                                                 *)

Unused(made) == Object(Pool, IpPools, [a \in IP |-> Absent], made, FALSE)
Fresh == Unused(FALSE)

Init ==
  /\ now = 0
  /\ rv = 0 /\ stored \in {Unused(made) : made \in BOOLEAN}
  /\ cached = 0 /\ heap = [v \in Version |-> IF v = 0 THEN stored ELSE Fresh]
  /\ lease = [by |-> NoReq, until |-> 0]
  /\ phase = [r \in Req |-> "new"]
  /\ ref = [r \in Req |-> 0]
  /\ ip = [r \in Req |-> NoIP]
  /\ stamp = [r \in Req |-> 0]
  /\ born = [r \in Req |-> 0]
  /\ seen = [r \in Req |-> "no"]
  /\ rc = Idle
  /\ tainted = {}

-----------------------------------------------------------------------------
(* The API server: an update that changes nothing keeps the version.        *)

SameObject(o1, o2) ==
  /\ o1.spec = o2.spec /\ o1.free = o2.free
  /\ o1.pending = o2.pending /\ o1.made = o2.made

Store(obj) ==
  /\ stored' = obj
  /\ \/ SameObject(obj, stored) /\ rv' = rv
     \/ ~SameObject(obj, stored) /\ rv < MaxVersion /\ rv' = rv + 1

\* A watch event brings the newest version, in a new object.  Versions no
\* goroutine still points at are garbage, and cleared to keep states few.
Deliver ==
  /\ cached < rv
  /\ cached' = rv
  /\ heap' = [v \in Version |->
       IF v = rv THEN stored
       ELSE IF v = rc.ref \/ \E r \in Req : ref[r] = v THEN heap[v]
       ELSE Fresh]
  /\ UNCHANGED <<now, rv, stored, lease, requestVars, podVars, rc, tainted>>

-----------------------------------------------------------------------------
(* The mutating webhook.                                                    *)

\* No pod comes of the request; its local variables die with the handler.
Close(r) ==
  /\ phase' = [phase EXCEPT ![r] = "closed"]
  /\ ref'   = [ref EXCEPT ![r] = 0]
  /\ ip'    = [ip EXCEPT ![r] = NoIP]
  /\ stamp' = [stamp EXCEPT ![r] = 0]

\* A held lease is given up only when its TTL has run out.  A dry run uses
\* dummyLocker.
Lock(r) ==
  /\ phase[r] = "new"
  /\ \/ r \in DryRun /\ UNCHANGED lease
     \/ /\ r \notin DryRun
        /\ lease.by = NoReq \/ lease.until <= now
        /\ lease' = [by |-> r, until |-> now + LeaseTTL]
  /\ phase' = [phase EXCEPT ![r] = "locked"]
  /\ UNCHANGED <<now, rv, stored, cached, heap, ref, ip, stamp, podVars, rc,
                 tainted>>

\* The denials after Lock: no such connection, child or free address, or no
\* gateway address yet (not modelled, so a request can always be refused).
\* None of them unlocks.
Refuse(r) ==
  /\ phase[r] = "locked"
  /\ Close(r)
  /\ UNCHANGED <<now, rv, stored, cached, heap, lease, podVars, rc, tainted>>

\* Mutants: the stamp is when the address expires; the address stays listed.
TakenUntil(o, p, a) ==
  Object(o.spec,
         [o.free EXCEPT ![p] = o.free[p] \ {a}],
         IF o.made THEN [o.pending EXCEPT ![a] = now + PendingTimeout] ELSE o.pending,
         o.made, o.raw)

TakenStillFree(o, p, a) ==
  Object(o.spec, o.free,
         IF o.made THEN [o.pending EXCEPT ![a] = now] ELSE o.pending,
         o.made, o.raw)

\* Object o with address a of pool p taken and stamped.  When PendingIPs is
\* nil the new map belongs to the handler's copy alone.
Taken(o, p, a) ==
  Object(o.spec,
         [o.free EXCEPT ![p] = o.free[p] \ {a}],
         IF o.made THEN [o.pending EXCEPT ![a] = now] ELSE o.pending,
         o.made, o.raw)

Offered(r) ==
  IF PoolOf[r] \in heap[cached].spec THEN heap[cached].free[PoolOf[r]] ELSE {}

\* The handler reads the cached object and takes the head of the pool (which
\* of the free addresses that is, is left open).
Take(r) ==
  /\ phase[r] = "locked" /\ r \notin DryRun
  /\ \E a \in Offered(r) :
       /\ heap' = [heap EXCEPT ![cached] = Taken(heap[cached], PoolOf[r], a)]
       /\ ip' = [ip EXCEPT ![r] = a]
       /\ tainted' = IF heap[cached].raw \/ ~heap[cached].made
                     THEN tainted \cup {a} ELSE tainted
  /\ ref' = [ref EXCEPT ![r] = cached]
  /\ stamp' = [stamp EXCEPT ![r] = now]
  /\ phase' = [phase EXCEPT ![r] = "taken"]
  /\ UNCHANGED <<now, rv, stored, cached, lease, podVars, rc>>

\* A dry run does the same and answers, without an update.
TakeDry(r) ==
  /\ phase[r] = "locked" /\ r \in DryRun
  /\ \E a \in Offered(r) :
       heap' = [heap EXCEPT ![cached] = Taken(heap[cached], PoolOf[r], a)]
  /\ Close(r)
  /\ UNCHANGED <<now, rv, stored, cached, lease, podVars, rc, tainted>>

\* What the handler sends: the shared maps as they are by now, with its own
\* PendingIPs if it had to make one.
Sent(r) ==
  LET o == heap[ref[r]]
  IN  IF o.made THEN o
      ELSE Object(o.spec, o.free, [o.pending EXCEPT ![ip[r]] = stamp[r]],
                  TRUE, o.raw)

\* Mutant: the update does not carry the version it was computed from.
GrantAnyVersion(r) ==
  /\ phase[r] = "taken"
  /\ Store(Sent(r))
  /\ phase' = [phase EXCEPT ![r] = "granted"]
  /\ ref' = [ref EXCEPT ![r] = 0]
  /\ UNCHANGED <<now, cached, heap, lease, ip, stamp, podVars, rc, tainted>>

\* The update is accepted and the patch goes out.  The lease stays.
Grant(r) ==
  /\ phase[r] = "taken" /\ ref[r] = rv
  /\ Store(Sent(r))
  /\ phase' = [phase EXCEPT ![r] = "granted"]
  /\ ref' = [ref EXCEPT ![r] = 0]
  /\ UNCHANGED <<now, cached, heap, lease, ip, stamp, podVars, rc, tainted>>

\* The update fails, by conflict or because the API server is unreachable, in
\* which case it may still have been applied: unlock, deny.  The maps keep
\* the address taken.
Fail(r) ==
  /\ phase[r] = "taken"
  /\ \/ UNCHANGED <<rv, stored>>
     \/ ref[r] = rv /\ Store(Sent(r))
  /\ Close(r)
  /\ lease' = IF lease.by = r THEN [by |-> NoReq, until |-> 0] ELSE lease
  /\ UNCHANGED <<now, cached, heap, podVars, rc, tainted>>

-----------------------------------------------------------------------------
(* Pods, from the API server to the operator's cache.                       *)

Persist(r) ==
  /\ phase[r] = "granted" /\ now <= stamp[r] + PersistWithin
  /\ phase' = [phase EXCEPT ![r] = "bound"]
  /\ born' = [born EXCEPT ![r] = now]
  /\ UNCHANGED <<now, rv, stored, cached, heap, lease, ref, ip, stamp, seen, rc,
                 tainted>>

\* The API server gave up on the call, or rejected the pod afterwards.
Drop(r) ==
  /\ phase[r] = "granted"
  /\ Close(r)
  /\ UNCHANGED <<now, rv, stored, cached, heap, lease, podVars, rc, tainted>>

Delete(r) ==
  /\ phase[r] = "bound"
  /\ phase' = [phase EXCEPT ![r] = "gone"]
  /\ UNCHANGED <<now, rv, stored, cached, heap, lease, ref, ip, stamp, podVars,
                 rc, tainted>>

\* The watch shows every pod as added, then as deleted.  From then on neither
\* the times nor the address of the pod matter.
Show(r) ==
  /\ seen[r] = "no" /\ phase[r] \in {"bound", "gone"}
  /\ seen' = [seen EXCEPT ![r] = "yes"]
  /\ stamp' = [stamp EXCEPT ![r] = 0]
  /\ born' = [born EXCEPT ![r] = 0]
  /\ UNCHANGED <<now, rv, stored, cached, heap, lease, phase, ref, ip, rc,
                 tainted>>

Forget(r) ==
  /\ phase[r] = "gone"
  /\ Close(r)
  /\ seen' = [seen EXCEPT ![r] = "no"]
  /\ born' = [born EXCEPT ![r] = 0]
  /\ UNCHANGED <<now, rv, stored, cached, heap, lease, rc, tainted>>

-----------------------------------------------------------------------------
(* The reconciler.                                                          *)

\* List the connection and overwrite its free lists with the whole pools, in
\* the shared maps; the lists of children no longer in the spec go.
WholePools(o) ==
  Object(o.spec, [p \in Pool |-> IF p \in o.spec THEN IpPools[p] ELSE {}],
         o.pending, o.made, TRUE)

Reset ==
  /\ rc.at = "idle"
  /\ rc' = [at |-> "reset", ref |-> cached]
  /\ heap' = [heap EXCEPT ![cached] = WholePools(heap[cached])]
  /\ UNCHANGED <<now, rv, stored, cached, lease, requestVars, podVars, tainted>>

\* Mutant: stamps expire as soon as a pod may be stored.
ExpiredEarly(t) == t + PersistWithin <= now

\* Stamps are cut to whole seconds, so at `now' = t + PendingTimeout of a
\* clock in whole seconds the time has passed.
Expired(t) == t + PendingTimeout <= now

PodIPs(spec) == {ip[r] : r \in {q \in Req : seen[q] = "yes" /\ PoolOf[q] \in spec}}

Pruned(o) ==
  [a \in IP |-> IF o.pending[a] # Absent /\ (Expired(o.pending[a]) \/ a \in PodIPs(o.spec))
                THEN Absent ELSE o.pending[a]]

\* Mutant: only pending addresses are taken off the free lists.
RemainingOfPending(o) ==
  Object(o.spec,
         [p \in Pool |-> {a \in o.free[p] : Pruned(o)[a] = Absent}],
         Pruned(o), o.made, FALSE)

Remaining(o) ==
  Object(o.spec,
         [p \in Pool |-> {a \in o.free[p] :
            Pruned(o)[a] = Absent /\ a \notin PodIPs(o.spec)}],
         Pruned(o), o.made, FALSE)

\* List the pods, drop the stamps of visible pods and the expired ones, and
\* take the stamped and the visible addresses off the free lists.
Recompute ==
  /\ rc.at = "reset"
  /\ rc' = [at |-> "listed", ref |-> rc.ref]
  /\ heap' = [heap EXCEPT ![rc.ref] = Remaining(heap[rc.ref])]
  /\ UNCHANGED <<now, rv, stored, cached, lease, requestVars, podVars, tainted>>

\* The update is accepted.
Save ==
  /\ rc.at = "listed" /\ rc.ref = rv
  /\ Store(heap[rc.ref])
  /\ rc' = Idle
  /\ UNCHANGED <<now, cached, heap, lease, requestVars, podVars, tainted>>

\* Pods, nodes or the group cannot be read, or the update fails: what was done
\* to the maps stays.  A retry after a conflict is a new Reset.
Abort ==
  /\ rc.at # "idle"
  /\ rc' = Idle
  /\ UNCHANGED <<now, rv, stored, cached, heap, lease, requestVars, podVars,
                 tainted>>

\* Actions of the same goroutine write other parts of the status (gateway
\* addresses, child states) and with them the shared maps.
OperatorWrite ==
  /\ "operator" \in Disturbance
  /\ rc.at = "idle" /\ cached = rv /\ rv < MaxVersion
  /\ stored' = heap[cached] /\ rv' = rv + 1
  /\ UNCHANGED <<now, cached, heap, lease, requestVars, podVars, rc, tainted>>

-----------------------------------------------------------------------------
(* Everyone else.                                                           *)

\* restctl's status monitor reads the object from the API server and writes
\* back other fields.
MonitorWrite ==
  /\ "monitor" \in Disturbance
  /\ rv < MaxVersion /\ rv' = rv + 1
  /\ UNCHANGED <<now, stored, cached, heap, lease, requestVars, podVars, rc,
                 tainted>>

\* A user adds children to the spec or removes some.
EditSpec(s) ==
  /\ "edit" \in Disturbance
  /\ s # stored.spec
  /\ rv < MaxVersion /\ rv' = rv + 1
  /\ stored' = Object(s, stored.free, stored.pending, stored.made, stored.raw)
  /\ UNCHANGED <<now, cached, heap, lease, requestVars, podVars, rc, tainted>>

\* The operator restarts: handlers die, caches are listed afresh.
Restart ==
  LET ended == {r \in Req : phase[r] \in {"locked", "taken", "gone"}}
      live  == {r \in Req : phase[r] = "bound"}
  IN
  /\ "restart" \in Disturbance
  /\ cached' = rv
  /\ heap' = [v \in Version |-> IF v = rv THEN stored ELSE Fresh]
  /\ rc' = Idle
  /\ phase' = [r \in Req |-> IF r \in ended THEN "closed" ELSE phase[r]]
  /\ ref' = [r \in Req |-> 0]
  /\ ip' = [r \in Req |-> IF r \in ended THEN NoIP ELSE ip[r]]
  /\ stamp' = [r \in Req |-> IF r \in ended \cup live THEN 0 ELSE stamp[r]]
  /\ born' = [r \in Req |-> 0]
  /\ seen' = [r \in Req |-> IF r \in live THEN "yes" ELSE "no"]
  /\ UNCHANGED <<now, rv, stored, lease, tainted>>

\* Time passes, but not beyond the lag of the pod cache.
Tick ==
  /\ now < MaxTime
  /\ \A r \in Req : phase[r] \in {"bound", "gone"} /\ seen[r] = "no"
                      => now < born[r] + CacheLag
  /\ now' = now + 1
  /\ UNCHANGED <<rv, stored, cached, heap, lease, requestVars, podVars, rc,
                 tainted>>

-----------------------------------------------------------------------------
Webhook(r) ==
  Lock(r) \/ Refuse(r) \/ Take(r) \/ TakeDry(r) \/ Grant(r) \/ Fail(r)
Pod(r)     == Persist(r) \/ Drop(r) \/ Delete(r) \/ Show(r) \/ Forget(r)
Reconciler == Reset \/ Recompute \/ Save \/ Abort \/ OperatorWrite

Next ==
  \/ \E r \in Req : Webhook(r) \/ Pod(r)
  \/ Reconciler
  \/ Deliver \/ MonitorWrite \/ Restart \/ Tick
  \/ \E s \in SUBSET Pool : EditSpec(s)

Spec == Init /\ [][Next]_vars

-----------------------------------------------------------------------------
(* Properties.                                                              *)

TypeOK ==
  /\ now \in Time
  /\ rv \in Version /\ cached \in Version /\ cached <= rv
  /\ stored \in Status
  /\ heap \in [Version -> Status]
  /\ lease \in [by : Req \cup {NoReq}, until : 0 .. MaxTime + LeaseTTL]
  /\ phase \in [Req -> Phases]
  /\ ref \in [Req -> Version]
  /\ ip \in [Req -> IP \cup {NoIP}]
  /\ stamp \in [Req -> Time]
  /\ born \in [Req -> Time]
  /\ seen \in [Req -> {"no", "yes"}]
  /\ rc \in [at : {"idle", "reset", "listed"}, ref : Version]
  /\ tainted \in SUBSET IP

\* The request's address is in use: its answer is on the way in time, its pod
\* is stored, or its pod is gone and the operator does not know yet.
Occupies(r) ==
  \/ phase[r] = "granted" /\ now <= stamp[r] + PersistWithin
  \/ phase[r] \in {"bound", "gone"}

\* No two pods of a connection get the same VXLAN address: what the lease of
\* the webhook is taken for (mutating_webhook.go:112-113).
OneOwnerPerIP ==
  \A r, q \in Req : r # q /\ Occupies(r) /\ Occupies(q) => ip[r] # ip[q]

\* Two pods share an address only if it was handed out while the free lists
\* were the reset ones, or before there was a PendingIPs map: apart from
\* these two windows the allocation by webhook and reconciler is exclusive,
\* under every interleaving, restart, failed update and cache lag.
OneOwnerOfCleanIP ==
  \A r, q \in Req :
    r # q /\ Occupies(r) /\ Occupies(q) /\ ip[r] = ip[q] => ip[r] \in tainted

\* An address the stored status lists as free is in use by nobody, unless
\* the list is a reset one that reached the API server.
FreeMeansUnused ==
  ~stored.raw =>
    \A r \in Req : Occupies(r) /\ ip[r] \notin tainted
                     => ip[r] \notin stored.free[PoolOf[r]]

\* The stored status never lists an address as free and pending.
PendingIsNotFree ==
  ~stored.raw =>
    \A p \in Pool : \A a \in stored.free[p] :
      stored.pending[a] # Absent => a \in tainted

\* The allocation keeps the promise of IpPool: requests get addresses one
\* holder at a time, except for the tainted ones.
Pools == INSTANCE IpPool WITH
  owner <- [r \in Req |-> IF Occupies(r) THEN ip[r] ELSE NoIP],
  suspect <- tainted

KeepsPoolPromise == Pools!Spec

\* A dry run leaves no trace in the operator's memory
\* (mutating_webhook.go:36: "For dry run, we don't want side effects").
DryRunHasNoSideEffects ==
  [][\A r \in DryRun : phase'[r] # phase[r] => heap' = heap]_vars
=============================================================================
