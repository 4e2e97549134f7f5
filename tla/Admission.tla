----------------------------- MODULE Admission -----------------------------
(***************************************************************************)
(* The validating webhook (internal/webhook/v1/validating_webhook.go)      *)
(* judges the creation, the update and the deletion of an IPSecConnection  *)
(* by the worker pods in the operator's cache; the API server makes the    *)
(* change afterwards, unless the object has changed since it was judged.   *)
(* Meanwhile worker pods are admitted from the free lists of the cached    *)
(* object, which follow the spec late (module IpAllocation has how an      *)
(* address is chosen), and come and go.                                    *)
(* The group of a connection exists (module Groups).  Conn are the values  *)
(* of metadata.name, by which pods name their connection.                  *)
(***************************************************************************)
EXTENDS Integers, FiniteSets

CONSTANTS
  Conn, Child, Pool, IP,
  SpecName,     \* connection -> its spec.name
  IfId,         \* interface ids, which stand for all that may not be changed
  Subnet,       \* local subnets: sets of addresses
  Specs,        \* the specs users ask for: child -> what it consists of
  MaxRequests,  \* bound on the requests judged and not yet done
  MaxEdits      \* bound on the requests altogether

NoChild   == [ifid |-> 0, pools |-> [q \in Pool |-> {}], local |-> {}]
ChildSpec == [ifid : IfId, pools : [Pool -> SUBSET IP], local : SUBSET Subnet] \cup {NoChild}
Absent    == [k \in Child |-> NoChild]

ASSUME AdmissionAssumption ==
  /\ IfId \subseteq Nat \ {0} /\ Subnet \subseteq SUBSET IP
  /\ Specs \subseteq [Child -> ChildSpec]
  /\ MaxRequests \in Nat /\ MaxEdits \in Nat

\* A worker pod, by its annotations; its address is its own.
Pods    == [conn : Conn, child : Child, ip : IP]
Offers  == [conn : Conn, child : Child, pool : Pool, ip : IP]
\* A request that was let pass: the object before and after it, and the pods
\* that were in the cache.
Requests == [conn : Conn, old : [Child -> ChildSpec], new : [Child -> ChildSpec],
             seen : SUBSET Pods]

VARIABLES
  stored,      \* connection -> its spec, Absent: there is no such connection
  requests,    \* requests let pass and not yet done
  pods, seen,  \* worker pods, and those in the operator's cache
  known,       \* the connections in the operator's cache
  offered,     \* the free lists there
  original,    \* ghost: the children a connection has had since it was created
  edits        \* number of requests so far

vars == <<stored, requests, pods, seen, known, offered, original, edits>>

Kids(spec) == {k \in Child : spec[k].ifid # 0}

Init ==
  /\ stored = [c \in Conn |-> Absent] /\ requests = {}
  /\ pods = {} /\ seen = {} /\ known = {} /\ offered = {}
  /\ original = [c \in Conn |-> {}]
  /\ edits = 0

-----------------------------------------------------------------------------
(* The webhook's verdict.                                                   *)

\* Mutant: interface ids are not looked at.
UniqueAddresses(spec, ks) ==
  \A k \in ks, p, q \in Pool : p # q => spec[k].pools[p] \cap spec[k].pools[q] = {}

\* validateIPSecConnectionUnique, for the children ks: an address is in one pool
\* of a child, an interface id is of one child.
Unique(spec, ks) ==
  /\ \A k \in ks, p, q \in Pool : p # q => spec[k].pools[p] \cap spec[k].pools[q] = {}
  /\ \A j, k \in ks : j # k => spec[j].ifid # spec[k].ifid

\* No other connection has the spec.name of this one, as far as the cache knows.
NameIsFree(c) == \A d \in known : SpecName[d] # SpecName[c]

\* validateIPSecConnectionCreation: it is the spec.name that is looked for in the
\* annotations of pods, which have a metadata.name.
CreationOK(c, new, view) == (\A p \in view : p.conn # SpecName[c]) /\ Unique(new, Kids(new))

DeletionOK(c, old, view) == \A p \in view : p.conn = c => p.child \notin Kids(old)

Dependent(c, old, new, view) ==
  {p \in view : p.conn = c /\ p.child \in Kids(old) \cup Kids(new)}

\* Mutant: only pools are compared.
UpdateOfPools(c, old, new, view) ==
  LET kept      == Kids(old) \cap Kids(new)
      dependent == Dependent(c, old, new, view)
  IN  /\ Cardinality(Kids(old)) # Cardinality(Kids(new))
           => \A p \in dependent : p.child \notin Kids(old) \ Kids(new)
      /\ \A k \in kept :
           /\ new[k].ifid = old[k].ifid
           /\ \A p \in dependent, q \in Pool : p.ip \notin old[k].pools[q] \ new[k].pools[q]
      /\ Unique(new, kept)

\* validateIPSecConnectionUpdate.  Children that go are looked at if their number
\* changes, those that come not at all; of the others, pools and subnets can be
\* changed, but not those a pod has its address in.
UpdateOK(c, old, new, view) ==
  LET kept      == Kids(old) \cap Kids(new)
      dependent == Dependent(c, old, new, view)
  IN  /\ Cardinality(Kids(old)) # Cardinality(Kids(new))
           => \A p \in dependent : p.child \notin Kids(old) \ Kids(new)
      /\ \A k \in kept :
           /\ new[k].ifid = old[k].ifid
           /\ \A p \in dependent, q \in Pool : p.ip \notin old[k].pools[q] \ new[k].pools[q]
           /\ \A p \in view, s \in old[k].local \ new[k].local : p.ip \notin s
      /\ Unique(new, kept)

\* getAction, ServeHTTP.
Verdict(c, old, new, view) ==
  IF old = Absent THEN CreationOK(c, new, view)
  ELSE IF new = Absent THEN DeletionOK(c, old, view)
  ELSE UpdateOK(c, old, new, view)

\* A request that is refused leaves no trace.
Judge(c, new) ==
  /\ edits < MaxEdits /\ edits' = edits + 1
  /\ Cardinality(requests) < MaxRequests
  /\ new # stored[c] /\ Verdict(c, stored[c], new, seen)
  /\ stored[c] = Absent => NameIsFree(c)
  /\ requests' = requests \cup {[conn |-> c, old |-> stored[c], new |-> new, seen |-> seen]}
  /\ UNCHANGED <<stored, pods, seen, known, offered, original>>

-----------------------------------------------------------------------------
(* The API server, and the operator's caches (external).                    *)

Kept(r) == IF r.old = Absent THEN Kids(r.new) ELSE original[r.conn] \cap Kids(r.new)

\* Mutant: a change does not make the other requests fail that were judged
\* before it.
CommitBlindly(r) ==
  /\ stored' = [stored EXCEPT ![r.conn] = r.new]
  /\ original' = [original EXCEPT ![r.conn] = Kept(r)]
  /\ requests' = requests \ {r}
  /\ UNCHANGED <<pods, seen, known, offered, edits>>

\* The change is made; requests for the same object judged before it conflict.
Commit(r) ==
  /\ stored' = [stored EXCEPT ![r.conn] = r.new]
  /\ original' = [original EXCEPT ![r.conn] = Kept(r)]
  /\ requests' = {q \in requests : q.conn # r.conn}
  /\ UNCHANGED <<pods, seen, known, offered, edits>>

\* The request is given up.
Drop(r) ==
  /\ requests' = requests \ {r}
  /\ UNCHANGED <<stored, pods, seen, known, offered, original, edits>>

\* A worker pod is admitted with an address the cached free lists have.
Admit(o) ==
  /\ pods' = pods \cup {[conn |-> o.conn, child |-> o.child, ip |-> o.ip]}
  /\ UNCHANGED <<stored, requests, seen, known, offered, original, edits>>

Delete(p) ==
  /\ pods' = pods \ {p}
  /\ UNCHANGED <<stored, requests, seen, known, offered, original, edits>>

\* The watch of the pods delivers one that has come or gone.
Deliver(p) ==
  /\ seen' = IF p \in pods THEN seen \cup {p} ELSE seen \ {p}
  /\ UNCHANGED <<stored, requests, pods, known, offered, original, edits>>

\* The cache has the connection, or has it no more, and its free lists, computed
\* anew: those of a child that is gone are deleted, those of a pool that is gone
\* from its child are not.
Refresh(c) ==
  LET spec == stored[c]
      listed(o) == spec[o.child].pools[o.pool]
  IN
  /\ offered' = {o \in offered : o.conn # c \/ (o.child \in Kids(spec) /\ listed(o) = {})}
                 \cup {o \in Offers : o.conn = c /\ o.ip \in listed(o)}
  /\ known' = IF spec = Absent THEN known \ {c} ELSE known \cup {c}
  /\ UNCHANGED <<stored, requests, pods, seen, original, edits>>

Environment ==
  \/ \E o \in offered : Admit(o)
  \/ \E p \in pods : Delete(p)
  \/ \E p \in pods \cup seen : Deliver(p)
  \/ \E c \in Conn : Refresh(c)

Next ==
  \/ \E c \in Conn, new \in Specs \cup {Absent} : Judge(c, new)
  \/ \E r \in requests : Commit(r) \/ Drop(r)
  \/ Environment

Spec == Init /\ [][Next]_vars

-----------------------------------------------------------------------------
(* Properties.                                                              *)

TypeOK ==
  /\ stored \in [Conn -> [Child -> ChildSpec]]
  /\ requests \in SUBSET Requests
  /\ \A r \in requests : stored[r.conn] = r.old
  /\ pods \in SUBSET Pods /\ seen \in SUBSET Pods
  /\ known \in SUBSET Conn /\ offered \in SUBSET Offers
  /\ original \in [Conn -> SUBSET Child]
  /\ edits \in 0 .. MaxEdits

\* What a pod has from its connection, it keeps: its child, its address in a pool
\* of it, and the subnets its address is in.  Where spec.name is metadata.name, it
\* is not given to a new connection either.
Keeps(p, old, new) ==
  /\ old = Absent => SpecName[p.conn] # p.conn
  /\ p.child \in Kids(old) => p.child \in Kids(new)
  /\ (\E q \in Pool : p.ip \in old[p.child].pools[q]) => (\E q \in Pool : p.ip \in new[p.child].pools[q])
  /\ {s \in old[p.child].local : p.ip \in s} \subseteq new[p.child].local

\* As many children come as go.
Exchanged(k, old, new) ==
  k \in Kids(old) \ Kids(new) /\ new # Absent /\ Cardinality(Kids(old)) = Cardinality(Kids(new))

\* A change, however long after its verdict it is made and whatever happens in
\* between, takes nothing from a pod that was in the cache at the verdict (58-79,
\* 105-117, 166-286), unless children were exchanged.
SeenPodsKeepTheirs ==
  [][\A p \in pods :
       LET old == stored[p.conn]
           new == stored'[p.conn]
       IN  \/ new = old \/ Keeps(p, old, new) \/ Exchanged(p.child, old, new)
           \/ \E r \in requests : r.conn = p.conn /\ r.new = new /\ p \notin r.seen]_vars

\* Children a connection has had since its creation never share an interface id,
\* nor pools of one an address, although a child that is added later may have any
\* id and updates are compared with the object before them only (82-103, 204-221).
OriginalsAreUnique ==
  \A c \in Conn, k \in Child : k \in original[c] =>
    /\ \A j \in original[c] : stored[c][j].ifid = stored[c][k].ifid => j = k
    /\ \A p, q \in Pool : stored[c][k].pools[p] \cap stored[c][k].pools[q] # {} => p = q
=============================================================================
