-------------------------- MODULE Admission_proofs --------------------------
(***************************************************************************)
(* What the webhook's verdicts guarantee at the time the change is made,   *)
(* for any connections, children, pools, addresses, requests and pods.     *)
(* The invariant: of every request that was let pass, the object is still  *)
(* the one it was judged by, and the verdict, on the pods of that time,    *)
(* stands.                                                                 *)
(***************************************************************************)
EXTENDS Admission, TLAPS

\* A request in flight was judged by the object that is stored.
Judged ==
  \A r \in requests :
    /\ stored[r.conn] = r.old /\ r.old # r.new
    /\ Verdict(r.conn, r.old, r.new, r.seen)

\* The children a connection has had from the start are unique, and still there.
Originals ==
  \A c \in Conn : original[c] \subseteq Kids(stored[c]) /\ Unique(stored[c], original[c])

IInv == TypeOK /\ Judged /\ Originals

\* No connection: no child.
LEMMA AbsentOK == Absent \in [Child -> ChildSpec] /\ Kids(Absent) = {} /\ \A s : Unique(s, {})
BY DEF Absent, NoChild, ChildSpec, Kids, Unique

-----------------------------------------------------------------------------
(* The steps.                                                               *)

LEMMA JudgeOK ==
  ASSUME IInv, NEW c \in Conn, NEW new \in Specs \cup {Absent}, Judge(c, new)
  PROVE  IInv'
<1> USE DEF IInv
<1> DEFINE r == [conn |-> c, old |-> stored[c], new |-> new, seen |-> seen]
<1>1. new \in [Child -> ChildSpec] /\ stored[c] \in [Child -> ChildSpec]
  BY AbsentOK, AdmissionAssumption DEF TypeOK
<1>2. r \in Requests
  BY <1>1 DEF Requests, TypeOK
<1>3. UNCHANGED <<stored, pods, seen, known, offered, original>> /\ requests' = requests \cup {r}
  BY DEF Judge
<1>4. (edits \in 0 .. MaxEdits)'
  BY AdmissionAssumption DEF Judge, TypeOK
<1>5. stored[r.conn] = r.old /\ r.old # r.new /\ Verdict(r.conn, r.old, r.new, r.seen)
  BY DEF Judge
<1> HIDE DEF r
<1>6. TypeOK'
  BY <1>2, <1>3, <1>4, <1>5 DEF TypeOK
<1>7. Judged'
  BY <1>3, <1>5 DEF Judged
<1>8. Originals'
  BY <1>3 DEF Originals
<1> QED
  BY <1>6, <1>7, <1>8

\* The children kept by a request are unique.
LEMMA KeptUnique ==
  ASSUME IInv, NEW r \in requests
  PROVE  Kept(r) \subseteq Kids(r.new) /\ Unique(r.new, Kept(r))
<1> USE DEF IInv
<1>1. r.conn \in Conn /\ stored[r.conn] = r.old /\ Verdict(r.conn, r.old, r.new, r.seen)
  BY DEF TypeOK, Requests, Judged
<1>2. Kept(r) \subseteq Kids(r.new)
  BY DEF Kept
<1>3. CASE r.old = Absent
  BY <1>1, <1>3 DEF Kept, Verdict, CreationOK
<1>4. CASE r.old # Absent /\ r.new = Absent
  <2>1. Kept(r) = {}
    BY <1>2, <1>4, AbsentOK
  <2> QED
    BY <2>1, AbsentOK
<1>5. CASE r.old # Absent /\ r.new # Absent
  <2>1. Unique(r.new, Kids(r.old) \cap Kids(r.new))
    BY <1>1, <1>5 DEF Verdict, UpdateOK
  <2>2. Kept(r) \subseteq Kids(r.old) \cap Kids(r.new)
    BY <1>1, <1>5 DEF Kept, Originals
  <2> QED
    BY <2>1, <2>2 DEF Unique
<1> QED
  BY <1>2, <1>3, <1>4, <1>5

LEMMA CommitOK ==
  ASSUME IInv, NEW r \in requests, Commit(r)
  PROVE  IInv'
<1> USE DEF IInv
<1>1. r.conn \in Conn /\ r.new \in [Child -> ChildSpec]
  BY DEF TypeOK, Requests
<1>2. /\ stored' = [stored EXCEPT ![r.conn] = r.new]
      /\ original' = [original EXCEPT ![r.conn] = Kept(r)]
      /\ requests' = {q \in requests : q.conn # r.conn}
      /\ UNCHANGED <<pods, seen, known, offered, edits>>
  BY DEF Commit
<1>3. Kept(r) \subseteq Kids(r.new) /\ Unique(r.new, Kept(r)) /\ Kept(r) \in SUBSET Child
  BY KeptUnique DEF Kids
<1>4. \A q \in requests' : q \in requests /\ stored'[q.conn] = stored[q.conn]
  BY <1>1, <1>2 DEF TypeOK, Requests
<1>5. TypeOK'
  <2>1. stored' \in [Conn -> [Child -> ChildSpec]] /\ original' \in [Conn -> SUBSET Child]
    BY <1>1, <1>2, <1>3 DEF TypeOK
  <2> QED
    BY <1>2, <1>4, <2>1 DEF TypeOK
<1>6. Judged'
  BY <1>4 DEF Judged
<1>7. ASSUME NEW c \in Conn
      PROVE  original'[c] \subseteq Kids(stored'[c]) /\ Unique(stored'[c], original'[c])
  <2>1. CASE c = r.conn
    BY <1>1, <1>2, <1>3, <2>1 DEF TypeOK
  <2>2. CASE c # r.conn
    BY <1>1, <1>2, <2>2 DEF TypeOK, Originals
  <2> QED
    BY <2>1, <2>2
<1> QED
  BY <1>5, <1>6, <1>7 DEF Originals

LEMMA OthersOK ==
  ASSUME IInv, Environment \/ (\E r \in requests : Drop(r)) \/ UNCHANGED vars
  PROVE  IInv' /\ UNCHANGED stored
<1> USE DEF IInv
<1>1. UNCHANGED <<stored, original, edits>> /\ requests' \subseteq requests
  BY DEF Environment, Admit, Delete, Deliver, Refresh, Drop, vars
<1>2. (pods \in SUBSET Pods)'
  BY DEF TypeOK, Environment, Admit, Delete, Deliver, Refresh, Drop, vars, Pods, Offers
<1>3. (seen \in SUBSET Pods)'
  BY DEF TypeOK, Environment, Admit, Delete, Deliver, Refresh, Drop, vars
<1>4. (known \in SUBSET Conn /\ offered \in SUBSET Offers)'
  BY DEF TypeOK, Environment, Admit, Delete, Deliver, Refresh, Drop, vars
<1>5. TypeOK'
  BY <1>1, <1>2, <1>3, <1>4 DEF TypeOK
<1>6. Judged' /\ Originals'
  BY <1>1 DEF Judged, Originals
<1> QED
  BY <1>1, <1>5, <1>6

LEMMA InitOK == Init => IInv
<1> SUFFICES ASSUME Init PROVE IInv
  OBVIOUS
<1>1. TypeOK /\ Judged
  BY AbsentOK, AdmissionAssumption DEF Init, TypeOK, Judged
<1>2. Originals
  BY AbsentOK DEF Init, Originals
<1> QED
  BY <1>1, <1>2 DEF IInv

LEMMA NextOK == IInv /\ [Next]_vars => IInv'
BY JudgeOK, CommitOK, OthersOK DEF Next

-----------------------------------------------------------------------------
(* The theorems.                                                            *)

\* The variables have their types, and a request in flight was judged by the
\* object that is stored.
THEOREM TypeCorrect == Spec => []TypeOK
<1>1. IInv => TypeOK
  BY DEF IInv
<1> QED
  BY <1>1, InitOK, NextOK, PTL DEF Spec

\* Children that were there from the start stay unique, through any updates.
THEOREM OriginalsCorrect == Spec => []OriginalsAreUnique
<1>1. IInv => OriginalsAreUnique
  BY DEF IInv, Originals, OriginalsAreUnique, Unique
<1> QED
  BY <1>1, InitOK, NextOK, PTL DEF Spec

\* What a verdict lets pass takes nothing from a pod the cache had.
LEMMA VerdictKeeps ==
  ASSUME NEW c \in Conn, NEW old \in [Child -> ChildSpec], NEW new \in [Child -> ChildSpec],
         old # new, NEW view \in SUBSET Pods, Verdict(c, old, new, view),
         NEW p \in view, p.conn = c
  PROVE  Keeps(p, old, new) \/ Exchanged(p.child, old, new)
<1>0. p.child \in Child /\ p.ip \in IP
  BY DEF Pods
<1>1. CASE old = Absent
  <2>1. p.conn # SpecName[c]
    BY <1>1 DEF Verdict, CreationOK
  <2>2. old[p.child] = NoChild
    BY <1>0, <1>1 DEF Absent
  <2>3. p.child \notin Kids(old)
    BY <2>2 DEF Kids, NoChild
  <2> QED
    BY <2>1, <2>2, <2>3 DEF Keeps, NoChild
<1>2. CASE old # Absent /\ p.child \notin Kids(old)
  <2>1. old[p.child] = NoChild
    <3>1. old[p.child] \in ChildSpec /\ old[p.child].ifid = 0
      BY <1>0, <1>2 DEF Kids
    <3> QED
      BY <3>1, AdmissionAssumption DEF ChildSpec
  <2> QED
    BY <1>2, <2>1 DEF Keeps, NoChild
<1>3. CASE old # Absent /\ p.child \in Kids(old) /\ new = Absent
  BY <1>3 DEF Verdict, DeletionOK
<1>4. CASE old # Absent /\ p.child \in Kids(old) /\ new # Absent
  <2>1. UpdateOK(c, old, new, view)
    BY <1>4 DEF Verdict
  <2>2. p \in Dependent(c, old, new, view)
    BY <1>4 DEF Dependent
  <2>3. CASE p.child \notin Kids(new)
    BY <1>4, <2>1, <2>2, <2>3 DEF UpdateOK, Exchanged
  <2>4. CASE p.child \in Kids(new)
    <3>1. \A q \in Pool : p.ip \in old[p.child].pools[q] => p.ip \in new[p.child].pools[q]
      BY <1>4, <2>1, <2>2, <2>4 DEF UpdateOK
    <3>2. \A s \in old[p.child].local : p.ip \in s => s \in new[p.child].local
      BY <1>4, <2>1, <2>4 DEF UpdateOK
    <3> QED
      BY <1>4, <2>4, <3>1, <3>2 DEF Keeps
  <2> QED
    BY <2>3, <2>4
<1> QED
  BY <1>1, <1>2, <1>3, <1>4

\* ... at the time the change is made, too.
THEOREM SeenPodsKeep == Spec => SeenPodsKeepTheirs
<1>1. ASSUME IInv, [Next]_vars
      PROVE  [\A p \in pods :
                LET old == stored[p.conn]
                    new == stored'[p.conn]
                IN  \/ new = old \/ Keeps(p, old, new) \/ Exchanged(p.child, old, new)
                    \/ \E r \in requests : r.conn = p.conn /\ r.new = new /\ p \notin r.seen]_vars
  <2> SUFFICES ASSUME Next, NEW p \in pods, stored'[p.conn] # stored[p.conn],
                      \A r \in requests : r.conn = p.conn /\ r.new = stored'[p.conn] => p \in r.seen
               PROVE  \/ Keeps(p, stored[p.conn], stored'[p.conn])
                      \/ Exchanged(p.child, stored[p.conn], stored'[p.conn])
    BY <1>1
  <2>1. PICK r \in requests : Commit(r)
    BY <1>1, OthersOK DEF Next, Judge
  <2>2. r \in Requests /\ p \in Pods /\ stored \in [Conn -> [Child -> ChildSpec]]
    BY <1>1 DEF IInv, TypeOK
  <2>3. stored' = [stored EXCEPT ![r.conn] = r.new]
    BY <2>1 DEF Commit
  <2>4. r.conn = p.conn /\ stored'[p.conn] = r.new /\ p.conn \in Conn
    BY <2>2, <2>3 DEF Requests, Pods
  <2>5. p \in r.seen /\ r.old = stored[p.conn] /\ r.old # r.new /\ Verdict(r.conn, r.old, r.new, r.seen)
    BY <1>1, <2>4 DEF IInv, Judged
  <2>6. r.old \in [Child -> ChildSpec] /\ r.new \in [Child -> ChildSpec] /\ r.seen \in SUBSET Pods
    BY <2>2 DEF Requests
  <2> QED
    BY <2>4, <2>5, <2>6, VerdictKeeps
<1> QED
  BY <1>1, InitOK, NextOK, PTL DEF Spec, SeenPodsKeepTheirs
=============================================================================
