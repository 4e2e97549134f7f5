--------------------------- MODULE XfrmPod_proofs ---------------------------
(***************************************************************************)
(* XfrmPod never publishes a running pod without links, for any routes,    *)
(* places, faults and their number: types first, then the invariant GInv,  *)
(* which follows the address from the setup to the publication.            *)
(***************************************************************************)
EXTENDS XfrmPod, SequenceLemmas

-----------------------------------------------------------------------------
(* Sequences of steps.                                                      *)

\* A function's image of a finite set is finite.
LEMMA ImageIsFinite ==
  ASSUME NEW S, IsFiniteSet(S), NEW T, NEW f \in [S -> T],
         \A y \in T : \E x \in S : f[x] = y
  PROVE  IsFiniteSet(T)
<1>1. f \in Surjection(S, T)
  BY DEF Surjection
<1> QED
  BY <1>1, FS_Surjection

\* The changes of a kind are finitely many steps.
LEMMA ChangedIsFinite ==
  ASSUME NEW from \in SUBSET Route, NEW to \in SUBSET Route, NEW kind
  PROVE  IsFiniteSet(Changed(kind, from, to)) /\ Changed(kind, from, to) \subseteq Step
<1> DEFINE rs == OfKind(kind) \cap ((from \ to) \cup (to \ from))
           f == [r \in rs |-> Change(IF r \in to THEN "add" ELSE "remove", r)]
<1>1. IsFiniteSet(rs)
  <2>1. rs \subseteq Route
    BY DEF OfKind
  <2> QED
    BY <2>1, FS_Subset, XfrmAssumption
<1>2. f \in [rs -> Changed(kind, from, to)]
  BY DEF Changed
<1>3. \A y \in Changed(kind, from, to) : \E x \in rs : f[x] = y
  BY DEF Changed
<1>4. Changed(kind, from, to) \subseteq Step
  BY DEF Changed, OfKind, Change, Step
<1> HIDE DEF rs, f
<1> QED
  BY <1>1, <1>2, <1>3, <1>4, ImageIsFinite

\* What diffRoutes returns is a sequence of steps ...
LEMMA ChangesAreSteps ==
  ASSUME NEW from \in SUBSET Route, NEW to \in SUBSET Route, NEW s \in Changes(from, to)
  PROVE  s \in Seq(Step)
<1>1. \A kind : \A t \in SetToSeqs(Changed(kind, from, to)) : t \in Seq(Step)
  <2> TAKE kind
  <2> TAKE t \in SetToSeqs(Changed(kind, from, to))
  <2>1. IsFiniteSet(Changed(kind, from, to)) /\ Changed(kind, from, to) \subseteq Step
    BY ChangedIsFinite
  <2>2. t \in Seq(Changed(kind, from, to))
    BY <2>1, OrderingIsSeq
  <2> QED
    BY <2>1, <2>2, SeqMonotonic
<1>2. PICK l \in SetToSeqs(Changed("local", from, to)),
           r \in SetToSeqs(Changed("remote", from, to)),
           f \in SetToSeqs(Changed("fdb", from, to)) : s = l \o r \o f
  BY DEF Changes
<1>3. l \in Seq(Step) /\ r \in Seq(Step) /\ f \in Seq(Step)
  BY <1>1
<1>4. l \o r \in Seq(Step)
  BY <1>3, ConcatProperties
<1> QED
  BY <1>2, <1>3, <1>4, ConcatProperties

\* ... and so is what diffXfrms returns.
LEMMA ActionsAreSteps ==
  ASSUME TypeOK, NEW s \in Actions
  PROVE  s \in Seq(Step)
<1>1. \A place \in Place, routes \in SUBSET Route :
        Create(place, routes) \in Step /\ Delete \in Step
  BY DEF Create, Delete, Step
<1>2. Delete \in Step
  BY DEF Delete, Step
<1>3. want.place \in Place /\ want.routes \in SUBSET Route
  BY DEF TypeOK
<1>4. CASE seen = NoPod /\ want.on
  <2>1. PICK t \in Changes({}, want.routes) : s = <<Create(want.place, {})>> \o t
    BY <1>4 DEF Actions
  <2>2. t \in Seq(Step)
    BY <1>3, ChangesAreSteps
  <2>3. <<Create(want.place, {})>> \in Seq(Step)
    BY <1>1, <1>3
  <2> QED
    BY <2>1, <2>2, <2>3, ConcatProperties
<1>5. CASE seen = NoPod /\ ~want.on
  BY <1>5, EmptySeq DEF Actions
<1>6. CASE seen # NoPod /\ ~want.on
  <2>1. s = <<Delete>>
    BY <1>6 DEF Actions
  <2> QED
    BY <2>1, <1>2
<1>7. CASE seen # NoPod /\ want.on /\ Misplaced(seen)
  <2>1. s = <<Delete, Create(want.place, want.routes)>>
    BY <1>7 DEF Actions
  <2> QED
    BY <2>1, <1>1, <1>2, <1>3
<1>8. CASE seen # NoPod /\ want.on /\ ~Misplaced(seen)
  <2>1. s \in Changes(seen.note, want.routes)
    BY <1>8 DEF Actions
  <2>2. seen.note \in SUBSET Route
    BY <1>8 DEF TypeOK, Pods
  <2> QED
    BY <2>1, <2>2, <1>3, ChangesAreSteps
<1> QED
  BY <1>4, <1>5, <1>6, <1>7, <1>8

\* The first action of the list, and the rest.
LEMMA HeadIsStep ==
  ASSUME TypeOK, todo # <<>>
  PROVE  /\ Head(todo) \in Step /\ Tail(todo) \in Seq(Step)
         /\ Head(todo).do = "create" => /\ Head(todo).place \in Place
                                        /\ Head(todo).routes \in SUBSET Route
         /\ Head(todo).do \in {"add", "remove"} => Head(todo).route \in Route
<1>0. todo \in Seq(Step)
  BY DEF TypeOK
<1>1. Head(todo) \in Step /\ Tail(todo) \in Seq(Step)
  BY <1>0, HeadTailProperties
<1> QED
  BY <1>1 DEF Step

\* The fields of a pod; the absent pod is the one without identity.
LEMMA PodFields ==
  ASSUME NEW p \in Pods \cup {NoPod}
  PROVE  /\ p.life \in Lives /\ p.note \in SUBSET Route /\ p.place \in Place
         /\ p.id \in PodId \cup {0}
         /\ p = NoPod <=> p.id = 0
  BY XfrmAssumption DEF Pods, NoPod, PodId, Lives

\* A pod whose life or annotation changes is the same pod.
LEMMA PodUpdates ==
  ASSUME NEW p \in Pods, NEW life \in Lives, NEW note \in SUBSET Route
  PROVE  /\ [p EXCEPT !.life = life] \in Pods /\ [p EXCEPT !.note = note] \in Pods
         /\ [p EXCEPT !.life = life].id = p.id /\ [p EXCEPT !.life = life].life = life
         /\ [p EXCEPT !.note = note].id = p.id /\ [p EXCEPT !.note = note].life = p.life
  BY DEF Pods

\* A new pod finds an identity that nothing refers to.
LEMMA NewIdentity ==
  \E i \in PodId : i \notin {seen.id, gateway, target}
  BY DEF PodId

-----------------------------------------------------------------------------
(* Types.                                                                   *)

\* The initial states.
LEMMA TypeInit ==
  Init => TypeOK
<1> SUFFICES ASSUME Init PROVE TypeOK
  OBVIOUS
<1>1. want \in [on : BOOLEAN, place : Place, routes : SUBSET Route]
  BY XfrmAssumption DEF Init
<1>2. todo \in Seq(Step)
  BY EmptySeq DEF Init
<1> QED
  BY <1>1, <1>2, XfrmAssumption DEF Init, TypeOK

\* A pass that ends leaves nothing behind.
LEMMA TypeStop ==
  ASSUME Stop
  PROVE  /\ at' = "idle" /\ todo' = <<>> /\ todo' \in Seq(Step)
         /\ draft' \in SUBSET Route /\ target' \in PodId \cup {0}
  BY EmptySeq DEF Stop

\* A write of the pod makes the cache outdated.
LEMMA TypePut ==
  ASSUME TypeOK, NEW p \in Pods \cup {NoPod}, Put(p)
  PROVE  /\ pod' \in Pods \cup {NoPod} /\ seen' \in Pods \cup {NoPod}
         /\ fresh' \in BOOLEAN /\ (fresh' => seen' = pod')
  BY DEF Put, TypeOK

\* Faults are counted up to the bound.
LEMMA TypeFault ==
  ASSUME TypeOK, NEW kind, Fault(kind)
  PROVE  faults' \in 0 .. MaxFaults
  BY XfrmAssumption DEF Fault, TypeOK

\* A pod on its way out.
LEMMA TypeDepart ==
  ASSUME TypeOK, pod # NoPod, Depart
  PROVE  /\ pod' \in Pods \cup {NoPod} /\ seen' \in Pods \cup {NoPod}
         /\ fresh' \in BOOLEAN /\ (fresh' => seen' = pod')
         /\ links' \in SUBSET Links /\ kernel' \in SUBSET Route
<1>1. pod \in Pods
  BY DEF TypeOK
<1>2. [pod EXCEPT !.life = "ending"] \in Pods
  BY <1>1, PodUpdates DEF Lives
<1>3. Put(NoPod) \/ Put([pod EXCEPT !.life = "ending"])
  BY DEF Depart, Live
<1>4. links' \in SUBSET Links /\ kernel' \in SUBSET Route
  BY DEF Depart, minionVars, TypeOK
<1> QED
  BY <1>2, <1>3, <1>4, TypePut

\* Every action keeps the types.
LEMMA TypeKubernetes ==
  ASSUME TypeOK, Kubernetes
  PROVE  TypeOK'
<1>1. /\ UNCHANGED <<want, gateway, at, todo, target, draft>>
  BY DEF Kubernetes, operatorVars
<1>2. ASSUME NEW life \in Lives, pod # NoPod, Live(life)
      PROVE  /\ pod' \in Pods \cup {NoPod} /\ seen' \in Pods \cup {NoPod}
             /\ fresh' \in BOOLEAN /\ (fresh' => seen' = pod')
  <2>1. [pod EXCEPT !.life = life] \in Pods
    BY <1>2, PodUpdates DEF TypeOK
  <2> QED
    BY <1>2, <2>1, TypePut DEF Live
<1> SUFFICES /\ pod' \in Pods \cup {NoPod} /\ seen' \in Pods \cup {NoPod}
             /\ fresh' \in BOOLEAN /\ (fresh' => seen' = pod')
             /\ links' \in SUBSET Links /\ kernel' \in SUBSET Route
             /\ faults' \in 0 .. MaxFaults
  BY <1>1 DEF TypeOK
<1>3. CASE (Schedule \/ Start) /\ UNCHANGED <<minionVars, faults>>
  <2>1. PICK life \in Lives : pod # NoPod /\ Live(life)
    BY <1>3 DEF Schedule, Start, Lives, NoPod
  <2> QED
    BY <1>2, <1>3, <2>1 DEF minionVars, TypeOK
<1>4. CASE Gone /\ links' = {} /\ kernel' = {} /\ UNCHANGED faults
  BY <1>4, TypePut DEF Gone, TypeOK
<1>5. CASE Fault("evict") /\ pod # NoPod /\ Depart
  BY <1>5, TypeDepart, TypeFault
<1>6. CASE Fault("die") /\ pod.life = "running" /\ Live("dead") /\ links' = {} /\ kernel' = {}
  <2>1. pod # NoPod
    BY <1>6 DEF NoPod
  <2> QED
    BY <1>2, <1>6, <2>1, TypeFault DEF Lives
<1>7. CASE Fault("write") /\ pod # NoPod /\ fresh' = FALSE /\ UNCHANGED <<pod, seen, minionVars>>
  BY <1>7, TypeFault DEF minionVars, TypeOK
<1> QED
  BY <1>3, <1>4, <1>5, <1>6, <1>7 DEF Kubernetes

\* A pass begins with a list of steps.
LEMMA TypeDiff ==
  ASSUME TypeOK, Diff
  PROVE  TypeOK'
<1>1. todo' \in Seq(Step)
  BY ActionsAreSteps DEF Diff
<1>2. target' \in PodId \cup {0}
  BY PodFields DEF Diff, TypeOK
<1> QED
  BY <1>1, <1>2 DEF Diff, TypeOK, minionVars, cacheVars

\* The deletion of the pod.
LEMMA TypeDoDelete ==
  ASSUME TypeOK, DoDelete
  PROVE  TypeOK'
<1>1. want' = want
  BY DEF DoDelete
<1>2. CASE pod = NoPod /\ Stop /\ UNCHANGED <<pod, minionVars, cacheVars, gateway, faults>>
  BY <1>1, <1>2, TypeStop DEF TypeOK, minionVars, cacheVars
<1>3. CASE /\ pod # NoPod /\ Depart /\ Done
           /\ \/ gateway' = 0 /\ UNCHANGED faults
              \/ Fault("write") /\ UNCHANGED gateway
  <2>1. todo' \in Seq(Step) /\ at' = "doing" /\ draft' = {} /\ target' = target
    BY <1>3, HeadIsStep DEF Done, DoDelete, Doing
  <2>2. gateway' \in PodId \cup {0} /\ faults' \in 0 .. MaxFaults
    BY <1>3, TypeFault DEF TypeOK
  <2> QED
    BY <1>1, <1>3, <2>1, <2>2, TypeDepart DEF TypeOK
<1> QED
  BY <1>2, <1>3 DEF DoDelete

\* Its creation.
LEMMA TypeDoCreate ==
  ASSUME TypeOK, DoCreate
  PROVE  TypeOK'
<1> DEFINE id == CHOOSE i \in PodId : i \notin {seen.id, gateway, target}
           new == [id |-> id, life |-> "unscheduled", place |-> Head(todo).place,
                   note |-> Head(todo).routes]
<1>1. /\ want' = want /\ gateway' = gateway /\ faults' = faults
      /\ todo # <<>> /\ Head(todo).do = "create"
  BY DEF DoCreate, Doing
<1>2. CASE pod # NoPod /\ Stop /\ UNCHANGED <<pod, minionVars, cacheVars>>
  BY <1>1, <1>2, TypeStop DEF TypeOK, minionVars, cacheVars
<1>3. CASE pod = NoPod /\ Put(new) /\ links' = {} /\ kernel' = {} /\ Goto("wait")
  <2>1. id \in PodId
    BY NewIdentity
  <2>2. new \in Pods
    BY <1>1, <2>1, HeadIsStep DEF Pods, Lives
  <2> HIDE DEF new
  <2> QED
    BY <1>1, <1>3, <2>2, TypePut DEF TypeOK, Goto
<1> QED
  BY <1>2, <1>3 DEF DoCreate

\* Its setup.
LEMMA TypeSetUp ==
  ASSUME TypeOK, SetUp
  PROVE  TypeOK'
<1>1. /\ UNCHANGED <<want, pod, kernel, cacheVars, gateway>>
      /\ todo # <<>> /\ Head(todo).do = "create"
  BY DEF SetUp, TypeOK
<1>2. CASE links' = Links /\ ToPublish /\ UNCHANGED <<todo, faults>>
  <2>1. target' \in PodId \cup {0}
    BY <1>2, PodFields DEF ToPublish, TypeOK
  <2> QED
    BY <1>1, <1>2, <2>1 DEF TypeOK, cacheVars, ToPublish
<1>3. CASE Stop /\ UNCHANGED <<links, faults>>
  BY <1>1, <1>3, TypeStop DEF TypeOK, cacheVars
<1>4. CASE Fault("setup") /\ links' \in {{}, {"xfrm"}} /\ Stop
  BY <1>1, <1>4, TypeStop, TypeFault DEF TypeOK, cacheVars, Links
<1> QED
  BY <1>2, <1>3, <1>4 DEF SetUp

\* The publication of its address.
LEMMA TypePublish ==
  ASSUME TypeOK, Publish
  PROVE  TypeOK'
<1>1. UNCHANGED <<want, pod, minionVars, cacheVars>> /\ todo # <<>>
  BY DEF Publish, TypeOK
<1>2. CASE /\ gateway' = target /\ UNCHANGED faults
           /\ at' = "doing" /\ todo' = Tail(todo) /\ target' = 0 /\ UNCHANGED draft
  BY <1>1, <1>2, HeadIsStep DEF TypeOK, minionVars, cacheVars
<1>3. CASE Fault("write") /\ gateway' \in {gateway, target} /\ Stop
  BY <1>1, <1>3, TypeStop, TypeFault DEF TypeOK, minionVars, cacheVars
<1> QED
  BY <1>2, <1>3 DEF Publish

\* The request for a route.
LEMMA TypePost ==
  ASSUME TypeOK, Post
  PROVE  TypeOK'
<1> DEFINE do == Head(todo).do
           r  == Head(todo).route
<1>1. /\ UNCHANGED <<want, pod, links, cacheVars, gateway>>
      /\ todo # <<>> /\ do \in {"add", "remove"} /\ r \in Route
  BY HeadIsStep DEF Post, Doing
<1>2. kernel' \in SUBSET Route
  BY <1>1 DEF Post, With, TypeOK
<1>3. CASE Stop /\ (UNCHANGED faults \/ Fault("http"))
  BY <1>1, <1>2, <1>3, TypeStop, TypeFault DEF TypeOK, cacheVars
<1>4. CASE /\ at' = "annotate" /\ draft' = With(seen.note, do, r)
           /\ UNCHANGED <<todo, target, faults>>
  <2>1. draft' \in SUBSET Route
    BY <1>1, <1>4, PodFields DEF With, TypeOK
  <2> QED
    BY <1>1, <1>2, <1>4, <2>1 DEF TypeOK, cacheVars
<1> QED
  BY <1>3, <1>4 DEF Post

\* After an action that is given up or done the rest of the list is one.
LEMMA TypeUnwritten ==
  ASSUME TypeOK, todo # <<>>, Unwritten \/ Done
  PROVE  /\ at' \in {"idle", "doing"} /\ todo' \in Seq(Step)
         /\ draft' \in SUBSET Route /\ target' \in PodId \cup {0}
<1>1. CASE Done
  BY <1>1, HeadIsStep DEF Done, TypeOK
<1>2. CASE Stop
  BY <1>2, TypeStop
<1> QED
  BY <1>1, <1>2 DEF Unwritten

\* The annotation keeps naming routes only.
LEMMA TypeAnnotate ==
  ASSUME TypeOK, Annotate
  PROVE  TypeOK'
<1> DEFINE do == Head(todo).do
           r  == Head(todo).route
           fdb == Kind[r] = "fdb"
           note == IF fdb THEN With(seen.note, do, r) ELSE draft
           new == [pod EXCEPT !.note = note]
<1>1. /\ UNCHANGED <<want, minionVars, gateway>> /\ todo # <<>>
      /\ Head(todo).do \in {"add", "remove"} /\ r \in Route
  BY HeadIsStep DEF Annotate, TypeOK
<1>2. note \in SUBSET Route
  BY <1>1, PodFields DEF With, TypeOK
<1>3. ASSUME seen # NoPod, fresh, Put(new)
      PROVE  /\ pod' \in Pods \cup {NoPod} /\ seen' \in Pods \cup {NoPod}
             /\ fresh' \in BOOLEAN /\ (fresh' => seen' = pod')
  <2>1. pod \in Pods
    BY <1>3 DEF TypeOK
  <2> HIDE DEF note
  <2>2. new \in Pods
    BY <1>2, <2>1, PodUpdates DEF Lives
  <2> HIDE DEF new
  <2> QED
    BY <1>3, <2>2, TypePut
<1> HIDE DEF new, note
<1>4. /\ pod' \in Pods \cup {NoPod} /\ seen' \in Pods \cup {NoPod}
      /\ fresh' \in BOOLEAN /\ (fresh' => seen' = pod')
  <2>1. UNCHANGED <<pod, cacheVars>> \/ (seen # NoPod /\ fresh /\ Put(new))
    BY DEF Annotate, new, note
  <2> QED
    BY <1>3, <2>1 DEF TypeOK, cacheVars
<1>5. faults' \in 0 .. MaxFaults
  BY TypeFault DEF Annotate, TypeOK
<1>6. CASE at' = "echo" /\ draft' = note /\ UNCHANGED <<todo, target>>
  BY <1>1, <1>2, <1>4, <1>5, <1>6 DEF TypeOK, minionVars
<1>7. CASE Unwritten
  BY <1>1, <1>4, <1>5, <1>7, TypeUnwritten DEF TypeOK, minionVars
<1> QED
  BY <1>6, <1>7 DEF Annotate, note

\* The wait for the annotation.
LEMMA TypeEcho ==
  ASSUME TypeOK, Echo
  PROVE  TypeOK'
<1>1. UNCHANGED <<want, pod, minionVars, cacheVars, gateway, faults>> /\ todo # <<>>
  BY DEF Echo, TypeOK
<1>2. Unwritten \/ Done
  BY DEF Echo
<1> QED
  BY <1>1, <1>2, TypeUnwritten DEF TypeOK, minionVars, cacheVars

\* Passes that end.
LEMMA TypeTimeout ==
  ASSUME TypeOK, Timeout \/ Finish \/ Cut
  PROVE  TypeOK'
<1>1. CASE Timeout \/ Finish
  BY <1>1, TypeStop DEF Timeout, Finish, TypeOK, minionVars, cacheVars
<1>2. CASE Cut
  BY <1>2, EmptySeq DEF Cut, TypeOK, minionVars, cacheVars
<1> QED
  BY <1>1, <1>2

\* Steps of others.
LEMMA TypeOthers ==
  ASSUME TypeOK, Deliver \/ OperatorRestart \/ Edit
  PROVE  TypeOK'
<1>1. CASE Deliver
  BY <1>1 DEF Deliver, TypeOK, minionVars, operatorVars
<1>2. CASE OperatorRestart
  BY <1>2, TypeStop, TypeFault DEF OperatorRestart, TypeOK, minionVars
<1>3. CASE Edit
  <2>1. want' \in [on : BOOLEAN, place : Place, routes : SUBSET Route]
    <3>1. want \in [on : BOOLEAN, place : Place, routes : SUBSET Route]
      BY DEF TypeOK
    <3>2. CASE \E x \in Route \ want.routes : want' = [want EXCEPT !.routes = @ \cup {x}]
      BY <3>1, <3>2
    <3>3. CASE \E x \in want.routes : want' = [want EXCEPT !.routes = @ \ {x}]
      BY <3>1, <3>3
    <3>4. CASE \E p \in Place \ {want.place} : want' = [want EXCEPT !.place = p]
      BY <3>1, <3>4
    <3>5. CASE want' = [want EXCEPT !.on = ~@]
      BY <3>1, <3>5
    <3> QED
      BY <1>3, <3>2, <3>3, <3>4, <3>5 DEF Edit
  <2>2. faults' \in 0 .. MaxFaults
    BY <1>3, TypeFault DEF Edit
  <2> QED
    BY <1>3, <2>1, <2>2 DEF Edit, TypeOK, minionVars, cacheVars, operatorVars
<1> QED
  BY <1>1, <1>2, <1>3

\* Every step keeps the types.
LEMMA TypeNext ==
  TypeOK /\ [Next]_vars => TypeOK'
<1> SUFFICES ASSUME TypeOK, [Next]_vars PROVE TypeOK'
  OBVIOUS
<1>1. CASE UNCHANGED vars
  BY <1>1 DEF TypeOK, vars, minionVars, cacheVars, operatorVars
<1>2. CASE Pass
  BY <1>2, TypeDiff, TypeDoDelete, TypeDoCreate, TypeTimeout, TypeSetUp, TypePublish,
     TypePost, TypeAnnotate, TypeEcho DEF Pass
<1>3. CASE Kubernetes
  BY <1>3, TypeKubernetes
<1>4. CASE Deliver \/ OperatorRestart \/ Edit
  BY <1>4, TypeOthers
<1> QED
  BY <1>1, <1>2, <1>3, <1>4 DEF Next

\* The variables have their types, and an action that is half done is the
\* head of the list (XfrmPod, Reconcile's loop over the actions).
THEOREM TypeCorrect == Spec => []TypeOK
<1> QED
  BY TypeInit, TypeNext, PTL DEF Spec

-----------------------------------------------------------------------------
(* The published gateway.                                                   *)

\* The pod there is has its links, or will never run again.
Settled == pod.life = "dead" \/ links = Links

PublishedIsSettled == gateway = pod.id => Settled

\* So is the pod whose address is about to be published.
TargetIsSettled == at = "publish" /\ target = pod.id => Settled

\* A pod that is waited for is not published yet.
AwaitedIsNew == at = "wait" /\ gateway = pod.id => pod = NoPod

GInv == TypeOK /\ PublishedIsSettled /\ TargetIsSettled /\ AwaitedIsNew

\* Nothing is published at first.
LEMMA GatewayInit ==
  Init => GInv
BY TypeInit DEF Init, GInv, PublishedIsSettled, TargetIsSettled, AwaitedIsNew, Settled, NoPod

\* The pod is the same or gone, and has its links as long as it is not dead.
PodKept ==
  \/ pod' = NoPod
  \/ pod'.id = pod.id /\ pod'.life = "dead"
  \/ pod'.id = pod.id /\ links' = links /\ pod.life # "dead"
  \/ pod' = pod /\ links' = links

NothingPublished ==
  /\ gateway' \in {gateway, 0}
  /\ at' \in {"wait", "publish"} => at' = at /\ target' = target

\* Such steps keep what is known of the pod.
LEMMA SamePod ==
  ASSUME GInv, TypeOK', PodKept, NothingPublished
  PROVE  GInv'
<1>1. pod'.life = "dead" \/ (pod'.id = pod.id /\ (Settled => Settled'))
  BY DEF NoPod, Settled, PodKept
<1>2. pod' \in Pods \cup {NoPod} /\ pod \in Pods \cup {NoPod}
  BY DEF GInv, TypeOK
<1>3. /\ pod' = NoPod <=> pod'.id = 0
      /\ pod = NoPod <=> pod.id = 0
  BY <1>2, PodFields
<1>4. pod'.id = pod.id \/ pod' = NoPod
  BY DEF PodKept
<1>5. PublishedIsSettled'
  BY <1>1, <1>3, <1>4 DEF GInv, PublishedIsSettled, NothingPublished, Settled, NoPod
<1>6. TargetIsSettled'
  BY <1>1 DEF GInv, TargetIsSettled, NothingPublished, Settled
<1>7. AwaitedIsNew'
  BY <1>3, <1>4 DEF GInv, AwaitedIsNew, NothingPublished
<1> QED
  BY <1>5, <1>6, <1>7 DEF GInv

\* A pod being deleted keeps its links until it is gone.
LEMMA DepartKeepsLinks ==
  ASSUME TypeOK, pod # NoPod, Depart
  PROVE  PodKept
<1>1. pod \in Pods
  BY DEF TypeOK
<1>2. CASE pod.life \in {"unscheduled", "dead"}
  BY <1>2 DEF Depart, Put, PodKept
<1>3. CASE pod.life \notin {"unscheduled", "dead"}
  BY <1>1, <1>3 DEF Pods, Depart, Live, Put, Lives, minionVars, PodKept
<1> QED
  BY <1>2, <1>3

\* Every action keeps GInv.
LEMMA GatewayKubernetes ==
  ASSUME GInv, Kubernetes, TypeOK'
  PROVE  GInv'
<1>1. UNCHANGED <<gateway, at, target>>
  BY DEF Kubernetes, operatorVars
<1>2. ASSUME pod # NoPod, NEW life \in Lives, Live(life)
      PROVE  pod'.id = pod.id /\ pod'.life = life
  BY <1>2, PodUpdates DEF Live, Put, GInv, TypeOK
<1>3. PodKept
  <2>1. CASE (Schedule \/ Start) /\ UNCHANGED <<minionVars, faults>>
    <3>1. PICK life \in Lives : pod # NoPod /\ pod.life # "dead" /\ Live(life)
      BY <2>1 DEF Schedule, Start, Lives, NoPod
    <3>2. pod'.id = pod.id
      BY <1>2, <3>1
    <3> QED
      BY <2>1, <3>1, <3>2 DEF minionVars, PodKept
  <2>2. CASE Gone
    BY <2>2 DEF Gone, Put, PodKept
  <2>3. CASE pod # NoPod /\ Depart
    BY <2>3, DepartKeepsLinks DEF GInv
  <2>4. CASE pod.life = "running" /\ Live("dead")
    BY <1>2, <2>4 DEF Lives, NoPod, PodKept
  <2>5. CASE UNCHANGED <<pod, minionVars>>
    BY <2>5 DEF minionVars, PodKept
  <2> QED
    BY <2>1, <2>2, <2>3, <2>4, <2>5 DEF Kubernetes
<1> QED
  BY <1>1, <1>3, SamePod DEF NothingPublished

\* A new pod is neither published nor about to be.
LEMMA GatewayDoCreate ==
  ASSUME GInv, DoCreate, TypeOK'
  PROVE  GInv'
<1> DEFINE id == CHOOSE i \in PodId : i \notin {seen.id, gateway, target}
           new == [id |-> id, life |-> "unscheduled", place |-> Head(todo).place,
                   note |-> Head(todo).routes]
<1>1. CASE Stop /\ UNCHANGED <<pod, minionVars, cacheVars>>
  BY <1>1, SamePod DEF PodKept, NothingPublished, DoCreate, Stop, minionVars
<1>2. CASE Put(new) /\ Goto("wait")
  <2>1. id \notin {gateway, target}
    BY NewIdentity
  <2>2. pod'.id = id /\ gateway' = gateway /\ target' = target /\ at' = "wait"
    BY <1>2 DEF DoCreate, Put, Goto
  <2> QED
    BY <2>1, <2>2 DEF GInv, PublishedIsSettled, TargetIsSettled, AwaitedIsNew
<1> QED
  BY <1>1, <1>2 DEF DoCreate

\* The pod that is set up is not published yet, so a setup that fails half way harms nobody.
LEMMA GatewaySetUp ==
  ASSUME GInv, SetUp, TypeOK'
  PROVE  GInv'
<1>1. UNCHANGED <<pod, gateway>> /\ at = "wait"
  BY DEF SetUp
<1>2. CASE links' = Links /\ ToPublish
  BY <1>1, <1>2 DEF GInv, PublishedIsSettled, TargetIsSettled, AwaitedIsNew, Settled, ToPublish
<1>3. CASE Stop /\ UNCHANGED <<links, faults>>
  BY <1>1, <1>3, SamePod DEF PodKept, NothingPublished, Stop
<1>4. CASE Reached(seen.id) /\ Fault("setup") /\ links' \in {{}, {"xfrm"}} /\ Stop
  <2>1. gateway # pod.id
    BY <1>1, <1>4 DEF Reached, Ready, NoPod, GInv, AwaitedIsNew
  <2> QED
    BY <1>1, <1>4, <2>1 DEF GInv, PublishedIsSettled, TargetIsSettled, AwaitedIsNew, Stop
<1> QED
  BY <1>2, <1>3, <1>4 DEF SetUp

\* The address that is published is that of a settled pod.
LEMMA GatewayPublish ==
  ASSUME GInv, Publish, TypeOK'
  PROVE  GInv'
<1>1. UNCHANGED <<pod, links>> /\ at = "publish" /\ gateway' \in {gateway, target}
      /\ at' \in {"doing", "idle"}
  BY DEF Publish, minionVars, Stop
<1>2. PublishedIsSettled'
  BY <1>1 DEF GInv, PublishedIsSettled, TargetIsSettled, Settled
<1> QED
  BY <1>1, <1>2 DEF GInv, TargetIsSettled, AwaitedIsNew

\* An annotation leaves pod and links as they are.
LEMMA GatewayAnnotate ==
  ASSUME GInv, Annotate, TypeOK'
  PROVE  GInv'
<1>1. UNCHANGED <<links, gateway>> /\ at' \in {"echo", "idle", "doing"}
  BY DEF Annotate, minionVars, Unwritten, Stop, Done
<1>2. pod'.id = pod.id /\ pod'.life = pod.life
  BY PodUpdates DEF Annotate, Put, GInv, TypeOK, cacheVars, Pods
<1> QED
  BY <1>1, <1>2, SamePod DEF PodKept, NothingPublished, Settled

\* Every step keeps GInv.
LEMMA GatewayNext ==
  GInv /\ [Next]_vars => GInv'
<1> SUFFICES ASSUME GInv, [Next]_vars PROVE GInv'
  OBVIOUS
<1>0. TypeOK'
  BY TypeNext DEF GInv
<1>1. CASE UNCHANGED vars
  BY <1>0, <1>1, SamePod DEF PodKept, NothingPublished, vars, minionVars, operatorVars
<1>2. CASE Diff \/ Cut \/ Finish \/ Timeout
  BY <1>0, <1>2, SamePod DEF PodKept, NothingPublished, Diff, Cut, Finish, Timeout, Stop, minionVars
<1>3. CASE DoDelete
  <2>1. at' \in {"doing", "idle"} /\ gateway' \in {gateway, 0}
    BY <1>3 DEF DoDelete, Done, Stop
  <2>2. (pod # NoPod /\ Depart) \/ pod' = NoPod
    BY <1>3 DEF DoDelete
  <2> QED
    BY <1>0, <2>1, <2>2, DepartKeepsLinks, SamePod DEF PodKept, NothingPublished, GInv
<1>4. CASE DoCreate
  BY <1>0, <1>4, GatewayDoCreate
<1>5. CASE SetUp
  BY <1>0, <1>5, GatewaySetUp
<1>6. CASE Publish
  BY <1>0, <1>6, GatewayPublish
<1>7. CASE Post
  BY <1>0, <1>7, SamePod DEF PodKept, NothingPublished, Post, Stop
<1>8. CASE Annotate
  BY <1>0, <1>8, GatewayAnnotate
<1>9. CASE Echo
  BY <1>0, <1>9, SamePod DEF PodKept, NothingPublished, Echo, Unwritten, Stop, Done, minionVars
<1>10. CASE Kubernetes
  BY <1>0, <1>10, GatewayKubernetes
<1>11. CASE Deliver \/ OperatorRestart \/ Edit
  BY <1>0, <1>11, SamePod DEF PodKept, NothingPublished, Deliver, OperatorRestart, Edit, Stop, minionVars, operatorVars
<1> QED
  BY <1>1, <1>2, <1>3, <1>4, <1>5, <1>6, <1>7, <1>8, <1>9, <1>10, <1>11 DEF Next, Pass

\* The address given to worker pods as their gateway is never that of a pod
\* that runs without links (CompleteSetup before the update of
\* XfrmGatewayIPs, xfrm_pod.go:52-175).
THEOREM GatewayCorrect == Spec => []GatewayIsSetUp
<1>1. GInv => GatewayIsSetUp
  BY DEF GInv, PublishedIsSettled, Settled, GatewayIsSetUp, Ready
<1> QED
  BY <1>1, GatewayInit, GatewayNext, PTL DEF Spec
=============================================================================
