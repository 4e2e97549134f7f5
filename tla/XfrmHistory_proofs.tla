------------------------- MODULE XfrmHistory_proofs -------------------------
(***************************************************************************)
(* An annotation names nothing its pod was not given, and undoes no other, *)
(* for any routes, places, faults and their number.  What makes the stale  *)
(* copies harmless: one with the identity of the pod is an older version   *)
(* of it, what the pod was given only grows, and who has written waits.    *)
(***************************************************************************)
EXTENDS XfrmHistory, XfrmPod_proofs

\* So it is for the copy in the cache, if it is one of this pod ...
SeenWasHad == seen.id = pod.id => seen.note \subseteq had

\* ... and for the annotation to be written, if there is still a pod to get it: for
\* a forwarding entry it is going to be computed from the cache once more.
DraftWasHad ==
  at = "annotate" /\ pod # NoPod =>
    LET do == Head(todo).do
        r  == Head(todo).route
    IN  /\ do = "add" => r \in had
        /\ Kind[r] # "fdb" => draft \subseteq had

HInv == TypeOK /\ NotedWasHad /\ SeenWasHad /\ DraftWasHad

-----------------------------------------------------------------------------
(* The steps.                                                               *)

LEMMA HistoryInit == HInit => HInv
BY TypeInit DEF HInit, Init, HInv, NotedWasHad, SeenWasHad, DraftWasHad, NoPod

\* As long as no annotation is written or about to be, and no pod created.
LEMMA NothingNoted ==
  ASSUME HInv, TypeOK', Remember,
         pod' = NoPod \/ (pod'.id = pod.id /\ pod'.note = pod.note),
         seen' \in {seen, pod'},
         at' = "annotate" => at = "annotate" /\ UNCHANGED <<todo, draft>>
  PROVE  HInv'
<1>1. /\ pod \in Pods \cup {NoPod} /\ pod' \in Pods \cup {NoPod}
      /\ seen \in Pods \cup {NoPod} /\ seen' \in Pods \cup {NoPod}
  BY DEF HInv, TypeOK
<1>2. /\ pod = NoPod <=> pod.id = 0
      /\ pod' = NoPod <=> pod'.id = 0
      /\ seen' = NoPod <=> seen'.id = 0
  BY <1>1, PodFields
<1>3. NoPod.note = {} /\ NoPod.id = 0
  BY DEF NoPod
<1>4. CASE pod'.id = pod.id
  <2>1. had \subseteq had' /\ pod'.note = pod.note
    BY <1>2, <1>4 DEF Remember
  <2>2. NotedWasHad' /\ SeenWasHad'
    BY <1>4, <2>1 DEF HInv, NotedWasHad, SeenWasHad
  <2>3. DraftWasHad'
    BY <1>2, <1>4, <2>1 DEF HInv, DraftWasHad
  <2> QED
    BY <2>2, <2>3 DEF HInv
<1>5. CASE pod'.id # pod.id
  <2>1. pod' = NoPod /\ had' = {}
    BY <1>3, <1>5 DEF Remember
  <2>2. NotedWasHad' /\ DraftWasHad'
    BY <1>3, <2>1 DEF NotedWasHad, DraftWasHad
  <2>3. SeenWasHad'
    BY <1>2, <1>3, <2>1 DEF SeenWasHad
  <2> QED
    BY <2>2, <2>3 DEF HInv
<1> QED
  BY <1>4, <1>5

\* A new pod has a record of its own, and no copy of it is in the cache yet.
LEMMA HistoryDoCreate == ASSUME HInv, TypeOK', DoCreate, Remember PROVE HInv'
<1> DEFINE id == CHOOSE i \in PodId : i \notin {seen.id, gateway, target}
           new == [id |-> id, life |-> "unscheduled", place |-> Head(todo).place,
                   note |-> Head(todo).routes]
<1>1. CASE Stop /\ UNCHANGED <<pod, minionVars, cacheVars>>
  BY <1>1, NothingNoted DEF Stop, cacheVars
<1>2. CASE pod = NoPod /\ Put(new) /\ Goto("wait")
  <2>1. id \in PodId /\ id # seen.id
    BY NewIdentity
  <2>2. pod'.id = id /\ pod'.note = new.note /\ seen' = seen /\ at' = "wait" /\ pod.id = 0
    BY <1>2 DEF Put, Goto, NoPod
  <2>3. had' = pod'.note
    BY <2>1, <2>2 DEF Remember, PodId
  <2> QED
    BY <2>1, <2>2, <2>3 DEF HInv, NotedWasHad, SeenWasHad, DraftWasHad
<1> QED
  BY <1>1, <1>2 DEF DoCreate

\* A request that is answered was carried out by the pod whose annotation, as far as
\* it is not read again, is changed for it.
LEMMA HistoryPost == ASSUME HInv, TypeOK', Post, Remember PROVE HInv'
<1> DEFINE do == Head(todo).do
           r  == Head(todo).route
<1>1. UNCHANGED <<pod, seen>> /\ had \subseteq had' /\ kernel' \subseteq had'
  BY DEF Post, cacheVars, Remember
<1>2. CASE Stop
  BY <1>1, <1>2, NothingNoted DEF Stop
<1>3. CASE ~Stop
  <2>1. /\ Reached(IF Waits THEN seen.id ELSE target)
        /\ kernel' = With(kernel, do, r) /\ ~Panics(do, r)
        /\ at' = "annotate" /\ draft' = With(seen.note, do, r) /\ UNCHANGED todo
    BY <1>3 DEF Post
  <2>2. do = "add" => r \in had'
    BY <1>1, <2>1 DEF With
  <2>3. ASSUME Kind[r] # "fdb" PROVE draft' \subseteq had'
    <3>1. todo # <<>> /\ do \in {"add", "remove"} /\ at = "doing"
      BY DEF Post, Doing
    <3>2. Waits
      BY <2>1, <2>3, <3>1 DEF Waits, Panics
    <3>3. seen.note \subseteq had'
      BY <1>1, <2>1, <3>2 DEF Reached, HInv, SeenWasHad
    <3> QED
      BY <2>1, <2>2, <3>1, <3>3 DEF With
  <2>4. DraftWasHad'
    BY <2>1, <2>2, <2>3 DEF DraftWasHad
  <2> QED
    BY <1>1, <2>4 DEF HInv, NotedWasHad, SeenWasHad
<1> QED
  BY <1>2, <1>3

\* An annotation that is written replaces the newest one, the cached one.
LEMMA HistoryAnnotate == ASSUME HInv, TypeOK', Annotate, Remember PROVE HInv'
<1> DEFINE do == Head(todo).do
           r  == Head(todo).route
           fdb == Kind[r] = "fdb"
           note == IF fdb THEN With(seen.note, do, r) ELSE draft
<1>1. at = "annotate" /\ at' # "annotate"
  BY DEF Annotate, Unwritten, Stop, Done
<1>2. CASE UNCHANGED <<pod, cacheVars>>
  BY <1>1, <1>2, NothingNoted DEF cacheVars
<1>3. CASE seen # NoPod /\ fresh /\ Put([pod EXCEPT !.note = note])
  <2>1. seen = pod /\ pod \in Pods /\ do \in {"add", "remove"} /\ Kind[r] \in {"local", "remote", "fdb"}
    <3>1. seen = pod /\ pod \in Pods
      BY <1>3 DEF HInv, TypeOK
    <3>2. todo # <<>> /\ do \in {"add", "remove"}
      BY <1>1 DEF HInv, TypeOK
    <3>3. r \in Route
      BY <3>2, HeadIsStep DEF HInv
    <3> QED
      BY <3>1, <3>2, <3>3, XfrmAssumption
  <2>2. note \subseteq had
    <3>1. CASE fdb
      BY <1>1, <1>3, <2>1, <3>1 DEF HInv, SeenWasHad, DraftWasHad, With
    <3>2. CASE ~fdb
      BY <1>1, <1>3, <2>1, <3>2 DEF HInv, DraftWasHad
    <3> QED
      BY <3>1, <3>2
  <2> HIDE DEF note
  <2>3. pod'.note = note /\ pod'.id = pod.id /\ seen' = seen
    BY <1>3, <2>1 DEF Put, Pods
  <2>4. had \subseteq had'
    BY <2>3 DEF Remember
  <2> QED
    BY <1>1, <2>2, <2>3, <2>4 DEF HInv, NotedWasHad, SeenWasHad, DraftWasHad
<1> QED
  BY <1>2, <1>3 DEF Annotate

\* Nobody else writes an annotation.
LEMMA HistoryKubernetes == ASSUME HInv, TypeOK', Kubernetes, Remember PROVE HInv'
<1>1. UNCHANGED operatorVars /\ seen' = seen
  BY DEF Kubernetes, Schedule, Start, Gone, Depart, Live, Put
<1>2. ASSUME pod # NoPod, NEW life \in Lives, Live(life)
      PROVE  pod'.id = pod.id /\ pod'.note = pod.note
  BY <1>2 DEF Live, Put, HInv, TypeOK, Pods
<1>3. pod' = pod \/ pod' = NoPod \/ (pod # NoPod /\ \E life \in Lives : Live(life))
  BY DEF Kubernetes, Schedule, Start, Gone, Depart, Put, Lives, NoPod
<1> QED
  BY <1>1, <1>2, <1>3, NothingNoted DEF operatorVars

LEMMA HistoryNext == HInv /\ [HNext]_hvars => HInv'
<1> SUFFICES ASSUME HInv, [HNext]_hvars PROVE HInv'
  OBVIOUS
<1>0. TypeOK'
  BY TypeNext DEF HInv, HNext, hvars
<1>1. CASE UNCHANGED hvars
  BY <1>0, <1>1 DEF hvars, vars, cacheVars, operatorVars, HInv, NotedWasHad, SeenWasHad, DraftWasHad
<1>2. CASE HNext
  <2>1. CASE Diff \/ Cut \/ Finish \/ Timeout \/ SetUp \/ Publish \/ Echo
    BY <1>0, <1>2, <2>1, NothingNoted DEF HNext, Diff, Cut, Finish, Timeout, SetUp, Publish, Echo,
       ToPublish, Unwritten, Stop, Done, cacheVars
  <2>2. CASE DoDelete
    <3>1. pod' = pod \/ pod' = NoPod \/ (pod # NoPod /\ Live("ending"))
      BY <2>2 DEF DoDelete, Depart, Put
    <3>2. pod' = NoPod \/ (pod'.id = pod.id /\ pod'.note = pod.note)
      BY <3>1 DEF Live, Put, HInv, TypeOK, Pods
    <3>3. seen' = seen /\ at' # "annotate"
      BY <2>2 DEF DoDelete, Depart, Live, Put, cacheVars, Done, Stop
    <3> QED
      BY <1>0, <1>2, <3>2, <3>3, NothingNoted DEF HNext
  <2>3. CASE DoCreate \/ Post \/ Annotate
    BY <1>0, <1>2, <2>3, HistoryDoCreate, HistoryPost, HistoryAnnotate DEF HNext
  <2>4. CASE Kubernetes
    BY <1>0, <1>2, <2>4, HistoryKubernetes DEF HNext
  <2>5. CASE Deliver \/ OperatorRestart \/ Edit
    BY <1>0, <1>2, <2>5, NothingNoted DEF HNext, Deliver, OperatorRestart, Edit, Stop,
       cacheVars, operatorVars
  <2> QED
    BY <1>2, <2>1, <2>2, <2>3, <2>4, <2>5 DEF HNext, Next, Pass
<1> QED
  BY <1>1, <1>2

-----------------------------------------------------------------------------
(* What the operator believes of the annotation.                            *)

\* The copy of this pod says what the pod says, but while a new annotation is
\* waited for, or after a lost update.
CopyIsTrue == seen.id = pod.id /\ ~lost /\ at # "echo" => seen.note = pod.note

\* What is waited for is what was written.
EchoIsWritten == at = "echo" /\ pod # NoPod => pod.note = draft

\* The annotation to be written is the next one.
DraftIsNext ==
  at = "annotate" /\ pod # NoPod /\ ~lost /\ Kind[Head(todo).route] # "fdb"
    => draft = With(pod.note, Head(todo).do, Head(todo).route)

AInv == TypeOK /\ CopyIsTrue /\ EchoIsWritten /\ DraftIsNext

LEMMA AddUpInit == HInit => AInv
BY TypeInit DEF HInit, Init, AInv, CopyIsTrue, EchoIsWritten, DraftIsNext

\* No annotation is written or begun, no pod created, and who stops waiting has
\* seen what was waited for.
LEMMA NothingWritten ==
  ASSUME AInv, TypeOK', Remember,
         pod' = NoPod \/ (pod'.id = pod.id /\ pod'.note = pod.note),
         seen' \in {seen, pod'},
         at' \in {"annotate", "echo"} => at' = at /\ UNCHANGED <<todo, draft>>,
         at = "echo" /\ at' # "echo" => (seen'.id = pod'.id => seen'.note = pod'.note)
  PROVE  AInv'
<1>1. /\ pod = NoPod <=> pod.id = 0
      /\ pod' = NoPod <=> pod'.id = 0
      /\ seen' = NoPod <=> seen'.id = 0
  <2>1. /\ pod \in Pods \cup {NoPod} /\ pod' \in Pods \cup {NoPod}
        /\ seen' \in Pods \cup {NoPod}
    BY DEF AInv, TypeOK
  <2> QED
    BY <2>1, PodFields
<1>2. ~lost' => ~lost \/ seen' = pod'
  BY <1>1 DEF Remember, TypeOK
<1>3. pod' # NoPod => pod # NoPod /\ pod'.id = pod.id /\ pod'.note = pod.note
  BY <1>1
<1>4. CopyIsTrue'
  <2> SUFFICES ASSUME seen'.id = pod'.id, ~lost', at' # "echo", seen' # pod' PROVE seen'.note = pod'.note
    BY DEF CopyIsTrue
  <2>1. pod' # NoPod /\ seen' = seen /\ ~lost
    BY <1>1, <1>2
  <2> QED
    BY <1>3, <2>1 DEF AInv, CopyIsTrue
<1>5. EchoIsWritten'
  BY <1>3 DEF AInv, EchoIsWritten
<1>6. DraftIsNext'
  <2> SUFFICES ASSUME at' = "annotate", pod' # NoPod, ~lost', Kind[Head(todo').route] # "fdb"
               PROVE  draft' = With(pod'.note, Head(todo').do, Head(todo').route)
    BY DEF DraftIsNext, With
  <2>1. ~lost
    BY DEF Remember
  <2> QED
    BY <1>3, <2>1 DEF AInv, DraftIsNext
<1> QED
  BY <1>4, <1>5, <1>6 DEF AInv

LEMMA AddUpDoCreate == ASSUME AInv, TypeOK', DoCreate, Remember PROVE AInv'
<1> DEFINE id == CHOOSE i \in PodId : i \notin {seen.id, gateway, target}
           new == [id |-> id, life |-> "unscheduled", place |-> Head(todo).place,
                   note |-> Head(todo).routes]
<1>1. at = "doing"
  BY DEF DoCreate, Doing
<1>2. CASE Stop /\ UNCHANGED <<pod, minionVars, cacheVars>>
  BY <1>1, <1>2, NothingWritten DEF Stop, cacheVars
<1>3. CASE Put(new) /\ Goto("wait")
  <2>1. id # seen.id
    BY NewIdentity
  <2>2. pod'.id = id /\ seen' = seen /\ at' = "wait"
    BY <1>3 DEF Put, Goto
  <2> QED
    BY <2>1, <2>2 DEF AInv, CopyIsTrue, EchoIsWritten, DraftIsNext
<1> QED
  BY <1>2, <1>3 DEF DoCreate

LEMMA AddUpPost == ASSUME AInv, TypeOK', Post, Remember PROVE AInv'
<1> DEFINE do == Head(todo).do
           r  == Head(todo).route
<1>1. UNCHANGED <<pod, seen>> /\ at = "doing" /\ todo # <<>> /\ do \in {"add", "remove"}
  BY DEF Post, cacheVars, Doing
<1>2. CASE Stop
  BY <1>1, <1>2, NothingWritten DEF Stop
<1>3. CASE ~Stop
  <2>1. /\ Reached(IF Waits THEN seen.id ELSE target) /\ ~Panics(do, r)
        /\ at' = "annotate" /\ draft' = With(seen.note, do, r) /\ UNCHANGED todo
    BY <1>3 DEF Post
  <2>2. ~lost' => ~lost
    BY <2>1 DEF Remember
  <2>3. ASSUME Kind[r] # "fdb", ~lost PROVE draft' = With(pod.note, do, r)
    <3>1. Waits
      BY <1>1, <2>1, <2>3 DEF Waits, Panics
    <3>2. seen.note = pod.note
      BY <1>1, <2>1, <2>3, <3>1 DEF Reached, AInv, CopyIsTrue
    <3> QED
      BY <2>1, <3>2
  <2>4. DraftIsNext'
    BY <1>1, <2>1, <2>2, <2>3 DEF DraftIsNext, With
  <2> QED
    BY <1>1, <2>1, <2>2, <2>4 DEF AInv, CopyIsTrue, EchoIsWritten
<1> QED
  BY <1>2, <1>3

\* The annotation that is written is the next one, and is waited for unless the
\* answer is lost.
LEMMA AddUpAnnotate ==
  ASSUME AInv, TypeOK', Annotate, Remember
  PROVE  /\ AInv'
         /\ ~lost /\ pod'.note # pod.note
              => pod'.note = With(pod.note, Head(todo).do, Head(todo).route)
<1> DEFINE do == Head(todo).do
           r  == Head(todo).route
           fdb == Kind[r] = "fdb"
           note == IF fdb THEN With(seen.note, do, r) ELSE draft
<1>1. at = "annotate" /\ at' # "annotate"
  BY DEF Annotate, Unwritten, Stop, Done
<1>2. CASE at' # "echo" /\ UNCHANGED <<pod, cacheVars>>
  <2>1. AInv'
    BY <1>1, <1>2, NothingWritten DEF cacheVars
  <2> QED
    BY <1>2, <2>1
<1>3. CASE seen # NoPod /\ fresh /\ Put([pod EXCEPT !.note = note])
           /\ (at' = "echo" => draft' = note)
  <2>1. seen = pod /\ pod \in Pods
    BY <1>3 DEF AInv, TypeOK
  <2>2. ~lost => note = With(pod.note, do, r)
    BY <1>1, <1>3, <2>1 DEF AInv, DraftIsNext
  <2> HIDE DEF note
  <2>3. pod'.note = note /\ pod'.id = pod.id /\ seen' = seen
    BY <1>3, <2>1 DEF Put, Pods
  <2>4. EchoIsWritten' /\ DraftIsNext'
    BY <1>1, <1>3, <2>3 DEF EchoIsWritten, DraftIsNext
  <2>5. CopyIsTrue'
    <3> SUFFICES ASSUME ~lost', at' # "echo" PROVE seen'.note = pod'.note
      BY DEF CopyIsTrue
    <3>1. pod'.note = pod.note
      BY <2>3 DEF Remember
    <3> QED
      BY <2>1, <2>3, <3>1
  <2> QED
    BY <2>2, <2>3, <2>4, <2>5 DEF AInv
<1>4. at' = "echo" \/ Unwritten
  BY DEF Annotate
<1>5. Unwritten => at' # "echo"
  BY DEF Unwritten, Stop, Done
<1> QED
  BY <1>2, <1>3, <1>5 DEF Annotate

LEMMA AddUpEcho == ASSUME AInv, TypeOK', Echo, Remember PROVE AInv'
<1>1. at = "echo" /\ at' \notin {"annotate", "echo"} /\ UNCHANGED <<pod, seen>>
  BY DEF Echo, Unwritten, Stop, Done, cacheVars
<1>2. pod \in Pods \cup {NoPod} /\ seen \in Pods \cup {NoPod}
  BY DEF AInv, TypeOK
<1>3. (pod = NoPod <=> pod.id = 0) /\ (seen = NoPod <=> seen.id = 0)
  BY <1>2, PodFields
<1>4. seen.id = pod.id => seen.note = pod.note
  BY <1>1, <1>3 DEF Echo, AInv, EchoIsWritten
<1> QED
  BY <1>1, <1>4, NothingWritten

LEMMA AddUpNext ==
  AInv /\ [HNext]_hvars
    => /\ AInv'
       /\ pod'.id = pod.id /\ pod'.note # pod.note /\ ~lost
            => pod'.note = With(pod.note, Head(todo).do, Head(todo).route)
<1> SUFFICES ASSUME AInv, [HNext]_hvars
             PROVE  /\ AInv'
                    /\ pod'.id = pod.id /\ pod'.note # pod.note /\ ~lost
                         => pod'.note = With(pod.note, Head(todo).do, Head(todo).route)
  OBVIOUS
<1>0. TypeOK'
  BY TypeNext DEF AInv, HNext, hvars
<1>1. CASE UNCHANGED hvars
  BY <1>0, <1>1 DEF hvars, vars, cacheVars, operatorVars, AInv, CopyIsTrue, EchoIsWritten, DraftIsNext, With
<1>2. CASE HNext
  <2>1. CASE Diff \/ Cut \/ Finish \/ Timeout \/ SetUp \/ Publish
    BY <1>0, <1>2, <2>1, NothingWritten DEF HNext, Diff, Cut, Finish, Timeout, SetUp, Publish,
       Waits, ToPublish, Stop, cacheVars
  <2>2. CASE DoDelete
    <3>1. pod' = pod \/ pod' = NoPod \/ (pod # NoPod /\ Live("ending"))
      BY <2>2 DEF DoDelete, Depart, Put
    <3>2. (pod' = NoPod /\ pod'.id # pod.id) \/ (pod'.id = pod.id /\ pod'.note = pod.note)
      <4>1. pod \in Pods \cup {NoPod} /\ NoPod.id = 0
        BY DEF AInv, TypeOK, NoPod
      <4>2. pod = NoPod <=> pod.id = 0
        BY <4>1, PodFields
      <4> QED
        BY <3>1, <4>1, <4>2 DEF Live, Put, Pods
    <3>3. seen' = seen /\ at = "doing" /\ at' \notin {"annotate", "echo"}
      BY <2>2 DEF DoDelete, Doing, Depart, Live, Put, cacheVars, Done, Stop
    <3>4. AInv'
      BY <1>0, <1>2, <3>2, <3>3, NothingWritten DEF HNext
    <3> QED
      BY <3>2, <3>4
  <2>3. CASE DoCreate
    <3>1. AInv'
      BY <1>0, <1>2, <2>3, AddUpDoCreate DEF HNext
    <3>2. pod'.id = pod.id => pod' = pod
      BY <2>3, NewIdentity DEF DoCreate, Put, PodId, NoPod
    <3> QED
      BY <3>1, <3>2
  <2>4. CASE Post
    <3>1. AInv' /\ pod' = pod
      BY <1>0, <1>2, <2>4, AddUpPost DEF HNext, Post
    <3> QED
      BY <3>1
  <2>5. CASE Annotate
    BY <1>0, <1>2, <2>5, AddUpAnnotate DEF HNext
  <2>6. CASE Echo
    <3>1. AInv' /\ pod' = pod
      BY <1>0, <1>2, <2>6, AddUpEcho DEF HNext, Echo
    <3> QED
      BY <3>1
  <2>7. CASE Kubernetes
    <3>1. UNCHANGED operatorVars /\ seen' = seen
      BY <2>7 DEF Kubernetes, Schedule, Start, Gone, Depart, Live, Put
    <3>2. ASSUME pod # NoPod, NEW life \in Lives, Live(life)
          PROVE  pod'.id = pod.id /\ pod'.note = pod.note
      BY <3>2 DEF Live, Put, AInv, TypeOK, Pods
    <3>3. pod' = pod \/ pod' = NoPod \/ (pod # NoPod /\ \E life \in Lives : Live(life))
      BY <2>7 DEF Kubernetes, Schedule, Start, Gone, Depart, Put, Lives, NoPod
    <3>4. (pod' = NoPod /\ (pod'.id = pod.id => pod' = pod)) \/ (pod'.id = pod.id /\ pod'.note = pod.note)
      <4>1. pod \in Pods \cup {NoPod} /\ NoPod.id = 0
        BY DEF AInv, TypeOK, NoPod
      <4>2. pod = NoPod <=> pod.id = 0
        BY <4>1, PodFields
      <4> QED
        BY <3>2, <3>3, <4>1, <4>2
    <3>5. AInv'
      BY <1>0, <1>2, <3>1, <3>4, NothingWritten DEF HNext, operatorVars
    <3> QED
      BY <3>4, <3>5
  <2>8. CASE Deliver \/ OperatorRestart \/ Edit
    <3>1. AInv' /\ pod' = pod
      BY <1>0, <1>2, <2>8, NothingWritten DEF HNext, Deliver, OperatorRestart, Edit, Stop,
         cacheVars, operatorVars
    <3> QED
      BY <3>1
  <2>9. Diff \/ Cut \/ Finish \/ Timeout \/ SetUp \/ Publish => pod' = pod
    BY DEF Diff, Cut, Finish, Timeout, SetUp, Publish
  <2> QED
    BY <1>2, <2>1, <2>2, <2>3, <2>4, <2>5, <2>6, <2>7, <2>8, <2>9 DEF HNext, Next, Pass
<1> QED
  BY <1>1, <1>2

-----------------------------------------------------------------------------
(* The theorems.                                                            *)

\* The memory takes no step away: what is proved of Spec holds here.
THEOREM HistoryIsSpec == HSpec => Spec
<1>1. HInit => Init
  BY DEF HInit
<1>2. [HNext]_hvars => [Next]_vars
  BY DEF HNext, hvars
<1> QED
  BY <1>1, <1>2, PTL DEF HSpec, Spec

\* Whatever requests, answers and updates are lost, and from whichever copies it was
\* computed, the annotation of a pod names only routes that it was created with or
\* that have been in its kernel.
THEOREM NotesCorrect == HSpec => []NotedWasHad
<1>1. HInv => NotedWasHad
  BY DEF HInv
<1> QED
  BY <1>1, HistoryInit, HistoryNext, PTL DEF HSpec

\* No annotation undoes one before it, as long as none was written behind the
\* operator's back (Annotate and Echo, updateXfrmSpecAnnotation).
THEOREM NotesAddUpCorrect == HSpec => NotesAddUp
<1>1. AInv /\ [HNext]_hvars
        => [pod'.id = pod.id /\ pod'.note # pod.note /\ ~lost
              => pod'.note = With(pod.note, Head(todo).do, Head(todo).route)]_hvars
  BY AddUpNext
<1>2. AInv /\ [HNext]_hvars => AInv'
  BY AddUpNext
<1> QED
  BY <1>1, <1>2, AddUpInit, PTL DEF HSpec, NotesAddUp
=============================================================================
