--------------------------- MODULE Gateway_proofs ---------------------------
(***************************************************************************)
(* The types of Gateway, for any connections, children, peers and faults:  *)
(* whatever the reconciler finds in its cache, the pass it makes of it is  *)
(* a list of actions, an action that is half done is the head of the list, *)
(* and what it has in hand is the stored version of its connection.        *)
(***************************************************************************)
EXTENDS Gateway, SequenceLemmas

Reports == Conn \X (Child \cup {Whole})
Writers == [on : BOOLEAN, report : (Conn \cup {0}) \X (Child \cup {Whole}), valid : BOOLEAN]

\* The types of the resources and of restctl.
Typed ==
  /\ stored \in [Conn -> Resource] /\ cache \in [Conn -> Resource]
  /\ fresh \in [Conn -> BOOLEAN]
  /\ reports \in Seq(Reports)
  /\ writer \in Writers /\ (writer.on => writer.report \in Reports)

\* Those of the daemon and of the pass.
InHand ==
  /\ hand \in SUBSET Conn /\ (hand # {} => at = "update" /\ hand = {Head(todo).conn})
  /\ \A c \in hand : fresh[c]

Listed ==
  /\ CharonType
  /\ at \in {"idle", "cut", "diff", "doing", "answered", "update"}
  /\ at \in {"idle", "cut", "diff"} => todo = <<>>
  /\ at = "answered" => todo # <<>> /\ Head(todo).do = "restart"
  /\ at = "update" => todo # <<>> /\ Head(todo).do \in {"restart", "optimistic"}
  /\ todo \in Seq(Actions)
  /\ notLoaded \in SUBSET Conn
  /\ faults \in 0 .. MaxFaults

TInv == Typed /\ Listed /\ InHand

-----------------------------------------------------------------------------
(* Lemmas on resources.                                                     *)

\* Whole is not a child.
LEMMA WholeIsNone == Whole \notin Child
BY CharonAssumption DEF Whole

LEMMA FailuresAreReports == Failures \subseteq Reports /\ IsFiniteSet(Failures)
<1>1. Failures \subseteq Reports
  BY DEF Failures, Reports
<1>2. IsFiniteSet(Child \cup {Whole})
  BY FS_AddElement, CharonAssumption
<1>3. IsFiniteSet(Reports)
  BY <1>2, FS_Product, CharonAssumption DEF Reports
<1> QED
  BY <1>1, <1>3, FS_Subset

\* A downgraded resource is one, and names the child.
LEMMA DowngradedOK ==
  ASSUME NEW o \in Resource, NEW k \in Child \cup {Whole}
  PROVE  Downgraded(o, k) \in Resource /\ Named(Downgraded(o, k))
<1>1. CASE k = Whole
  BY <1>1 DEF Downgraded, Resource, Named
<1>2. CASE k \in Child
  <2>1. k # Whole
    BY <1>2, WholeIsNone
  <2>2. Downgraded(o, k) = [o EXCEPT !.state = "Degraded", !.made = TRUE, !.kids[k] = "Down"]
    BY <2>1 DEF Downgraded
  <2> DEFINE kids == [o.kids EXCEPT ![k] = "Down"]
  <2>3. kids \in [Child -> ChildStates] /\ kids[k] = "Down"
    BY <1>2 DEF Resource, ChildStates
  <2>4. Downgraded(o, k) = [o EXCEPT !.state = "Degraded", !.made = TRUE, !.kids = kids]
    BY <2>2 DEF Resource
  <2> HIDE DEF kids
  <2>5. Downgraded(o, k) \in Resource /\ Downgraded(o, k).kids = kids
    BY <2>3, <2>4 DEF Resource
  <2> QED
    BY <1>2, <2>3, <2>5 DEF Named
<1> QED
  BY <1>1, <1>2

\* Children that are marked are UP, and nothing else has changed.
LEMMA MarkedOK ==
  ASSUME NEW o \in Resource, NEW ks
  PROVE  LET p == Marked(o, ks)
         IN  /\ p \in Resource
             /\ p.spec = o.spec /\ p.state = o.state /\ p.made = o.made
             /\ \A k \in Child : p.kids[k] = IF k \in ks THEN "UP" ELSE o.kids[k]
<1> DEFINE kids == [k \in Child |-> IF k \in ks THEN "UP" ELSE o.kids[k]]
<1>1. kids \in [Child -> ChildStates] /\ \A k \in Child : kids[k] = IF k \in ks THEN "UP" ELSE o.kids[k]
  BY DEF Resource, ChildStates
<1>2. Marked(o, ks) = [o EXCEPT !.kids = kids]
  BY DEF Marked
<1> HIDE DEF kids
<1> QED
  BY <1>1, <1>2 DEF Resource

\* What is proposed has the spec and, but for what the action raises, the children
\* of the copy read; it is UP unless that and a child of it are Down.
LEMMA ProposedOK ==
  ASSUME NEW o \in Resource, NEW action
  PROVE  LET p == Proposed(action, o)
         IN  /\ p \in Resource /\ Named(p) /\ p.spec = o.spec
             /\ \A k \in Child : p.kids[k] \in {o.kids[k], "UP"}
             /\ action.do = "restart" =>
                  /\ p.kids = o.kids /\ p.made = o.made
                  /\ p.state = o.state \/ (p.state = "UP" /\ \A k \in Child : p.kids[k] # "Down")
             /\ action.do # "restart" =>
                  /\ p.state = "UP" /\ p.made /\ \A k \in o.spec : p.kids[k] # "Down"
<1>1. CASE action.do = "restart"
  <2> DEFINE state == IF \E k \in Child : o.kids[k] = "Down" THEN o.state ELSE "UP"
  <2>1. Proposed(action, o) = [o EXCEPT !.state = state]
    BY <1>1 DEF Proposed, Raised
  <2>2. state \in {"", "UP", "Degraded", "Down"}
    BY DEF Resource
  <2>3. state = o.state \/ (state = "UP" /\ \A k \in Child : o.kids[k] # "Down")
    OBVIOUS
  <2>4. state = "Degraded" => \E k \in Child : o.kids[k] = "Down"
    OBVIOUS
  <2> HIDE DEF state
  <2>5. LET p == Proposed(action, o)
        IN  p \in Resource /\ p.spec = o.spec /\ p.kids = o.kids /\ p.made = o.made /\ p.state = state
    BY <2>1, <2>2 DEF Resource
  <2> QED
    BY <1>1, <2>3, <2>4, <2>5 DEF Named
<1>2. CASE action.do # "restart"
  <2> DEFINE m == Marked(o, o.spec)
  <2>1. /\ m \in Resource /\ m.spec = o.spec
        /\ \A k \in Child : m.kids[k] = IF k \in o.spec THEN "UP" ELSE o.kids[k]
    BY MarkedOK
  <2>2. o.spec \in SUBSET Child
    BY DEF Resource
  <2>3. Proposed(action, o) = [m EXCEPT !.state = "UP", !.made = TRUE]
    BY <1>2 DEF Proposed
  <2> HIDE DEF m
  <2>4. LET p == Proposed(action, o)
        IN  p \in Resource /\ p.spec = o.spec /\ p.kids = m.kids /\ p.made /\ p.state = "UP"
    BY <2>1, <2>3 DEF Resource
  <2> QED
    BY <1>2, <2>1, <2>2, <2>4 DEF Named
<1> QED
  BY <1>1, <1>2

-----------------------------------------------------------------------------
(* Updates.                                                                 *)

\* News for a writer leaves it a writer.
LEMMA OutdateOK ==
  ASSUME Typed, NEW c, Outdate(c)
  PROVE  /\ fresh' \in [Conn -> BOOLEAN] /\ (c \in Conn => ~fresh'[c])
         /\ \A d \in Conn : d # c => fresh'[d] = fresh[d]
         /\ writer' \in Writers /\ (writer'.on => writer'.report \in Reports)
BY DEF Outdate, Typed, Writers

LEMMA PutOK ==
  ASSUME Typed, NEW c, NEW o, Put(c, o), c \in Conn => o \in Resource
  PROVE  /\ stored' \in [Conn -> Resource] /\ fresh' \in [Conn -> BOOLEAN]
         /\ writer' \in Writers /\ (writer'.on => writer'.report \in Reports)
         /\ \A d \in Conn : stored'[d] = IF d = c THEN o ELSE stored[d]
         /\ \A d \in Conn : fresh'[d] => fresh[d] /\ stored'[d] = stored[d]
<1>1. stored' = [stored EXCEPT ![c] = o]
  BY DEF Put
<1>2. stored' \in [Conn -> Resource] /\ \A d \in Conn : stored'[d] = IF d = c THEN o ELSE stored[d]
  BY <1>1 DEF Typed
<1>3. CASE o = stored[c]
  BY <1>2, <1>3 DEF Put, Typed
<1>4. CASE o # stored[c]
  BY <1>2, <1>4, OutdateOK DEF Put, Typed
<1> QED
  BY <1>2, <1>3, <1>4

-----------------------------------------------------------------------------
(* The resources and restctl, step by step.                                 *)

LEMMA PollTyped == ASSUME Typed, Poll PROVE Typed'
<1>1. UNCHANGED <<crVars, writer>>
  BY DEF Poll
<1>2. reports' \in Seq(Reports)
  <2> DEFINE whole == {f \in Failures : f[2] = Whole}
  <2>1. IsFiniteSet(whole) /\ IsFiniteSet(Failures \ whole)
    BY FailuresAreReports, FS_Subset
  <2>2. PICK s \in SetToSeqs(Failures \ whole), t \in SetToSeqs(whole) : reports' = reports \o s \o t
    BY DEF Poll
  <2>3. s \in Seq(Failures \ whole) /\ t \in Seq(whole)
    BY <2>1, OrderingIsSeq
  <2>4. s \in Seq(Reports) /\ t \in Seq(Reports)
    BY <2>3, FailuresAreReports
  <2> QED
    BY <2>2, <2>4 DEF Typed
<1> QED
  BY <1>1, <1>2 DEF Typed, crVars

LEMMA PickTyped == ASSUME Typed, Pick PROVE Typed'
<1>1. Head(reports) \in Reports /\ Tail(reports) \in Seq(Reports)
  BY DEF Typed, Pick
<1>2. UNCHANGED crVars /\ reports' \in Seq(Reports)
  BY <1>1 DEF Pick
<1>3. writer' = writer \/ writer' = [on |-> TRUE, report |-> Head(reports), valid |-> TRUE]
  BY DEF Pick
<1>4. writer' \in Writers /\ (writer'.on => writer'.report \in Reports)
  <2>1. CASE writer' = writer
    BY <2>1 DEF Typed
  <2>2. CASE writer' = [on |-> TRUE, report |-> Head(reports), valid |-> TRUE]
    <3>1. Head(reports) \in (Conn \cup {0}) \X (Child \cup {Whole})
      BY <1>1 DEF Reports
    <3> QED
      BY <1>1, <2>2, <3>1 DEF Writers
  <2> QED
    BY <1>3, <2>1, <2>2
<1> QED
  BY <1>2, <1>4 DEF Typed, crVars

LEMMA DowngradeTyped == ASSUME Typed, Downgrade PROVE Typed'
<1> DEFINE c == writer.report[1]
           o == Downgraded(stored[c], writer.report[2])
<1>1. c \in Conn /\ o \in Resource
  BY DowngradedOK DEF Typed, Downgrade, Reports
<1>2. writer' \in Writers /\ ~writer'.on /\ UNCHANGED <<cache, reports>>
  BY DEF Downgrade, NoReport, Writers
<1>3. CASE UNCHANGED <<stored, fresh>>
  BY <1>2, <1>3 DEF Typed
<1>4. CASE stored' = [stored EXCEPT ![c] = o] /\ fresh' = [fresh EXCEPT ![c] = fresh[c] /\ o = stored[c]]
  <2> HIDE DEF c, o
  <2> QED
    BY <1>1, <1>2, <1>4 DEF Typed
<1> QED
  BY <1>3, <1>4 DEF Downgrade

LEMMA EditTyped == ASSUME Typed, NEW c \in Conn, NEW s \in SUBSET Child, Edit(c, s) PROVE Typed'
<1>1. stored[c] \in Resource
  BY DEF Typed
<1>2. Unmonitored(s) \in Resource
  BY DEF Unmonitored, Resource, ChildStates
<1>3. [stored[c] EXCEPT !.spec = s] \in Resource
  BY <1>1 DEF Resource
<1>4. UNCHANGED <<cache, reports>>
  BY DEF Edit
<1> QED
  BY <1>2, <1>3, <1>4, PutOK DEF Edit, Typed

\* The two writers of a whole status or of metadata.
LEMMA WriteTyped == ASSUME Typed, NEW c \in Conn, Admit(c) \/ OtherWrite(c) PROVE Typed'
<1>1. Outdate(c) /\ UNCHANGED <<cache, reports>>
  BY DEF Admit, OtherWrite
<1>2. stored' \in [Conn -> Resource]
  BY DEF Admit, OtherWrite, Typed
<1> QED
  BY <1>1, <1>2, OutdateOK DEF Typed

LEMMA BeginTyped == ASSUME Typed, Begin PROVE Typed'
<1>1. UNCHANGED <<cache, reports>>
  BY DEF Begin
<1>2. CASE UNCHANGED <<stored, fresh, writer>>
  BY <1>1, <1>2 DEF Typed
<1>3. CASE ~UNCHANGED <<stored, fresh, writer>>
  <2> DEFINE changed == {c \in Conn : stored'[c] # stored[c]}
  <2>1. /\ stored' = [c \in Conn |-> IF c \in Existing /\ fresh[c] THEN cache[c] ELSE stored[c]]
        /\ fresh' = [c \in Conn |-> fresh[c] /\ c \notin changed]
        /\ writer' = IF writer.on /\ writer.report[1] \in changed
                     THEN [writer EXCEPT !.valid = FALSE] ELSE writer
    BY <1>3 DEF Begin
  <2> HIDE DEF changed
  <2>2. stored' \in [Conn -> Resource] /\ fresh' \in [Conn -> BOOLEAN]
    BY <2>1 DEF Typed
  <2>3. writer' \in Writers /\ (writer'.on => writer'.report \in Reports)
    BY <2>1 DEF Typed, Writers
  <2> QED
    BY <1>1, <2>2, <2>3 DEF Typed
<1> QED
  BY <1>2, <1>3

\* The first half of an action: the shared map is changed.
LEMMA TouchTyped ==
  ASSUME Typed, DoOptimistic \/ Raise
  PROVE  Typed'
<1>1. UNCHANGED <<stored, fresh, writer, reports>>
  BY DEF DoOptimistic, Raise
<1>2. cache' \in [Conn -> Resource]
  <2> DEFINE c == Head(todo).conn
             o == cache[c]
  <2>1. CASE UNCHANGED cache
    BY <2>1 DEF Typed
  <2>2. ASSUME NEW ks, cache' = [cache EXCEPT ![c] = Marked(o, ks)]
        PROVE  cache' \in [Conn -> Resource]
    <3>1. c \in Conn => Marked(o, ks) \in Resource
      BY MarkedOK DEF Typed
    <3> HIDE DEF c
    <3> QED
      BY <2>2, <3>1 DEF Typed
  <2>3. CASE cache' = [cache EXCEPT ![c] = o]
    BY <2>3 DEF Typed
  <2> QED
    BY <2>1, <2>2, <2>3 DEF DoOptimistic, Raise, Touch
<1> QED
  BY <1>1, <1>2 DEF Typed

LEMMA UpdateTyped == ASSUME Typed, Update PROVE Typed'
<1> DEFINE c == Head(todo).conn
           o == Proposed(Head(todo), cache[c])
<1>1. UNCHANGED <<cache, reports>>
  BY DEF Update
<1>2. c \in Conn => o \in Resource
  BY ProposedOK DEF Typed
<1>3. Put(c, o) \/ UNCHANGED <<stored, fresh, writer>>
  BY DEF Update
<1> HIDE DEF c, o
<1> QED
  BY <1>1, <1>2, <1>3, PutOK DEF Typed

LEMMA TypedNext == Typed /\ [Next]_vars => Typed'
<1> SUFFICES ASSUME Typed, [Next]_vars PROVE Typed'
  OBVIOUS
<1>1. CASE Restctl
  BY <1>1, PollTyped, PickTyped, DowngradeTyped DEF Restctl
<1>2. CASE Begin \/ DoOptimistic \/ Raise \/ Update
  BY <1>2, BeginTyped, TouchTyped, UpdateTyped
<1>3. CASE Diff \/ DoOverride \/ Call \/ Cut \/ Finish \/ Peers \/ UNCHANGED vars
  <2>1. UNCHANGED <<crVars, reports, writer>>
    BY <1>3 DEF Diff, DoOverride, Call, Cut, Finish, Peers, vars
  <2> QED
    BY <2>1 DEF Typed, crVars
<1>4. CASE OperatorRestart \/ \E c \in Conn : Deliver(c)
  BY <1>4 DEF OperatorRestart, Deliver, Typed
<1>5. CASE \E c \in Conn : Admit(c) \/ OtherWrite(c) \/ (\E s \in SUBSET Child : Edit(c, s))
  BY <1>5, WriteTyped, EditTyped
<1> QED
  BY <1>1, <1>2, <1>3, <1>4, <1>5 DEF Next, Pass

-----------------------------------------------------------------------------
(* The daemon, and the list of actions.                                     *)

\* What diffIPSecs makes of a connection is a list of actions, whatever the order
\* of its children.
LEMMA RepairsAreActions ==
  ASSUME Typed, NEW c \in Existing, NEW ks \in SetToSeqs(cache[c].spec)
  PROVE  Repairs(c, ks) \in Seq(Actions)
<1> DEFINE o == cache[c]
           missing(k) == o.kids[k] = "none" \/ o.state = ""
           ofChild(k) == IF missing(k) THEN <<Optimistic(c)>>
                         ELSE IF o.kids[k] # "UP" THEN <<Restart(c, k)>> ELSE <<>>
           first == IF o.state = "" \/ ~o.made THEN <<Optimistic(c)>> ELSE <<>>
           lists == [i \in 1 .. Len(ks) |-> ofChild(ks[i])]
<1>1. c \in Conn /\ o.spec \in SUBSET Child /\ o.spec # {} /\ IsFiniteSet(o.spec)
  BY FS_Subset, CharonAssumption DEF Typed, Resource, Existing
<1>2. \A k \in Child : Optimistic(c) \in Actions /\ Restart(c, k) \in Actions
  BY <1>1 DEF Optimistic, Restart, Actions
<1>3. Optimistic(c) \in Actions
  BY <1>1 DEF Optimistic, Actions
<1>4. First(o.spec) \in Child
  <2>1. o.spec \in SUBSET Nat
    BY <1>1, CharonAssumption
  <2>2. \E k \in o.spec : \A j \in o.spec : k <= j
    BY <1>1, <2>1, SmallestNumber
  <2> QED
    BY <1>1, <2>2 DEF First
<1>5. ks \in Seq(Child)
  BY <1>1, OrderingIsSeq, SeqMonotonic
<1>6. /\ <<Optimistic(c)>> \in Seq(Actions) /\ <<>> \in Seq(Actions)
      /\ \A k \in Child : <<Restart(c, k)>> \in Seq(Actions)
  BY <1>2, <1>3
<1>7. /\ \A k \in Child : ofChild(k) \in Seq(Actions)
      /\ first \in Seq(Actions) /\ <<Restart(c, First(o.spec))>> \in Seq(Actions)
  BY <1>4, <1>6
<1> HIDE DEF ofChild, first
<1>8. lists \in Seq(Seq(Actions))
  BY <1>5, <1>7, LenProperties, ElementOfSeq
<1>9. FlattenSeq(lists) \in Seq(Actions)
  BY <1>8, FlattenIsSeq
<1>10. Repairs(c, ks) = first \o (IF o.state = "Down" THEN <<Restart(c, First(o.spec))>>
                                  ELSE FlattenSeq(lists))
  BY DEF Repairs, ofChild, first
<1> HIDE DEF lists
<1> QED
  BY <1>7, <1>9, <1>10, ConcatProperties

\* ... and so is the list of a pass.
LEMMA DiffListed == ASSUME Typed, Listed, Diff PROVE Listed'
<1>1. UNCHANGED charonVars
  BY DEF Diff
<1>2. CASE Fault("http") /\ Stop
  BY <1>1, <1>2, GatewayAssumption DEF Fault, Stop, Listed, CharonType, charonVars
<1>3. CASE ~(Fault("http") /\ Stop)
  <2>1. PICK order \in [Existing -> UNION {SetToSeqs(cache[c].spec) : c \in Existing}], cs \in Sorted(Existing) :
          /\ \A c \in Existing : order[c] \in SetToSeqs(cache[c].spec)
          /\ todo' = (IF NewlyMissing # {} \/ Configs \ Existing # {}
                      THEN <<Override(Existing)>> ELSE <<>>)
                     \o FlattenSeq([i \in 1 .. Len(cs) |-> Repairs(cs[i], order[cs[i]])])
    BY <1>3 DEF Diff
  <2> DEFINE first == IF NewlyMissing # {} \/ Configs \ Existing # {}
                      THEN <<Override(Existing)>> ELSE <<>>
             lists == [i \in 1 .. Len(cs) |-> Repairs(cs[i], order[cs[i]])]
  <2>2. Existing \in SUBSET Conn /\ IsFiniteSet(Existing)
    BY FS_Subset, CharonAssumption DEF Existing
  <2>3. cs \in Seq(Existing)
    BY <2>2, OrderingIsSeq DEF Sorted
  <2>4. first \in Seq(Actions)
    <3>1. Override(Existing) \in Actions
      BY <2>2 DEF Override, Actions
    <3>2. <<Override(Existing)>> \in Seq(Actions) /\ <<>> \in Seq(Actions)
      BY <3>1
    <3> QED
      BY <3>2
  <2>5. \A c \in Existing : Repairs(c, order[c]) \in Seq(Actions)
    BY <2>1, RepairsAreActions
  <2>6. lists \in Seq(Seq(Actions))
    BY <2>3, <2>5, LenProperties, ElementOfSeq
  <2>7. FlattenSeq(lists) \in Seq(Actions)
    BY <2>6, FlattenIsSeq
  <2>8. todo' = first \o FlattenSeq(lists)
    BY <2>1
  <2> HIDE DEF first, lists
  <2>9. todo' \in Seq(Actions)
    BY <2>4, <2>7, <2>8, ConcatProperties
  <2>10. notLoaded' \in SUBSET Conn /\ at' = "doing" /\ UNCHANGED faults
    BY <1>3, <2>2 DEF Diff, NewlyMissing, Listed
  <2> QED
    BY <1>1, <2>9, <2>10 DEF Listed, CharonType, charonVars
<1> QED
  BY <1>2, <1>3

\* The first action of the list, and the rest.
LEMMA HeadIsAction ==
  ASSUME Listed, todo # <<>>
  PROVE  /\ Tail(todo) \in Seq(Actions)
         /\ Head(todo).do = "override" => Head(todo).conns \in SUBSET Conn
         /\ Head(todo).do \in {"restart", "optimistic"} => Head(todo).conn \in Conn
         /\ Head(todo).do = "restart" => Head(todo).child \in Child
<1>1. Head(todo) \in Actions /\ Tail(todo) \in Seq(Actions)
  BY HeadTailProperties DEF Listed
<1> QED
  BY <1>1 DEF Actions

\* A config that is loaded is one of those wanted, or stays.
LEMMA ReloadTyped ==
  ASSUME CharonType, NEW configs \in [Conn -> SUBSET Child], NEW accepted, Reload(configs, accepted)
  PROVE  CharonType'
BY DEF Reload, CharonType

\* A restarted child has an SA.
LEMMA ConnectTyped ==
  ASSUME CharonType, NEW c \in Conn, NEW k \in Child, Connect(c, k)
  PROVE  CharonType'
BY DEF Connect, CharonType

\* Pops, ends and faults.
LEMMA PassListed ==
  ASSUME Listed, CharonType', (Done /\ todo # <<>>) \/ Stop, UNCHANGED faults \/ (\E f \in FaultKinds : Fault(f))
  PROVE  Listed'
<1>1. faults' \in 0 .. MaxFaults
  BY GatewayAssumption DEF Fault, Listed
<1>2. CASE Done /\ todo # <<>>
  BY <1>1, <1>2, HeadIsAction DEF Done, Listed
<1>3. CASE Stop
  BY <1>1, <1>3 DEF Stop, Listed
<1> QED
  BY <1>2, <1>3

LEMMA DoOverrideListed == ASSUME Typed, Listed, DoOverride PROVE Listed'
<1> DEFINE conns == Head(todo).conns
           configs == [c \in Conn |-> IF c \in conns THEN cache[c].spec ELSE {}]
<1>1. todo # <<>>
  BY DEF DoOverride
<1>2. configs \in [Conn -> SUBSET Child]
  BY DEF Typed, Resource
<1>3. CharonType /\ ((\E acc : Reload(configs, acc)) \/ UNCHANGED charonVars)
  BY DEF DoOverride, Listed
<1> HIDE DEF configs
<1>4. CharonType'
  BY <1>2, <1>3, ReloadTyped DEF CharonType, charonVars
<1>5. (Done \/ Stop) /\ (UNCHANGED faults \/ (\E f \in FaultKinds : Fault(f)))
  BY DEF DoOverride, Fault
<1> QED
  BY <1>1, <1>4, <1>5, PassListed

\* An action that is half done, and the other half.
LEMMA TouchListed == ASSUME Listed, DoOptimistic \/ Raise PROVE Listed'
<1>1. CharonType' /\ todo # <<>> /\ UNCHANGED faults
  BY DEF DoOptimistic, Raise, Listed, CharonType, charonVars
<1>2. CASE Stop
  BY <1>1, <1>2, PassListed
<1>3. CASE at' = "update" /\ UNCHANGED <<todo, notLoaded>>
  <2>1. Head(todo).do \in {"restart", "optimistic"}
    BY DEF DoOptimistic, Raise, Listed
  <2> QED
    BY <1>1, <1>3, <2>1 DEF Listed
<1> QED
  BY <1>2, <1>3 DEF DoOptimistic, Raise, Touch

LEMMA UpdateListed == ASSUME Listed, Update PROVE Listed'
<1>1. CharonType' /\ todo # <<>>
  BY DEF Update, Listed, CharonType, charonVars
<1>2. (Done \/ Stop) /\ (UNCHANGED faults \/ (\E f \in FaultKinds : Fault(f)))
  BY DEF Update, Fault
<1> QED
  BY <1>1, <1>2, PassListed

LEMMA CallListed == ASSUME Listed, Call PROVE Listed'
<1> DEFINE c == Head(todo).conn
           k == Head(todo).child
<1>1. todo # <<>> /\ Head(todo).do = "restart" /\ CharonType
  BY DEF Call, Listed
<1>2. c \in Conn /\ k \in Child
  BY <1>1, HeadIsAction
<1> HIDE DEF c, k
<1>3. CharonType'
  <2>1. Connect(c, k) \/ UNCHANGED charonVars
    BY DEF Call, c, k
  <2> QED
    BY <1>1, <1>2, <2>1, ConnectTyped DEF CharonType, charonVars
<1>4. CASE Goto("answered") /\ UNCHANGED faults
  BY <1>1, <1>3, <1>4 DEF Goto, Listed
<1>5. CASE Stop
  <2>1. UNCHANGED faults \/ (\E f \in FaultKinds : Fault(f))
    BY <1>5 DEF Call, Fault, Stop, Goto
  <2> QED
    BY <1>3, <1>5, <2>1, PassListed
<1> QED
  BY <1>4, <1>5 DEF Call

LEMMA PeersListed == ASSUME Listed, Peers PROVE Listed'
<1>1. CharonType /\ UNCHANGED operatorVars
  BY DEF Peers, Listed
<1>2. faults' \in 0 .. MaxFaults
  BY GatewayAssumption DEF Peers, Fault, Listed
<1>3. CharonType'
  <2>1. CASE \E c \in Conn, k \in Child : ComeUp(c, k)
    BY <1>1, <2>1, ConnectTyped DEF ComeUp
  <2>2. CASE \E c \in Conn, k \in Child : LoseChild(c, k)
    BY <1>1, <2>2 DEF LoseChild, CharonType
  <2>3. CASE \E c \in Conn : LoseIke(c)
    BY <1>1, <2>3 DEF LoseIke, CharonType
  <2>4. CASE Crash
    BY <2>4 DEF Crash, CharonType
  <2> QED
    BY <2>1, <2>2, <2>3, <2>4 DEF Peers
<1> QED
  BY <1>1, <1>2, <1>3 DEF operatorVars, passVars, Listed

\* Every step keeps the list.
LEMMA ListedNext == Typed /\ Listed /\ [Next]_vars => Listed'
<1> SUFFICES ASSUME Typed, Listed, [Next]_vars PROVE Listed'
  OBVIOUS
<1> USE DEF charonVars, passVars, operatorVars
<1>1. CASE \/ UNCHANGED vars \/ Restctl
           \/ \E c \in Conn : Deliver(c) \/ Admit(c) \/ OtherWrite(c) \/ (\E s \in SUBSET Child : Edit(c, s))
  <2>1. UNCHANGED <<charonVars, passVars>>
    BY <1>1 DEF vars, Restctl, Poll, Pick, Downgrade, Deliver, Admit, OtherWrite, Edit
  <2>2. UNCHANGED faults \/ (\E f \in FaultKinds : Fault(f))
    BY <1>1 DEF vars, Restctl, Poll, Pick, Downgrade, Deliver, Admit, OtherWrite, Edit, Fault
  <2>3. faults' \in 0 .. MaxFaults
    BY <2>2, GatewayAssumption DEF Fault, Listed
  <2> QED
    BY <2>1, <2>3 DEF Listed, CharonType
<1>2. CASE Begin \/ OperatorRestart
  <2>1. /\ at' \in {"idle", "diff"} /\ todo' = <<>> /\ notLoaded' \in SUBSET Conn
        /\ UNCHANGED charonVars
    BY <1>2 DEF Begin, Goto, OperatorRestart, Listed
  <2>2. UNCHANGED faults \/ (\E f \in FaultKinds : Fault(f))
    BY <1>2 DEF Begin, OperatorRestart, Fault
  <2>3. faults' \in 0 .. MaxFaults
    BY <2>2, GatewayAssumption DEF Fault, Listed
  <2> QED
    BY <2>1, <2>3 DEF Listed, CharonType
<1>3. CASE Diff
  BY <1>3, DiffListed
<1>4. CASE DoOverride
  BY <1>4, DoOverrideListed
<1>5. CASE DoOptimistic \/ Raise \/ Update
  BY <1>5, TouchListed, UpdateListed
<1>6. CASE Call
  BY <1>6, CallListed
<1>7. CASE Finish
  <2>1. CharonType' /\ Stop /\ UNCHANGED faults
    BY <1>7 DEF Finish, Listed, CharonType
  <2> QED
    BY <2>1, PassListed
<1>8. CASE Cut
  <2>1. at' = "cut" /\ todo' = <<>> /\ UNCHANGED <<notLoaded, faults, charonVars>>
    BY <1>8 DEF Cut
  <2>2. <<>> \in Seq(Actions)
    OBVIOUS
  <2> QED
    BY <2>1, <2>2 DEF Listed, CharonType
<1>9. CASE Peers
  BY <1>9, PeersListed
<1> QED
  BY <1>1, <1>2, <1>3, <1>4, <1>5, <1>6, <1>7, <1>8, <1>9 DEF Next, Pass

\* Whoever else writes the resource takes it out of the reconciler's hand.
LEMMA InHandNext == TInv /\ [Next]_vars => InHand'
<1> SUFFICES ASSUME TInv, [Next]_vars PROVE InHand'
  OBVIOUS
<1> USE DEF TInv, InHand
<1>1. CASE \/ Poll \/ Pick \/ Peers \/ UNCHANGED vars \/ \E c \in Conn : Deliver(c)
  <2>1. UNCHANGED <<hand, at, todo>> /\ \A c \in Conn : fresh[c] => fresh'[c]
    BY <1>1 DEF Poll, Pick, Peers, vars, crVars, operatorVars, passVars, Deliver, Typed
  <2> QED
    BY <2>1
<1>2. CASE Downgrade \/ \E c \in Conn : Admit(c) \/ OtherWrite(c) \/ (\E s \in SUBSET Child : Edit(c, s))
  <2>1. hand' = {c \in hand : fresh'[c]} /\ UNCHANGED <<at, todo>>
    BY <1>2 DEF Downgrade, Admit, OtherWrite, Edit, Overtaken, passVars
  <2> QED
    BY <2>1
<1>3. CASE Begin \/ Diff \/ DoOverride \/ Call \/ Update \/ Cut \/ Finish \/ OperatorRestart
  <2>1. hand' = {}
    BY <1>3 DEF Begin, Goto, Diff, DoOverride, Done, Stop, Call, Update, Cut, Finish, OperatorRestart
  <2> QED
    BY <2>1
<1>4. CASE DoOptimistic \/ Raise
  <2> DEFINE c == Head(todo).conn
  <2>1. c \in Conn
    <3>1. todo # <<>> /\ Head(todo).do \in {"restart", "optimistic"}
      BY <1>4 DEF DoOptimistic, Raise, Listed
    <3> QED
      BY <3>1, HeadIsAction
  <2>2. hand' = {} \/ (hand' = {d \in {c} : fresh[d]} /\ at' = "update" /\ UNCHANGED <<todo, fresh>>)
    BY <1>4 DEF DoOptimistic, Raise, Touch, Stop
  <2> HIDE DEF c
  <2>3. CASE hand' = {}
    BY <2>3
  <2>4. CASE hand' = {d \in {c} : fresh[d]} /\ at' = "update" /\ UNCHANGED <<todo, fresh>>
    BY <2>1, <2>4 DEF c
  <2> QED
    BY <2>2, <2>3, <2>4
<1> QED
  BY <1>1, <1>2, <1>3, <1>4 DEF Next, Pass, Restctl

-----------------------------------------------------------------------------
(* The theorem.                                                             *)

LEMMA InitTyped == Init => TInv
<1> SUFFICES ASSUME Init PROVE TInv
  OBVIOUS
<1>1. \A c \in Conn : Unmonitored(Spec0[c]) \in Resource
  BY GatewayAssumption DEF Unmonitored, Resource, ChildStates
<1>2. stored \in [Conn -> Resource] /\ cache = stored /\ fresh \in [Conn -> BOOLEAN]
  BY <1>1 DEF Init
<1>3. reports \in Seq(Reports) /\ writer \in Writers /\ ~writer.on
  BY DEF Init, NoReport, Writers
<1>4. CharonType
  BY DEF Init, CharonInit, CharonType
<1>5. Listed
  BY <1>4, GatewayAssumption DEF Init, Listed
<1>6. InHand
  BY DEF Init, InHand
<1> QED
  BY <1>2, <1>3, <1>5, <1>6 DEF TInv, Typed

LEMMA NextTyped == TInv /\ [Next]_vars => TInv'
BY TypedNext, ListedNext, InHandNext DEF TInv

\* The variables have their types: whatever diffIPSecs lists for whichever
\* connections, in whatever order of their children, is a list of actions; an
\* action that is half done is its head, and what it has read is the stored version
\* unless the update is going to fail (DiffStates, Reconcile's loop, actions.go).
THEOREM TypeCorrect == Spec => []TypeOK
<1>1. TInv => TypeOK
  BY DEF TInv, Typed, Listed, InHand, TypeOK, Reports
<1> QED
  BY <1>1, InitTyped, NextTyped, PTL DEF Spec
=============================================================================
