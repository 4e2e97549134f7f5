---------------------------- MODULE Groups_proofs ----------------------------
(***************************************************************************)
(* A pass of the reconciler leaves the pods alone that ran where they were *)
(* wanted, for any groups, connections, nodes and faults: types first,     *)
(* then the invariant Spared, that no deletion to come is of such a pod.   *)
(***************************************************************************)
EXTENDS Groups, FiniteSetTheorems, TLAPS

-----------------------------------------------------------------------------
(* Keys and actions.                                                        *)

\* What a key consists of.
LEMMA KeyParts ==
  ASSUME NEW k \in Keys
  PROVE  /\ k[1] \in {"charon", "restctl", "xfrm"} /\ k[2] \in Nat
         /\ k = <<k[1], k[2]>>
         /\ k[1] = "xfrm" => k[2] \in Conn
         /\ k[1] # "xfrm" => k[2] \in Group
<1>1. CASE k \in {"charon", "restctl"} \X Group
  <2>1. PICK t \in {"charon", "restctl"}, g \in Group : k = <<t, g>>
    BY <1>1
  <2> QED
    BY <2>1, GroupsAssumption
<1>2. CASE k \in {"xfrm"} \X Conn
  <2>1. PICK c \in Conn : k = <<"xfrm", c>>
    BY <1>2
  <2> QED
    BY <2>1, GroupsAssumption
<1> QED
  BY <1>1, <1>2 DEF Keys

\* The keys of a group and of a connection.
LEMMA KeysOf ==
  /\ \A g \in Group : Charon(g) \in Keys /\ Restctl(g) \in Keys
  /\ \A c \in Conn : Xfrm(c) \in Keys
  /\ \A g : Charon(g)[1] = "charon" /\ Charon(g)[2] = g
BY DEF Keys, Charon, Restctl, Xfrm

Dos == {"delete", "create", "override", "connections"}

\* A step is an action.
LEMMA StepIsAction ==
  ASSUME NEW do \in Dos, NEW k \in Keys, NEW g \in Group,
         NEW n \in Node \cup {0}, NEW turn \in Nat, NEW rank \in Nat
  PROVE  /\ Step(do, k, g, n, turn, rank) \in Steps
         /\ Step(do, k, g, n, turn, rank).do = do
         /\ Step(do, k, g, n, turn, rank).key = k
<1>1. k[2] \in Nat /\ g \in Nat
  BY KeyParts, GroupsAssumption
<1>2. Step(do, k, g, n, turn, rank).pos \in Nat \X Nat \X Nat \X Nat \X Nat
  BY <1>1 DEF Step
<1> QED
  BY <1>2 DEF Step, Steps, Dos

\* The turn of a group that is not in use.
LEMMA TurnIsNat ==
  ASSUME NEW late \in [Unused -> 1 .. Cardinality(Unused)], NEW g \in Unused
  PROVE  late[g] \in Nat
<1>1. IsFiniteSet(Unused)
  BY FS_Subset, GroupsAssumption DEF Unused
<1>2. Cardinality(Unused) \in Nat
  BY <1>1, FS_CardinalityType
<1> QED
  BY <1>2

-----------------------------------------------------------------------------
(* What DiffStates returns.                                                 *)

\* What is to be done about one pod.
LEMMA ReplacedAreActions ==
  ASSUME TypeOK, NEW g \in Group, NEW k \in Keys, NEW cur, NEW a \in Replaced(k, g, cur)
  PROVE  /\ a \in Steps /\ a.key = k
         /\ a.do = "delete" => cur # NoPod /\ ~Placed(cur, node[g])
<1>1. PICK do \in {"delete", "create"} :
        /\ a = Step(do, k, g, node[g], 0, Rank(k))
        /\ do = "delete" => cur # NoPod /\ ~Placed(cur, node[g])
  BY DEF Replaced
<1>2. node[g] \in Node \cup {0}
  BY DEF TypeOK
<1>3. do \in Dos /\ Rank(k) \in Nat
  BY DEF Rank, Dos
<1>4. Step(do, k, g, node[g], 0, Rank(k)) \in Steps
      /\ Step(do, k, g, node[g], 0, Rank(k)).do = do /\ Step(do, k, g, node[g], 0, Rank(k)).key = k
  BY <1>2, <1>3, StepIsAction
<1> QED
  BY <1>1, <1>4

\* A group in use: no pod in its place is deleted.
LEMMA RepairsAreActions ==
  ASSUME TypeOK, NEW g \in Group, NEW reload, NEW down, NEW a \in Repairs(g, reload, down)
  PROVE  a \in Steps /\ (a.do = "delete" => ~InPlace(a.key))
<1> USE KeysOf
<1>1. node[g] \in Node \cup {0} /\ g # 0
  BY GroupsAssumption DEF TypeOK
<1>2. \A k \in Keys : InPlace(k) /\ Of(k) = g => Placed(seen[k], node[g])
  BY DEF InPlace, Placed, Running, NoPod
<1>3. CASE a \in Replaced(Charon(g), g, seen[Charon(g)])
  <2>1. Of(Charon(g)) = g
    BY DEF Of, Charon
  <2> QED
    BY <1>2, <1>3, <2>1, ReplacedAreActions
<1>4. CASE a \in Replaced(Restctl(g), g, seen[Restctl(g)])
  <2>1. Of(Restctl(g)) = g
    BY DEF Of, Restctl
  <2> QED
    BY <1>2, <1>4, <2>1, ReplacedAreActions
<1>5. CASE a = Step("override", Restctl(g), g, node[g], 0, 2)
  BY <1>1, <1>5, StepIsAction DEF Dos
<1>8. CASE a = Step("connections", Restctl(g), g, node[g], 0, 5)
  BY <1>1, <1>8, StepIsAction DEF Dos
<1>6. ASSUME NEW c \in Conn, home[c] = g, a \in Replaced(Xfrm(c), g, Labelled(c, g))
      PROVE  a \in Steps /\ (a.do = "delete" => ~InPlace(a.key))
  <2>1. a \in Steps /\ a.key = Xfrm(c)
        /\ (a.do = "delete" => Labelled(c, g) # NoPod /\ ~Placed(Labelled(c, g), node[g]))
    BY <1>6, ReplacedAreActions
  <2>2. Labelled(c, g) # NoPod => Labelled(c, g) = seen[Xfrm(c)] /\ seen[Xfrm(c)].group = g
    BY DEF Labelled
  <2>3. seen[Xfrm(c)] = pods[Xfrm(c)] => Of(Xfrm(c)) = seen[Xfrm(c)].group
    BY DEF Of, Xfrm
  <2>4. InPlace(Xfrm(c)) => seen[Xfrm(c)] = pods[Xfrm(c)]
    BY DEF InPlace
  <2> QED
    BY <1>2, <2>1, <2>2, <2>3, <2>4
<1>7. ASSUME NEW c \in Conn, home[c] # g, Labelled(c, g) # NoPod,
             a = Step("delete", Xfrm(c), g, node[g], 0, 4)
      PROVE  a \in Steps /\ (a.do = "delete" => ~InPlace(a.key))
  <2>1. a \in Steps /\ a.key = Xfrm(c)
    <3>1. "delete" \in Dos /\ Xfrm(c) \in Keys /\ 0 \in Nat /\ 4 \in Nat
      BY DEF Dos
    <3>2. /\ Step("delete", Xfrm(c), g, node[g], 0, 4) \in Steps
          /\ Step("delete", Xfrm(c), g, node[g], 0, 4).key = Xfrm(c)
      BY <1>1, <3>1, StepIsAction
    <3> QED
      BY <1>7, <3>2
  <2>2. seen[Xfrm(c)].group = g
    BY <1>7 DEF Labelled
  <2>3. InPlace(Xfrm(c)) => home[c] = seen[Xfrm(c)].group
    BY DEF InPlace, Xfrm
  <2> QED
    BY <1>7, <2>1, <2>2, <2>3
<1> QED
  BY <1>3, <1>4, <1>5, <1>6, <1>7, <1>8 DEF Repairs

\* A group not in use: none of its pods is in its place.
LEMMA RemovalAreActions ==
  ASSUME TypeOK, NEW g \in Unused, NEW turn \in Nat, NEW a \in Removal(g, turn)
  PROVE  a \in Steps /\ (a.do = "delete" => ~InPlace(a.key))
<1>1. PICK k \in Keys :
        /\ a = Step("delete", k, g, 0, turn, Rank(k))
        /\ g = IF k[1] = "xfrm" THEN seen[k].group ELSE k[2]
  BY DEF Removal
<1>2. g \in Group /\ ~InUse(g)
  BY DEF Unused
<1>3. a \in Steps /\ a.key = k
  <2>1. "delete" \in Dos /\ Rank(k) \in Nat /\ 0 \in Node \cup {0}
    BY DEF Rank, Dos
  <2>2. /\ Step("delete", k, g, 0, turn, Rank(k)) \in Steps
        /\ Step("delete", k, g, 0, turn, Rank(k)).key = k
    BY <1>2, <2>1, StepIsAction
  <2> QED
    BY <1>1, <2>2
<1>4. InPlace(k) => InUse(Of(k)) /\ Of(k) = g
  BY <1>1 DEF InPlace, Of
<1> QED
  BY <1>2, <1>3, <1>4

\* So none of the actions deletes a pod that is in its place.
LEMMA DiffSpares ==
  ASSUME TypeOK, Diff
  PROVE  /\ todo' \in SUBSET Steps
         /\ \A a \in todo' : a.do = "delete" => a.key \notin steady'
<1>1. CASE Stop
  BY <1>1 DEF Stop
<1>2. CASE ~Stop
  <2>1. PICK late \in [Unused -> 1 .. Cardinality(Unused)],
                 reload \in SUBSET Asked, down \in SUBSET Used :
          /\ steady' = {k \in Keys : InPlace(k)}
          /\ todo' = AllRepairs(reload, down) \cup AllRemovals(late)
    BY <1>2 DEF Diff
  <2>2. ASSUME NEW a \in AllRepairs(reload, down)
        PROVE  a \in Steps /\ (a.do = "delete" => ~InPlace(a.key))
    <3>1. PICK g \in Used : a \in Repairs(g, reload, down)
      BY DEF AllRepairs
    <3> QED
      BY <3>1, RepairsAreActions DEF Used
  <2>3. ASSUME NEW a \in AllRemovals(late)
        PROVE  a \in Steps /\ (a.do = "delete" => ~InPlace(a.key))
    <3>1. PICK g \in Unused : a \in Removal(g, late[g])
      BY DEF AllRemovals
    <3> QED
      BY <3>1, TurnIsNat, RemovalAreActions
  <2> QED
    BY <2>1, <2>2, <2>3
<1> QED
  BY <1>1, <1>2

-----------------------------------------------------------------------------
(* Types.                                                                   *)

\* TypeOK in three parts.
SpecsOK == node \in [Group -> Node \cup {0}] /\ home \in [Conn -> Group \cup {0}]

HostOK ==
  /\ pods \in [Keys -> Pods]
  /\ vici \in SUBSET (Group \X (Node \cup {0})) /\ listening \in SUBSET Group
  /\ \A g \in listening : Running(Charon(g)) /\ <<g, pods[Charon(g)].node>> \in vici
  /\ restctl \in [Group -> {"boot", "checked", "watching", "serving"}]

PassOK ==
  /\ at \in {"idle", "doing", "wait"}
  /\ todo \in SUBSET Steps
  /\ failed \in Group \cup {0}
  /\ at = "idle" => todo = {}
  /\ at = "wait" => \E a \in todo : IsHead(a) /\ a.do = "create"
  /\ steady \in SUBSET Keys

LEMMA TypeParts ==
  TypeOK <=> SpecsOK /\ HostOK /\ seen \in [Keys -> Pods] /\ PassOK /\ faults \in 0 .. MaxFaults
BY DEF TypeOK, SpecsOK, HostOK, PassOK

\* ... of the next state, too.
LEMMA TypePartsNext ==
  ASSUME SpecsOK', HostOK', (seen \in [Keys -> Pods])', PassOK', (faults \in 0 .. MaxFaults)'
  PROVE  TypeOK'
BY DEF TypeOK, SpecsOK, HostOK, PassOK

\* A pod changes its phase, or goes.
LEMMA LiveOK ==
  ASSUME pods \in [Keys -> Pods], NEW k \in Keys, NEW life \in Lives, Live(k, life)
  PROVE  /\ pods' \in [Keys -> Pods]
         /\ pods'[k].life = life /\ pods'[k].node = pods[k].node
         /\ \A l \in Keys \ {k} : pods'[l] = pods[l]
BY DEF Live, Pods

LEMMA NoPodOK == NoPod \in Pods /\ NoPod.life = "none"
BY DEF NoPod, Pods, Lives

\* When a program quits, no group is left listening without its charon.
LEMMA QuitOK ==
  ASSUME HostOK, NEW k \in Keys, Quit(k), pods' \in [Keys -> Pods],
         \A l \in Keys \ {k} : pods'[l] = pods[l]
  PROVE  HostOK'
<1> USE KeysOf DEF HostOK
<1>1. CASE k[1] = "charon"
  <2>1. k[2] \in Group /\ k = Charon(k[2])
    BY <1>1, KeyParts DEF Charon
  <2>2. listening' = listening \ {k[2]} /\ UNCHANGED restctl
    BY <1>1 DEF Quit
  <2>3. vici' \subseteq vici /\ \A g, n : g # k[2] /\ <<g, n>> \in vici => <<g, n>> \in vici'
    BY <1>1 DEF Quit
  <2>4. \A g \in listening' : g \in listening /\ g \in Group /\ Charon(g) \in Keys \ {k}
    BY <2>1, <2>2
  <2>5. \A g \in listening' : Running(Charon(g))' /\ <<g, pods'[Charon(g)].node>> \in vici'
    BY <2>2, <2>3, <2>4 DEF Running
  <2> QED
    BY <2>2, <2>3, <2>5
<1>2. CASE k[1] # "charon"
  <2>1. \A g \in Group : Charon(g) \in Keys \ {k}
    BY <1>2
  <2>2. UNCHANGED <<vici, listening>>
    BY <1>2 DEF Quit, hostVars
  <2>3. restctl' \in [Group -> {"boot", "checked", "watching", "serving"}]
    BY <1>2 DEF Quit, hostVars
  <2>4. \A g \in listening' : Running(Charon(g))' /\ <<g, pods'[Charon(g)].node>> \in vici'
    BY <2>1, <2>2 DEF Running
  <2> QED
    BY <2>2, <2>3, <2>4
<1> QED
  BY <1>1, <1>2

\* A pod changes that is not a charon that runs, and no program does.
LEMMA OtherPodOK ==
  ASSUME HostOK, NEW k \in Keys, ~Running(k), UNCHANGED hostVars, pods' \in [Keys -> Pods],
         \A l \in Keys \ {k} : pods'[l] = pods[l]
  PROVE  HostOK'
<1>1. \A g \in listening : g \in Group /\ Charon(g) \in Keys \ {k}
  BY KeysOf DEF HostOK
<1>2. \A g \in listening' : Running(Charon(g))' /\ <<g, pods'[Charon(g)].node>> \in vici'
  BY <1>1 DEF HostOK, hostVars, Running
<1> QED
  BY <1>2 DEF HostOK, hostVars

LEMMA DepartOK ==
  ASSUME HostOK, NEW k \in Keys, Depart(k)
  PROVE  HostOK'
<1>1. CASE pods[k].life \in {"pending", "dead"}
  <2>1. UNCHANGED hostVars /\ pods' = [pods EXCEPT ![k] = NoPod] /\ ~Running(k)
    BY <1>1 DEF Depart, Running
  <2>2. pods' \in [Keys -> Pods] /\ \A l \in Keys \ {k} : pods'[l] = pods[l]
    BY <2>1, NoPodOK DEF HostOK
  <2> QED
    BY <2>1, <2>2, OtherPodOK
<1>2. CASE pods[k].life \notin {"pending", "dead"}
  <2>1. Live(k, "ending") /\ Quit(k)
    BY <1>2 DEF Depart
  <2>2. pods' \in [Keys -> Pods] /\ \A l \in Keys \ {k} : pods'[l] = pods[l]
    BY <2>1, LiveOK DEF HostOK, Lives
  <2> QED
    BY <2>1, <2>2, QuitOK
<1> QED
  BY <1>1, <1>2

-----------------------------------------------------------------------------
(* The invariant.                                                           *)

\* No deletion to come is of a pod that was in its place.
Spared == \A a \in todo : a.do = "delete" => a.key \notin steady

IInv == TypeOK /\ Spared

\* A pass ends at the connections of a group.
EndsAt(g) == at' = "idle" /\ todo' = {} /\ steady' = {} /\ failed' = g

\* How a pass ends, goes on, waits or is left alone.
LEMMA StopOK == ASSUME Stop PROVE PassOK' /\ Spared'
BY DEF Stop, PassOK, Spared

LEMMA DoneOK == ASSUME PassOK, Spared, NEW a, Done(a) PROVE PassOK' /\ Spared'
BY DEF Done, PassOK, Spared

LEMMA WaitOK ==
  ASSUME PassOK, Spared, NEW a, Doing(a, "create"), Goto("wait")
  PROVE  PassOK' /\ Spared'
<1>1. a \in todo' /\ IsHead(a)' /\ a.do = "create"
  BY DEF Doing, Goto, IsHead
<1> QED
  BY <1>1 DEF Goto, PassOK, Spared

LEMMA SamePassOK == ASSUME PassOK, Spared, UNCHANGED operatorVars PROVE PassOK' /\ Spared'
BY DEF operatorVars, PassOK, Spared, IsHead

LEMMA SameHostOK == ASSUME HostOK, UNCHANGED <<pods, hostVars>> PROVE HostOK'
BY DEF hostVars, HostOK, Running

LEMMA SameSpecsOK == ASSUME SpecsOK, UNCHANGED specVars PROVE SpecsOK'
BY DEF specVars, SpecsOK

LEMMA FaultOK ==
  ASSUME faults \in 0 .. MaxFaults, UNCHANGED faults \/ \E kind : Fault(kind)
  PROVE  faults' \in 0 .. MaxFaults
BY GroupsAssumption DEF Fault

-----------------------------------------------------------------------------
(* Kubernetes and the two programs.                                         *)

LEMMA KubernetesOK ==
  ASSUME IInv, Kubernetes
  PROVE  IInv'
<1>0. SpecsOK /\ HostOK /\ seen \in [Keys -> Pods] /\ PassOK /\ faults \in 0 .. MaxFaults /\ Spared
  BY TypeParts DEF IInv
<1>1. PICK k \in Keys : (Schedule(k) \/ Start(k) \/ Gone(k) \/ Disturb(k)) /\ Elsewhere
  BY DEF Kubernetes
<1>2. SpecsOK' /\ (seen \in [Keys -> Pods])' /\ PassOK' /\ Spared'
  BY <1>0, <1>1, SameSpecsOK, SamePassOK DEF Elsewhere
<1>3. pods \in [Keys -> Pods]
  BY <1>0 DEF HostOK
<1>4. HostOK' /\ (faults \in 0 .. MaxFaults)'
  <2>1. CASE Schedule(k) \/ Start(k)
    <3>1. PICK life \in {"starting", "running"} : Live(k, life)
      BY <2>1 DEF Schedule, Start
    <3>2. ~Running(k) /\ UNCHANGED hostVars /\ UNCHANGED faults
      BY <2>1 DEF Schedule, Start, Running
    <3>3. life \in Lives
      BY DEF Lives
    <3> QED
      BY <1>0, <1>3, <3>1, <3>2, <3>3, LiveOK, OtherPodOK
  <2>2. CASE Gone(k)
    <3>1. ~Running(k) /\ UNCHANGED hostVars /\ UNCHANGED faults /\ pods' = [pods EXCEPT ![k] = NoPod]
      BY <2>2 DEF Gone, Running
    <3>2. pods' \in [Keys -> Pods] /\ \A l \in Keys \ {k} : pods'[l] = pods[l]
      BY <1>3, <3>1, NoPodOK
    <3> QED
      BY <1>0, <3>1, <3>2, OtherPodOK
  <2>3. CASE Disturb(k)
    <3>1. \E kind : Fault(kind)
      BY <2>3 DEF Disturb
    <3>2. CASE Depart(k)
      BY <1>0, <3>1, <3>2, DepartOK, FaultOK
    <3>3. CASE Live(k, "dead") /\ Quit(k)
      <4>1. pods' \in [Keys -> Pods] /\ \A l \in Keys \ {k} : pods'[l] = pods[l]
        BY <1>3, <3>3, LiveOK DEF Lives
      <4> QED
        BY <1>0, <3>1, <3>3, <4>1, QuitOK, FaultOK
    <3>4. CASE Quit(k) /\ UNCHANGED pods
      BY <1>0, <1>3, <3>1, <3>4, QuitOK, FaultOK
    <3> QED
      BY <2>3, <3>2, <3>3, <3>4 DEF Disturb
  <2> QED
    BY <1>1, <2>1, <2>2, <2>3
<1> QED
  BY <1>2, <1>4, TypePartsNext DEF IInv

LEMMA ProgramsOK ==
  ASSUME IInv, Programs
  PROVE  IInv'
<1>0. SpecsOK /\ HostOK /\ seen \in [Keys -> Pods] /\ PassOK /\ faults \in 0 .. MaxFaults /\ Spared
  BY TypeParts DEF IInv
<1>1. PICK g \in Group : Listen(g) \/ CheckSocket(g) \/ WatchSocket(g)
  BY DEF Programs
<1>2. UNCHANGED <<specVars, pods, seen, operatorVars, faults>>
  BY <1>1 DEF Listen, CheckSocket, WatchSocket
<1>3. HostOK'
  <2>1. CASE Listen(g)
    <3>1. pods[Charon(g)].node \in Node \cup {0}
      BY <1>0, KeysOf DEF HostOK, Pods
    <3>2. Running(Charon(g)) /\ listening' = listening \cup {g} /\ vici' = vici \cup {<<g, pods[Charon(g)].node>>}
      BY <2>1 DEF Listen
    <3>3. restctl' \in [Group -> {"boot", "checked", "watching", "serving"}]
      BY <1>0, <2>1 DEF Listen, HostOK
    <3>4. vici' \in SUBSET (Group \X (Node \cup {0})) /\ listening' \in SUBSET Group
      BY <1>0, <3>1, <3>2 DEF HostOK
    <3>5. \A h \in listening' : Running(Charon(h)) /\ <<h, pods[Charon(h)].node>> \in vici'
      BY <1>0, <3>2 DEF HostOK
    <3> QED
      BY <1>0, <1>2, <3>3, <3>4, <3>5 DEF HostOK, Running
  <2>2. CASE CheckSocket(g) \/ WatchSocket(g)
    <3>1. UNCHANGED <<pods, vici, listening>> /\ restctl' \in [Group -> {"boot", "checked", "watching", "serving"}]
      BY <1>0, <2>2 DEF CheckSocket, WatchSocket, HostOK
    <3> QED
      BY <1>0, <3>1 DEF HostOK, Running
  <2> QED
    BY <1>1, <2>1, <2>2
<1> QED
  BY <1>0, <1>2, <1>3, SameSpecsOK, SamePassOK, TypePartsNext DEF IInv

-----------------------------------------------------------------------------
(* The pass.                                                                *)

LEMMA DiffOK ==
  ASSUME IInv, Diff
  PROVE  IInv'
<1>0. SpecsOK /\ HostOK /\ seen \in [Keys -> Pods] /\ PassOK /\ faults \in 0 .. MaxFaults /\ Spared
  BY TypeParts DEF IInv
<1>1. UNCHANGED <<specVars, pods, seen, hostVars>> /\ (faults \in 0 .. MaxFaults)'
  BY <1>0, FaultOK DEF Diff
<1>2. PassOK' /\ Spared'
  <2>1. CASE Stop
    BY <2>1, StopOK
  <2>2. CASE ~Stop
    <3>1. at' = "doing" /\ failed' = 0 /\ steady' \in SUBSET Keys
      BY <2>2 DEF Diff
    <3>2. todo' \in SUBSET Steps /\ \A a \in todo' : a.do = "delete" => a.key \notin steady'
      BY DiffSpares DEF IInv
    <3> QED
      BY <3>1, <3>2 DEF PassOK, Spared
  <2> QED
    BY <2>1, <2>2
<1> QED
  BY <1>0, <1>1, <1>2, SameSpecsOK, SameHostOK, TypePartsNext DEF IInv

\* The actions that leave the pods alone.
LEMMA WaitingOK ==
  ASSUME IInv,
         Finish \/ \E a \in todo : Timeout(a) \/ SetUp(a) \/ DoOverride(a) \/ DoConnections(a)
  PROVE  IInv' /\ UNCHANGED pods
<1>0. SpecsOK /\ HostOK /\ seen \in [Keys -> Pods] /\ PassOK /\ faults \in 0 .. MaxFaults /\ Spared
  BY TypeParts DEF IInv
<1>1. UNCHANGED <<specVars, pods, seen, hostVars>> /\ (UNCHANGED faults \/ \E kind : Fault(kind))
  BY DEF Finish, Timeout, SetUp, DoOverride, DoConnections
<1>2. Stop \/ (\E a : Done(a)) \/ \E a \in todo : EndsAt(a.group)
  BY DEF Finish, Timeout, SetUp, DoOverride, DoConnections, EndsAt
<1>3. ASSUME NEW a \in todo, EndsAt(a.group)
      PROVE  PassOK' /\ Spared'
  BY <1>0, <1>3 DEF EndsAt, PassOK, Spared, Steps
<1>4. PassOK' /\ Spared'
  BY <1>0, <1>2, <1>3, StopOK, DoneOK
<1> QED
  BY <1>0, <1>1, <1>4, FaultOK, SameSpecsOK, SameHostOK, TypePartsNext DEF IInv

LEMMA DoDeleteOK ==
  ASSUME IInv, NEW a \in todo, DoDelete(a)
  PROVE  IInv'
<1>0. SpecsOK /\ HostOK /\ seen \in [Keys -> Pods] /\ PassOK /\ faults \in 0 .. MaxFaults /\ Spared
  BY TypeParts DEF IInv
<1>1. a.key \in Keys
  BY <1>0 DEF PassOK, Steps
<1>2. HostOK'
  BY <1>0, <1>1, DepartOK, SameHostOK DEF DoDelete
<1>3. PassOK' /\ Spared'
  BY <1>0, StopOK, DoneOK DEF DoDelete
<1> QED
  BY <1>0, <1>2, <1>3, SameSpecsOK, TypePartsNext DEF IInv, DoDelete

LEMMA DoCreateOK ==
  ASSUME IInv, NEW a \in todo, DoCreate(a)
  PROVE  IInv'
<1>0. SpecsOK /\ HostOK /\ seen \in [Keys -> Pods] /\ PassOK /\ faults \in 0 .. MaxFaults /\ Spared
  BY TypeParts DEF IInv
<1>1. a.key \in Keys /\ Fresh(a) \in Pods
  BY <1>0 DEF PassOK, Steps, Fresh, Pods, Lives
<1>2. HostOK'
  <2>1. CASE pods[a.key] = NoPod
    <3>1. pods' = [pods EXCEPT ![a.key] = Fresh(a)] /\ UNCHANGED hostVars /\ ~Running(a.key)
      BY <2>1, NoPodOK DEF DoCreate, Running
    <3>2. pods' \in [Keys -> Pods] /\ \A l \in Keys \ {a.key} : pods'[l] = pods[l]
      BY <1>0, <1>1, <3>1 DEF HostOK
    <3> QED
      BY <1>0, <1>1, <3>1, <3>2, OtherPodOK
  <2>2. CASE pods[a.key] # NoPod
    BY <1>0, <2>2, SameHostOK DEF DoCreate
  <2> QED
    BY <2>1, <2>2
<1>3. PassOK' /\ Spared'
  BY <1>0, StopOK, WaitOK DEF DoCreate
<1> QED
  BY <1>0, <1>2, <1>3, SameSpecsOK, TypePartsNext DEF IInv, DoCreate

-----------------------------------------------------------------------------
(* Everyone else, and the theorems.                                         *)

LEMMA OthersOK ==
  ASSUME IInv, OperatorRestart \/ Edit \/ Deliver
  PROVE  IInv' /\ UNCHANGED pods
<1>0. SpecsOK /\ HostOK /\ seen \in [Keys -> Pods] /\ PassOK /\ faults \in 0 .. MaxFaults /\ Spared
  BY TypeParts DEF IInv
<1>1. UNCHANGED <<pods, hostVars>> /\ (UNCHANGED faults \/ \E kind : Fault(kind))
  BY DEF OperatorRestart, Edit, Deliver
<1>2. (seen \in [Keys -> Pods])'
  BY <1>0 DEF OperatorRestart, Edit, Deliver, HostOK
<1>3. PassOK' /\ Spared'
  BY <1>0, StopOK, SamePassOK DEF OperatorRestart, Edit, Deliver
<1>4. SpecsOK'
  <2>1. CASE OperatorRestart \/ Deliver
    BY <1>0, <2>1, SameSpecsOK DEF OperatorRestart, Deliver
  <2>2. CASE Edit
    BY <1>0, <2>2 DEF Edit, SpecsOK
  <2> QED
    BY <2>1, <2>2
<1> QED
  BY <1>0, <1>1, <1>2, <1>3, <1>4, FaultOK, SameHostOK, TypePartsNext DEF IInv

LEMMA InitOK == Init => IInv
<1> SUFFICES ASSUME Init PROVE IInv
  OBVIOUS
<1>1. SpecsOK /\ PassOK /\ Spared /\ faults \in 0 .. MaxFaults
  BY GroupsAssumption DEF Init, SpecsOK, PassOK, Spared
<1>2. HostOK /\ seen \in [Keys -> Pods]
  BY NoPodOK DEF Init, HostOK
<1> QED
  BY <1>1, <1>2, TypeParts DEF IInv

LEMMA NextOK == IInv /\ [Next]_vars => IInv'
<1> SUFFICES ASSUME IInv, [Next]_vars PROVE IInv'
  OBVIOUS
<1>1. CASE Pass
  BY <1>1, DiffOK, WaitingOK, DoDeleteOK, DoCreateOK DEF Pass
<1>2. CASE Kubernetes \/ Programs
  BY <1>2, KubernetesOK, ProgramsOK
<1>3. CASE OperatorRestart \/ Edit \/ Deliver
  BY <1>3, OthersOK
<1>4. CASE UNCHANGED vars
  <2>1. SpecsOK /\ HostOK /\ seen \in [Keys -> Pods] /\ PassOK /\ faults \in 0 .. MaxFaults /\ Spared
    BY TypeParts DEF IInv
  <2> QED
    BY <1>4, <2>1, SameSpecsOK, SameHostOK, SamePassOK, TypePartsNext DEF IInv, vars
<1> QED
  BY <1>1, <1>2, <1>3, <1>4 DEF Next

\* The variables of the pods, the programs and the pass have their types, a
\* daemon that answers runs and has its socket, and a pass that waits, waits for
\* a pod of the first action left.
THEOREM TypeCorrect == Spec => []TypeOK
<1>1. IInv => TypeOK
  BY DEF IInv
<1> QED
  BY <1>1, InitOK, NextOK, PTL DEF Spec

\* No pass, whatever else happens meanwhile, deletes a pod that ran where it was
\* wanted when the pass decided what to do.
THEOREM SteadyPods == Spec => SteadyPodsStay
<1>1. ASSUME IInv, [Next]_vars
      PROVE  [\A k \in steady : Running(k) => Running(k)' \/ faults' # faults]_vars
  <2> SUFFICES ASSUME NEW k \in steady, Running(k), faults' = faults, Next
               PROVE  Running(k)'
    BY <1>1
  <2>1. k \in Keys /\ pods \in [Keys -> Pods] /\ pods[k].life = "running" /\ k[1] \in {"charon", "restctl", "xfrm"}
    BY <1>1, KeyParts DEF IInv, TypeOK, Running
  <2>2. ASSUME NEW l \in Keys, \A m \in Keys \ {l} : pods'[m] = pods[m], l # k
        PROVE  Running(k)'
    BY <2>1, <2>2 DEF Running
  <2>3. CASE UNCHANGED pods
    BY <2>1, <2>3 DEF Running
  <2>4. CASE Diff \/ Finish \/ Programs \/ OperatorRestart \/ Edit \/ Deliver
    BY <2>3, <2>4 DEF Diff, Finish, Programs, Listen, CheckSocket, WatchSocket,
                      OperatorRestart, Edit, Deliver
  <2>5. CASE Kubernetes
    <3>1. PICK l \in Keys : Schedule(l) \/ Start(l) \/ Gone(l) \/ Disturb(l)
      BY <2>5 DEF Kubernetes
    <3>2. ~Disturb(l)
      BY <2>1, GroupsAssumption, <1>1 DEF Disturb, Fault, IInv, TypeOK
    <3>3. l # k /\ \A m \in Keys \ {l} : pods'[m] = pods[m]
      BY <2>1, <3>1, <3>2 DEF Schedule, Start, Gone, Live
    <3> QED
      BY <2>2, <3>3
  <2>6. ASSUME NEW a \in todo, DoDelete(a)
        PROVE  Running(k)'
    <3>1. a.key \in Keys /\ a.key # k
      BY <1>1, <2>6 DEF IInv, Spared, TypeOK, Steps, DoDelete, Doing
    <3>2. \A m \in Keys \ {a.key} : pods'[m] = pods[m]
      BY <2>1, <2>6 DEF DoDelete, Depart, Live
    <3> QED
      BY <2>2, <3>1, <3>2
  <2>7. ASSUME NEW a \in todo, DoCreate(a)
        PROVE  Running(k)'
    <3>1. a.key \in Keys
      BY <1>1 DEF IInv, TypeOK, Steps
    <3>2. UNCHANGED pods \/ (a.key # k /\ \A m \in Keys \ {a.key} : pods'[m] = pods[m])
      BY <2>1, <2>7, NoPodOK DEF DoCreate
    <3> QED
      BY <2>2, <2>3, <3>1, <3>2
  <2>8. ASSUME NEW a \in todo, Timeout(a) \/ SetUp(a) \/ DoOverride(a) \/ DoConnections(a)
        PROVE  Running(k)'
    BY <2>3, <2>8 DEF Timeout, SetUp, DoOverride, DoConnections
  <2> QED
    BY <2>4, <2>5, <2>6, <2>7, <2>8 DEF Next, Pass
<1> QED
  BY <1>1, InitOK, NextOK, PTL DEF Spec, SteadyPodsStay
=============================================================================
