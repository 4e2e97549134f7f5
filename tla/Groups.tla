------------------------------- MODULE Groups -------------------------------
(***************************************************************************)
(* The pods of the charon groups.  A group in use has a charon and a       *)
(* restctl pod on the group's node, and an xfrm pod for each child of its  *)
(* connections (here one per connection); nobody else keeps them.          *)
(*   - the reconciler (internal/controller) computes the difference of the *)
(*     pods in its cache and those desired, and performs it, action by     *)
(*     action;                                                             *)
(*   - restctl (cmd/restctl/main.go) serves once it has seen the socket of *)
(*     charon, in a directory of the host that both mount.                 *)
(* Groups, connections and nodes are numbers from 1, groups and            *)
(* connections in the order of their names; 0 is none.  Two groups have    *)
(* different names.                                                        *)
(***************************************************************************)
EXTENDS Integers, FiniteSets

CONSTANTS
  Group, Conn, Node,
  Node0,       \* group -> its node at the start, 0: no such resource
  Home0,       \* connection -> its group at the start, 0: no such resource
  FaultKinds,  \* which of the faults and edits below may happen
  MaxFaults    \* bound on their number

ASSUME GroupsAssumption ==
  /\ Group \subseteq Nat \ {0} /\ Conn \subseteq Nat \ {0} /\ Node \subseteq Nat \ {0}
  /\ IsFiniteSet(Group)
  /\ Node0 \in [Group -> Node \cup {0}] /\ Home0 \in [Conn -> Group \cup {0}]
  /\ MaxFaults \in Nat
  /\ FaultKinds \subseteq {"evict", "die", "crash", "setup", "secret", "http", "restart",
                           "slow", "relocate", "ungroup", "connect", "disconnect", "rehome"}

\* A pod is known by its type and what it serves, of which its name consists;
\* the label of an xfrm pod has its group, `node' is its node selector.
Keys  == ({"charon", "restctl"} \X Group) \cup ({"xfrm"} \X Conn)
Lives == {"none", "pending", "starting", "running", "ending", "dead"}
Pods  == [life : Lives, node : Node \cup {0}, group : Group \cup {0}]
NoPod == [life |-> "none", node |-> 0, group |-> 0]

Charon(g)  == <<"charon", g>>
Restctl(g) == <<"restctl", g>>
Xfrm(c)    == <<"xfrm", c>>

\* An action, and its position in the list (see Step below).
Steps == [do : {"delete", "create", "override", "connections"}, key : Keys, group : Group,
          node : Node \cup {0}, pos : Nat \X Nat \X Nat \X Nat \X Nat]

VARIABLES
  node,        \* the groups: their nodes
  home,        \* the connections: their groups
  pods,        \* the pods in the API server
  seen,        \* the pods in the operator's informer cache
  vici,        \* <<group, node>>: the host has a socket charon.vici
  listening,   \* groups with a daemon that answers on its socket
  restctl,     \* group -> where the process of restctl is
  at, todo,    \* the reconciler's pass: where it is, and the actions left
  failed,      \* the group whose connections ended the last pass, 0: none
  steady,      \* ghost: the pods that were in place when the actions were computed
  faults       \* number of faults and edits so far

specVars     == <<node, home>>
hostVars     == <<vici, listening, restctl>>
operatorVars == <<at, todo, failed, steady>>
vars == <<specVars, pods, seen, hostVars, operatorVars, faults>>

Init ==
  /\ node = Node0 /\ home = Home0
  /\ pods = [k \in Keys |-> NoPod] /\ seen = pods
  /\ vici = {} /\ listening = {} /\ restctl = [g \in Group |-> "boot"]
  /\ at = "idle" /\ todo = {} /\ failed = 0
  /\ steady = {}
  /\ faults = 0

-----------------------------------------------------------------------------
(* Pods (external: Kubernetes), and the two programs in them.               *)

Fault(kind) ==
  /\ kind \in FaultKinds /\ faults < MaxFaults
  /\ faults' = faults + 1

\* The group of a charon or restctl pod.
Of(k) == IF k[1] = "xfrm" THEN pods[k].group ELSE k[2]

Live(k, life) == pods' = [pods EXCEPT ![k].life = life]

\* charon goes, and may leave its socket file behind; restctl goes.
Quit(k) ==
  LET g == k[2] IN
  \/ /\ k[1] = "charon"
     /\ listening' = listening \ {g}
     /\ \/ UNCHANGED vici
        \/ g \in listening /\ vici' = vici \ {<<g, pods[k].node>>}
     /\ UNCHANGED restctl
  \/ /\ k[1] = "restctl"
     /\ restctl' = [restctl EXCEPT ![g] = "boot"] /\ UNCHANGED <<vici, listening>>
  \/ k[1] = "xfrm" /\ UNCHANGED hostVars

\* A pod no process of which is left goes at once.
Depart(k) ==
  \/ pods[k].life \in {"pending", "dead"} /\ pods' = [pods EXCEPT ![k] = NoPod] /\ UNCHANGED hostVars
  \/ pods[k].life \notin {"pending", "dead"} /\ Live(k, "ending") /\ Quit(k)

Schedule(k) == pods[k].life = "pending" /\ Live(k, "starting") /\ UNCHANGED <<hostVars, faults>>
Start(k)    == pods[k].life = "starting" /\ Live(k, "running") /\ UNCHANGED <<hostVars, faults>>
Gone(k)     == /\ pods[k].life = "ending" /\ pods' = [pods EXCEPT ![k] = NoPod]
               /\ UNCHANGED <<hostVars, faults>>

\* A charon or xfrm pod that exits stays dead, the container of restctl is
\* started again.
Disturb(k) ==
  \/ Fault("evict") /\ pods[k].life \notin {"none", "ending"} /\ Depart(k)
  \/ Fault("die") /\ k[1] # "restctl" /\ pods[k].life = "running" /\ Live(k, "dead") /\ Quit(k)
  \/ Fault("crash") /\ k[1] = "restctl" /\ pods[k].life = "running" /\ Quit(k) /\ UNCHANGED pods

Elsewhere == UNCHANGED <<specVars, seen, operatorVars>>

Kubernetes ==
  \E k \in Keys : (Schedule(k) \/ Start(k) \/ Gone(k) \/ Disturb(k)) /\ Elsewhere

Running(k) == pods[k].life = "running"

\* charon binds its socket, which restctl may be watching for.
Listen(g) ==
  LET n == pods[Charon(g)].node
      woken == restctl[g] = "watching" /\ Running(Restctl(g)) /\ pods[Restctl(g)].node = n
  IN
  /\ Running(Charon(g)) /\ g \notin listening
  /\ listening' = listening \cup {g}
  /\ vici' = vici \cup {<<g, n>>}
  /\ restctl' = IF woken THEN [restctl EXCEPT ![g] = "serving"] ELSE restctl
  /\ UNCHANGED <<specVars, pods, seen, operatorVars, faults>>

\* waitForViciSock: is the file there ...
CheckSocket(g) ==
  /\ Running(Restctl(g)) /\ restctl[g] = "boot"
  /\ restctl' = [restctl EXCEPT ![g] =
       IF <<g, pods[Restctl(g)].node>> \in vici THEN "serving" ELSE "checked"]
  /\ UNCHANGED <<specVars, pods, seen, vici, listening, operatorVars, faults>>

\* ... and if not, watch the directory for it from now on.
WatchSocket(g) ==
  /\ Running(Restctl(g)) /\ restctl[g] = "checked"
  /\ restctl' = [restctl EXCEPT ![g] = "watching"]
  /\ UNCHANGED <<specVars, pods, seen, vici, listening, operatorVars, faults>>

Serves(g)     == Running(Restctl(g)) /\ restctl[g] = "serving"
HasCharon(g)  == g \in listening /\ pods[Charon(g)].node = pods[Restctl(g)].node

-----------------------------------------------------------------------------
(* The reconciler: diffing.                                                 *)

\* Mutant: an error does not discard the actions left.
StopKeepingTodo == at' = "idle" /\ steady' = {} /\ failed' = 0 /\ UNCHANGED todo

Goto(where) == at' = where /\ UNCHANGED <<todo, failed, steady>>
Stop        == at' = "idle" /\ todo' = {} /\ steady' = {} /\ failed' = 0

Exists(g) == node[g] # 0
InUse(g)  == \E c \in Conn : home[c] = g

\* waitForPodReady: the phase of a pod being deleted is still Running.
Ready(p) == p.life \in {"running", "ending"}

\* comparePods: a pod that is not scheduled yet has no node.
Placed(p, n) == p # NoPod /\ p.life # "pending" /\ p.node = n

\* Its place in the list: groups in use (turn 0) before the others, by name; in
\* a group charon, restctl, the xfrm pods wanted, those not wanted, and then its
\* connections; for one pod delete, create, override.
Rank(k) == IF k[1] = "charon" THEN 1 ELSE IF k[1] = "restctl" THEN 2 ELSE 3

Step(do, k, g, n, turn, rank) ==
  [do |-> do, key |-> k, group |-> g, node |-> n,
   pos |-> <<turn, g, rank, k[2],
             IF do = "delete" THEN 1 ELSE IF do = "create" THEN 2 ELSE 3>>]

\* What is to be done about the pod k of group g, found as cur.
Replaced(k, g, cur) ==
  {Step(do, k, g, node[g], 0, Rank(k)) :
     do \in IF Placed(cur, node[g]) THEN {}
           ELSE {"create"} \cup (IF cur = NoPod THEN {} ELSE {"delete"})}

\* Mutant: the xfrm pods are listed without the label of the group.
LabelledAny(c, g) == seen[Xfrm(c)]

Labelled(c, g) == IF seen[Xfrm(c)].group = g THEN seen[Xfrm(c)] ELSE NoPod

\* diffCharon, diffProxy and diffXfrms for a group in use.  `reload': the groups
\* whose charon has other configs than those wanted; `down': those with work to be
\* done on connections (diffIPSecs), once there is a restctl pod to do it.
Repairs(g, reload, down) ==
  Replaced(Charon(g), g, seen[Charon(g)])
    \cup Replaced(Restctl(g), g, seen[Restctl(g)])
    \cup (IF g \in reload \/ ~Placed(seen[Restctl(g)], node[g])
          THEN {Step("override", Restctl(g), g, node[g], 0, 2)} ELSE {})
    \cup (IF g \in down /\ seen[Restctl(g)] # NoPod
          THEN {Step("connections", Restctl(g), g, node[g], 0, 5)} ELSE {})
    \cup UNION {IF home[c] = g THEN Replaced(Xfrm(c), g, Labelled(c, g))
                ELSE IF Labelled(c, g) # NoPod THEN {Step("delete", Xfrm(c), g, node[g], 0, 4)}
                ELSE {} : c \in Conn}

\* Mutant: deleteNode forgets the xfrm pods.
RemovalOfTwo(g, turn) ==
  {Step("delete", k, g, 0, turn, Rank(k)) : k \in {k \in Keys : seen[k] # NoPod /\ k[1] # "xfrm" /\ g = k[2]}}

\* deleteNode, for a group that is not in use.
Removal(g, turn) ==
  {Step("delete", k, g, 0, turn, Rank(k)) :
     k \in {k \in Keys : /\ seen[k] # NoPod
                         /\ g = IF k[1] = "xfrm" THEN seen[k].group ELSE k[2]}}

Used   == {g \in Group : Exists(g) /\ InUse(g)}
Unused == {g \in Group : Exists(g) /\ ~InUse(g)}

AllRepairs(reload, down) == UNION {Repairs(g, reload, down) : g \in Used}
AllRemovals(late)        == UNION {Removal(g, late[g]) : g \in Unused}

\* diffProxy asks every restctl pod that is where it should be for its configs;
\* one that does not answer, or whose charon does not, is an error.
Answers(g) == Serves(g) /\ HasCharon(g)
Asked      == {g \in Used : Placed(seen[Restctl(g)], node[g])}
Reached    == \A g \in Asked : Ready(seen[Restctl(g)]) /\ Answers(g)

\* A pod that runs where it is wanted, and is seen to.
InPlace(k) ==
  /\ Running(k) /\ seen[k] = pods[k]
  /\ Of(k) # 0 /\ InUse(Of(k)) /\ pods[k].node = node[Of(k)]
  /\ k[1] = "xfrm" => home[k[2]] = pods[k].group

\* A pass begins a minute after one without an error, and after an error with a
\* delay that grows: in the end Kubernetes has done what the last one asked for,
\* and the watch knows.  A pass that begins before that counts as a fault, slow.
Settled == seen = pods /\ \A k \in Keys : pods[k].life \notin {"pending", "starting", "ending"}

\* GetClusterState, CreateDesiredState and DiffStates: the groups in use in
\* their order, then the others in any.  A connection whose group does not exist
\* is an error; the pods of such a group are not looked at.  One step, for what
\* the cache misses stands for what changes while the pass looks, too.
Diff ==
  /\ at = "idle"
  /\ \/ /\ (Settled /\ UNCHANGED faults) \/ Fault("slow")
        /\ IF Reached /\ \A c \in Conn : home[c] # 0 => Exists(home[c])
           THEN /\ at' = "doing" /\ failed' = 0 /\ steady' = {k \in Keys : InPlace(k)}
                /\ \E late \in [Unused -> 1 .. Cardinality(Unused)],
                       reload \in SUBSET Asked, down \in SUBSET Used :
                     /\ \A g, h \in Unused : late[g] = late[h] => g = h
                     /\ todo' = AllRepairs(reload, down) \cup AllRemovals(late)
           ELSE Stop
     \/ Fault("http") /\ Stop
  /\ UNCHANGED <<specVars, pods, seen, hostVars>>

-----------------------------------------------------------------------------
(* The reconciler: actions, in order.                                       *)

Before(a, b) ==
  \E i \in 1 .. 5 : a.pos[i] < b.pos[i] /\ \A j \in 1 .. i - 1 : a.pos[j] = b.pos[j]

IsHead(a) == a \in todo /\ \A b \in todo : ~Before(b, a)

Done(a) == todo' = todo \ {a} /\ at' = "doing" /\ UNCHANGED <<failed, steady>>

Doing(a, do) == at = "doing" /\ IsHead(a) /\ a.do = do

\* DeletePodAction, by name.
DoDelete(a) ==
  /\ Doing(a, "delete")
  /\ \/ pods[a.key] # NoPod /\ Depart(a.key) /\ Done(a)
     \/ pods[a.key] = NoPod /\ Stop /\ UNCHANGED <<pods, hostVars>>
  /\ UNCHANGED <<specVars, seen, faults>>

\* CreateK8sPodMeta.
Fresh(a) == [life |-> "pending", node |-> a.node, group |-> a.group]

\* CreatePodAction: a pod of that name must be gone.
DoCreate(a) ==
  /\ Doing(a, "create")
  /\ \/ /\ pods[a.key] = NoPod /\ Goto("wait")
        /\ pods' = [pods EXCEPT ![a.key] = Fresh(a)]
     \/ pods[a.key] # NoPod /\ Stop /\ UNCHANGED pods
  /\ UNCHANGED <<specVars, seen, hostVars, faults>>

\* Mutant: there is no time limit.
TimeoutNever(a) == FALSE /\ UNCHANGED vars

\* waitForPodReady gives up, on a pod that has exited or when Kubernetes is slow.
Timeout(a) ==
  /\ at = "wait" /\ IsHead(a) /\ ~Ready(seen[a.key])
  /\ Stop
  /\ \/ pods[a.key].life \in {"none", "dead"} /\ UNCHANGED faults
     \/ Fault("slow")
  /\ UNCHANGED <<specVars, pods, seen, hostVars>>

\* CompleteSetup: restctl needs the secrets of all connections, an xfrm pod the
\* group and its daemon (the rest of it is in module XfrmPod).
SetUp(a) ==
  /\ at = "wait" /\ IsHead(a) /\ Ready(seen[a.key])
  /\ \/ /\ a.key[1] = "xfrm" => Exists(a.group) /\ a.group \in listening
        /\ Done(a) /\ UNCHANGED faults
     \/ a.key[1] = "xfrm" /\ ~(Exists(a.group) /\ a.group \in listening) /\ Stop /\ UNCHANGED faults
     \/ a.key[1] = "xfrm" /\ Fault("setup") /\ Stop
     \/ a.key[1] = "restctl" /\ Fault("secret") /\ Stop
  /\ UNCHANGED <<specVars, pods, seen, hostVars>>

\* OverrideConfigAction.  A restctl whose charon does not answer does not either:
\* reloadConfig tries for ever, and so the action takes no step.
DoOverride(a) ==
  /\ Doing(a, "override")
  /\ LET sent == Ready(seen[a.key]) /\ Exists(a.group) /\ Serves(a.group)
     IN  \/ sent /\ HasCharon(a.group) /\ Done(a) /\ UNCHANGED faults
         \/ ~sent /\ Stop /\ UNCHANGED faults
         \/ Fault("secret") /\ Stop
  /\ UNCHANGED <<specVars, pods, seen, hostVars>>

\* The actions on the connections of a group (module Gateway).  One that fails ends
\* the pass, in every pass if a peer stays away (actions.go:578-585).
DoConnections(a) ==
  /\ Doing(a, "connections")
  /\ Done(a) \/ (at' = "idle" /\ todo' = {} /\ steady' = {} /\ failed' = a.group)
  /\ UNCHANGED <<specVars, pods, seen, hostVars, faults>>

Finish ==
  /\ at = "doing" /\ todo = {}
  /\ Stop
  /\ UNCHANGED <<specVars, pods, seen, hostVars, faults>>

Pass ==
  \/ Diff \/ Finish
  \/ \E a \in todo :
       DoDelete(a) \/ DoCreate(a) \/ Timeout(a) \/ SetUp(a) \/ DoOverride(a) \/ DoConnections(a)

-----------------------------------------------------------------------------
(* Everyone else.                                                           *)

\* The watch of the pods catches up.
Deliver ==
  /\ seen # pods
  /\ seen' = pods
  /\ UNCHANGED <<specVars, pods, hostVars, operatorVars, faults>>

OperatorRestart ==
  /\ Fault("restart")
  /\ seen' = pods /\ Stop
  /\ UNCHANGED <<specVars, pods, hostVars>>

\* Groups and connections are edited.  The webhook wants the group of a new
\* connection to exist; it lets the group of an old one be changed.
Edit ==
  /\ \/ /\ UNCHANGED home
        /\ \E g \in Group :
             \/ Fault("relocate") /\ \E n \in Node \ {node[g]} : node' = [node EXCEPT ![g] = n]
             \/ Fault("ungroup") /\ Exists(g) /\ node' = [node EXCEPT ![g] = 0]
     \/ /\ UNCHANGED node
        /\ \E c \in Conn, g \in Group :
             \/ Fault("connect") /\ home[c] = 0 /\ Exists(g) /\ home' = [home EXCEPT ![c] = g]
             \/ Fault("disconnect") /\ home[c] = g /\ home' = [home EXCEPT ![c] = 0]
             \/ Fault("rehome") /\ home[c] \notin {0, g} /\ home' = [home EXCEPT ![c] = g]
  /\ UNCHANGED <<pods, seen, hostVars, operatorVars>>

Programs == \E g \in Group : Listen(g) \/ CheckSocket(g) \/ WatchSocket(g)

Next ==
  \/ Pass \/ Kubernetes \/ Programs \/ OperatorRestart \/ Edit \/ Deliver

Spec == Init /\ [][Next]_vars

\* Every pass is followed by another, the watch delivers, pods are placed,
\* started and taken away, and both programs go on.
FairSpec ==
  /\ Spec
  /\ WF_vars(Pass) /\ WF_vars(Deliver)
  /\ \A g \in Group :
       WF_vars(Listen(g)) /\ WF_vars((CheckSocket(g) \/ WatchSocket(g)))
  /\ \A k \in Keys :
       WF_vars((Schedule(k) \/ Start(k) \/ Gone(k)) /\ Elsewhere)

-----------------------------------------------------------------------------
(* Properties.                                                              *)

TypeOK ==
  /\ node \in [Group -> Node \cup {0}] /\ home \in [Conn -> Group \cup {0}]
  /\ pods \in [Keys -> Pods] /\ seen \in [Keys -> Pods]
  /\ vici \in SUBSET (Group \X (Node \cup {0})) /\ listening \in SUBSET Group
  /\ \A g \in listening : Running(Charon(g)) /\ <<g, pods[Charon(g)].node>> \in vici
  /\ restctl \in [Group -> {"boot", "checked", "watching", "serving"}]
  /\ at \in {"idle", "doing", "wait"}
  /\ todo \in SUBSET Steps
  /\ failed \in Group \cup {0}
  /\ at = "idle" => todo = {}
  /\ at = "wait" => \E a \in todo : IsHead(a) /\ a.do = "create"
  /\ steady \in SUBSET Keys
  /\ faults \in 0 .. MaxFaults

\* A pod that ran where it was wanted when the actions of a pass were computed
\* is not deleted by them, for whichever group they are and however long they
\* take (DiffStates and the loop over its actions,
\* ipman_controller.go:1363-1415, 1538-1551).
SteadyPodsStay ==
  [][\A k \in steady : Running(k) => Running(k)' \/ faults' # faults]_vars

\* Nothing keeps the reconciler from diffing the groups: nothing has exited, every
\* connection has a group, and an xfrm pod is labelled with it; where restctl is
\* charon runs too, and restctl has not missed its socket.
Orderly ==
  /\ \A k \in Keys : pods[k].life # "dead"
  /\ \A c \in Conn :
       home[c] # 0 => Exists(home[c]) /\ pods[Xfrm(c)].group \in {0, home[c]}
  /\ \A g \in Group : /\ pods[Restctl(g)] # NoPod =>
                          Running(Charon(g)) /\ pods[Charon(g)].node = pods[Restctl(g)].node
                      /\ restctl[g] = "watching" => g \notin listening

\* No pass ends at the connections of a group before this one: their peers answer,
\* say.  The connections of this group and of later ones may fail in every pass.
Unhindered(g) == failed \notin {h \in Group : h < g}

\* Then a group in use gets all its pods in the end, and restctl serves, after
\* timeouts, restarts, moves and errors (CreateNodes, DiffStates).
UsedGroupsServe ==
  \A g \in Group :
    <>[](InUse(g) /\ Orderly /\ Unhindered(g))
      => <>[](/\ Answers(g)
              /\ \A k \in Keys : (k[1] = "xfrm" => home[k[2]] = g) /\ (k[1] # "xfrm" => k[2] = g)
                   => Running(k) /\ pods[k].node = node[g])

\* ... and one that is not in use loses them (deleteNode,
\* ipman_controller.go:1348-1361), if no group's connections end the passes.
UnusedGroupsGo ==
  \A g \in Group :
    <>[](Exists(g) /\ ~InUse(g) /\ Orderly /\ failed = 0)
      => <>[](\A k \in Keys : Of(k) = g => pods[k] = NoPod)

\* The daemon of a group in use comes back after its pod was lost, whichever
\* connections fail behind it (ipman_controller.go:1363: "DiffStates compares
\* desired and current cluster states and returns actions needed to reconcile them").
CharonComesBack ==
  \A g \in Group :
    <>[](InUse(g) /\ Exists(g) /\ pods[Charon(g)].life # "dead" /\ Unhindered(g))
      => []<>Running(Charon(g))
=============================================================================
