------------------------------ MODULE XfrmPod ------------------------------
(***************************************************************************)
(* The xfrm pod of one child of an IPSecConnection, and the routes in it:  *)
(*   - xfrminion (cmd/xfrminion/main.go) runs in the pod and puts routes   *)
(*     and forwarding entries into the kernel, on request;                 *)
(*   - the reconciler (internal/controller) creates the pod, sets up its   *)
(*     links, publishes its address as the child's gateway, and asks for   *)
(*     routes.  It remembers what it asked for in an annotation of the     *)
(*     pod, and diffs THAT against the spec, never the kernel.             *)
(* A pass stops at its first error and starts over.  Pods are read from    *)
(* the informer cache.                                                     *)
(***************************************************************************)
EXTENDS Integers, SequencesExt

CONSTANTS
  Route,       \* local and remote routes, and forwarding entries (fdb)
  Kind,        \* route -> "local", "remote" or "fdb"
  Place,       \* node and properties of a pod: what a pod is recreated for
  Want0,       \* the routes wanted at the start
  FaultKinds,  \* which of the faults and edits below may happen
  MaxFaults    \* bound on their number

ASSUME XfrmAssumption ==
  /\ Kind \in [Route -> {"local", "remote", "fdb"}]
  /\ IsFiniteSet(Route) /\ Place # {} /\ Want0 \subseteq Route /\ MaxFaults \in Nat
  /\ FaultKinds \subseteq {"add", "remove", "move", "off", "write", "api", "http",
                           "setup", "evict", "die", "restart"}

\* A pod keeps its identity, and from the time it runs its address, for life.
\* An identity is used again when nothing refers to it any more.
PodId == 1 .. 4
Lives == {"unscheduled", "starting", "running", "ending", "dead"}
Pods  == [id : PodId, life : Lives, place : Place, note : SUBSET Route]
NoPod == [id |-> 0, life |-> "dead", place |-> CHOOSE p \in Place : TRUE, note |-> {}]

Step == [do : {"create"}, place : Place, routes : SUBSET Route]
          \cup [do : {"delete"}] \cup [do : {"add", "remove"}, route : Route]

VARIABLES
  want,        \* the spec of the child and its worker pods
  pod,         \* the xfrm pod in the API server
  links,       \* the network interfaces in the pod
  kernel,      \* the routes and entries in its kernel tables
  seen,        \* the pod in the operator's informer cache
  fresh,       \* is that the newest version?
  gateway,     \* the pod whose address XfrmGatewayIPs has for the child, or 0
  at, todo,    \* the reconciler's pass: where it is, and the actions left; "cut"
               \* is "idle" after a pass that ended at an action for others
  target,      \* the pod whose address the actions carry, 0: without one
  draft,       \* the annotation being written
  faults       \* number of faults and edits so far

minionVars   == <<links, kernel>>
cacheVars    == <<seen, fresh>>
operatorVars == <<at, todo, target, draft>>
vars == <<want, pod, minionVars, cacheVars, gateway, operatorVars, faults>>

Init ==
  /\ want \in [on : {TRUE}, place : Place, routes : {Want0}]
  /\ pod = NoPod /\ links = {} /\ kernel = {}
  /\ seen = NoPod /\ fresh = TRUE
  /\ gateway = 0
  /\ at = "idle" /\ todo = <<>> /\ target = 0 /\ draft = {}
  /\ faults = 0

-----------------------------------------------------------------------------
(* The pod (external: Kubernetes).                                          *)

Fault(kind) ==
  /\ kind \in FaultKinds /\ faults < MaxFaults
  /\ faults' = faults + 1

\* The phase of a pod being deleted is still Running.
Ready(p) == p.life \in {"running", "ending"}

Put(p) ==
  /\ pod' = p
  /\ fresh' = (fresh /\ p = pod)
  /\ UNCHANGED seen

Live(life) == Put([pod EXCEPT !.life = life])

\* A pod that no process of which is left goes at once.
Depart ==
  IF pod.life \in {"unscheduled", "dead"}
  THEN Put(NoPod) /\ links' = {} /\ kernel' = {}
  ELSE Live("ending") /\ UNCHANGED minionVars

Schedule == pod # NoPod /\ pod.life = "unscheduled" /\ Live("starting")
Start    == pod.life = "starting" /\ Live("running")
Gone     == pod.life = "ending" /\ Put(NoPod)

Kubernetes ==
  /\ \/ (Schedule \/ Start) /\ UNCHANGED <<minionVars, faults>>
     \/ Gone /\ links' = {} /\ kernel' = {} /\ UNCHANGED faults
     \/ Fault("evict") /\ pod # NoPod /\ Depart
     \/ Fault("die") /\ pod.life = "running" /\ Live("dead") /\ links' = {} /\ kernel' = {}
     \/ Fault("write") /\ pod # NoPod /\ fresh' = FALSE /\ UNCHANGED <<pod, seen, minionVars>>
  /\ UNCHANGED <<want, gateway, operatorVars>>

Deliver ==
  /\ ~fresh
  /\ seen' = pod /\ fresh' = TRUE
  /\ UNCHANGED <<want, pod, minionVars, gateway, operatorVars, faults>>

-----------------------------------------------------------------------------
(* xfrminion.                                                               *)

\* The links of a pod that is set up: a job in the network namespace of charon
\* makes the xfrm link, the handler of /setupVxlan the bridge and the vxlan.
Links == {"xfrm", "vxlan"}

\* Does the handler answer 200?  A route that is there may be added, one that
\* is not there cannot be deleted; a forwarding entry that is there cannot be
\* appended.  Without its link every handler fails.
Answers(do, r) ==
  /\ (IF Kind[r] = "remote" THEN "xfrm" ELSE "vxlan") \in links
  /\ do = "remove" => r \in kernel
  /\ do = "add" /\ Kind[r] = "fdb" => r \notin kernel

With(routes, do, r) == IF do = "add" THEN routes \cup {r} ELSE routes \ {r}

-----------------------------------------------------------------------------
(* The reconciler: diffing.                                                 *)

Goto(where) == at' = where /\ UNCHANGED <<todo, target, draft>>
Done        == todo' = Tail(todo) /\ at' = "doing" /\ draft' = {} /\ UNCHANGED target
Stop        == todo' = <<>> /\ at' = "idle" /\ draft' = {} /\ target' = 0

Create(place, routes) == [do |-> "create", place |-> place, routes |-> routes]
Delete                == [do |-> "delete"]
Change(do, r)         == [do |-> do, route |-> r]

OfKind(kind) == {r \in Route : Kind[r] = kind}

Changed(kind, from, to) ==
  {Change(IF r \in to THEN "add" ELSE "remove", r) :
     r \in OfKind(kind) \cap ((from \ to) \cup (to \ from))}

\* Mutant: the forwarding entries come first.
ChangesFdbFirst(from, to) ==
  {f \o l \o r : f \in SetToSeqs(Changed("fdb", from, to)),
                l \in SetToSeqs(Changed("local", from, to)),
                r \in SetToSeqs(Changed("remote", from, to))}

\* diffRoutes: local routes, remote routes, forwarding entries; in any order
\* within a kind.
Changes(from, to) ==
  {l \o r \o f : l \in SetToSeqs(Changed("local", from, to)),
                r \in SetToSeqs(Changed("remote", from, to)),
                f \in SetToSeqs(Changed("fdb", from, to))}

\* A pod without a node is not where it should be.
Misplaced(p) == p.life = "unscheduled" \/ p.place # want.place

\* diffXfrms.  A pod that does not exist is created without routes, which are
\* added after it; one that is recreated is created with all of them.
Actions ==
  IF seen = NoPod
  THEN IF want.on THEN {<<Create(want.place, {})>> \o s : s \in Changes({}, want.routes)}
                  ELSE {<<>>}
  ELSE IF ~want.on THEN {<<Delete>>}
  ELSE IF Misplaced(seen) THEN {<<Delete, Create(want.place, want.routes)>>}
  ELSE Changes(seen.note, want.routes)

Diff ==
  /\ at \in {"idle", "cut"}
  /\ todo' \in Actions
  /\ target' = IF seen # NoPod /\ seen.life \notin {"unscheduled", "starting"} THEN seen.id ELSE 0
  /\ at' = "doing" /\ draft' = {}
  /\ UNCHANGED <<want, pod, minionVars, cacheVars, gateway, faults>>

\* The pass ends at an action for other children, connections or groups, which are
\* in the same list: a route that another pod refuses, or a restart that fails
\* (actions.go:578-585), do so in every pass.
Cut ==
  /\ at = "doing" /\ todo # <<>>
  /\ at' = "cut" /\ todo' = <<>> /\ draft' = {} /\ target' = 0
  /\ UNCHANGED <<want, pod, minionVars, cacheVars, gateway, faults>>

Finish ==
  /\ at = "doing" /\ todo = <<>>
  /\ Stop
  /\ UNCHANGED <<want, pod, minionVars, cacheVars, gateway, faults>>

-----------------------------------------------------------------------------
(* The reconciler: the pod.                                                 *)

Doing(do) == at = "doing" /\ todo # <<>> /\ Head(todo).do = do

\* DeletePodAction and CompleteDeletion, whose update may be lost.
DoDelete ==
  /\ Doing("delete")
  /\ \/ /\ pod # NoPod /\ Depart /\ Done
        /\ \/ gateway' = 0 /\ UNCHANGED faults
           \/ Fault("write") /\ UNCHANGED gateway
     \/ /\ pod = NoPod /\ Stop
        /\ UNCHANGED <<pod, minionVars, cacheVars, gateway, faults>>
  /\ UNCHANGED want

\* CreatePodAction: a pod of that name must be gone.
DoCreate ==
  LET id == CHOOSE i \in PodId : i \notin {seen.id, gateway, target}
  IN
  /\ Doing("create")
  /\ \/ /\ pod = NoPod
        /\ Put([id |-> id, life |-> "unscheduled", place |-> Head(todo).place,
                note |-> Head(todo).routes])
        /\ links' = {} /\ kernel' = {}
        /\ Goto("wait")
     \/ /\ pod # NoPod /\ Stop
        /\ UNCHANGED <<pod, minionVars, cacheVars>>
  /\ UNCHANGED <<want, gateway, faults>>

\* waitForPodReady, for an action that needs it.  Nobody is asked whether the
\* pod is the one created.
Waits ==
  \/ at = "wait"
  \/ /\ at = "doing" /\ todo # <<>> /\ Head(todo).do \in {"add", "remove"}
     /\ Kind[Head(todo).route] # "fdb"
     /\ ~(Head(todo).do = "remove" /\ Kind[Head(todo).route] = "remote" /\ target # 0)

\* Mutant: there is no time limit.
TimeoutNever ==
  /\ Waits /\ ~Ready(seen)
  /\ UNCHANGED vars

Timeout ==
  /\ Waits /\ ~Ready(seen)
  /\ Stop
  /\ UNCHANGED <<want, pod, minionVars, cacheVars, gateway, faults>>

Reached(id) == id = pod.id /\ Ready(pod)

\* The address the pod has now is the one that is going to be published.
ToPublish == at' = "publish" /\ target' = seen.id /\ UNCHANGED draft

\* Mutant: the address is published before the links are there.
SetUpLate ==
  /\ at = "wait" /\ Ready(seen)
  /\ \/ Reached(seen.id) /\ ToPublish /\ UNCHANGED todo
     \/ ~Reached(seen.id) /\ Stop
  /\ UNCHANGED <<want, pod, minionVars, cacheVars, gateway, faults>>

\* Mutant: the action is taken off the list before it is finished.
SetUpPopped ==
  /\ at = "wait" /\ Ready(seen)
  /\ \/ /\ Reached(seen.id)
        /\ links' = Links /\ ToPublish /\ todo' = Tail(todo)
     \/ ~Reached(seen.id) /\ Stop /\ UNCHANGED links
  /\ UNCHANGED <<want, pod, kernel, cacheVars, gateway, faults>>

\* CompleteSetup: the job that makes the xfrm link, then /setupVxlan.
SetUp ==
  /\ at = "wait" /\ Ready(seen)
  /\ \/ /\ Reached(seen.id)
        /\ links' = Links /\ ToPublish /\ UNCHANGED <<todo, faults>>
     \/ ~Reached(seen.id) /\ Stop /\ UNCHANGED <<links, faults>>
     \/ Reached(seen.id) /\ Fault("setup") /\ links' \in {{}, {"xfrm"}} /\ Stop
  /\ UNCHANGED <<want, pod, kernel, cacheVars, gateway>>

\* ... and the gateway address.  A lost update may have been applied, or be
\* made good by the next UpdateStatus when the map it changed is the cache's.
Publish ==
  /\ at = "publish"
  /\ \/ /\ gateway' = target /\ UNCHANGED faults
        /\ at' = "doing" /\ todo' = Tail(todo) /\ target' = 0 /\ UNCHANGED draft
     \/ Fault("write") /\ gateway' \in {gateway, target} /\ Stop
  /\ UNCHANGED <<want, pod, minionVars, cacheVars>>

-----------------------------------------------------------------------------
(* The reconciler: routes.                                                  *)

\* DeleteRemoteRouteAction does not read the pod when it knows the address,
\* and then dereferences nil: a panic, which ends the pass.
Panics(do, r) == do = "remove" /\ Kind[r] = "remote" /\ target # 0

\* Mutant: an answer other than 200 is no error.
PostAnyway ==
  /\ Doing("add") \/ Doing("remove")
  /\ Waits => Ready(seen)
  /\ LET do == Head(todo).do
         r  == Head(todo).route
         ok == Reached(IF Waits THEN seen.id ELSE target) /\ Answers(do, r)
     IN  /\ kernel' = IF ok THEN With(kernel, do, r) ELSE kernel
         /\ at' = "annotate" /\ draft' = With(seen.note, do, r)
  /\ UNCHANGED <<want, pod, links, cacheVars, gateway, todo, target, faults>>

\* The request.  The annotation is computed from the pod read before it, for a
\* forwarding entry from the one read after it.
Post ==
  /\ Doing("add") \/ Doing("remove")
  /\ Waits => Ready(seen)
  /\ LET do == Head(todo).do
         r  == Head(todo).route
         ok == Reached(IF Waits THEN seen.id ELSE target) /\ Answers(do, r)
     IN  \/ /\ ok /\ kernel' = With(kernel, do, r)
            /\ IF Panics(do, r) THEN Stop
               ELSE /\ at' = "annotate" /\ draft' = With(seen.note, do, r)
                    /\ UNCHANGED <<todo, target>>
            /\ UNCHANGED faults
         \/ ~ok /\ Stop /\ UNCHANGED <<kernel, faults>>
         \/ Fault("http") /\ Stop /\ kernel' \in {kernel} \cup (IF ok THEN {With(kernel, do, r)} ELSE {})
  /\ UNCHANGED <<want, pod, links, cacheVars, gateway>>

\* An annotation that could not be written is an error for a forwarding entry
\* only.
Unwritten == IF Kind[Head(todo).route] = "fdb" THEN Stop ELSE Done

\* updateXfrmSpecAnnotation, the write ...
Annotate ==
  LET do == Head(todo).do
      r  == Head(todo).route
      fdb == Kind[r] = "fdb"
      note == IF fdb THEN With(seen.note, do, r) ELSE draft
      found == seen # NoPod /\ (fdb => seen.id = target)
  IN
  /\ at = "annotate"
  /\ \/ /\ found /\ fresh
        /\ Put([pod EXCEPT !.note = note])
        /\ at' = "echo" /\ draft' = note /\ UNCHANGED <<todo, target, faults>>
     \/ ~(found /\ fresh) /\ Unwritten /\ UNCHANGED <<pod, cacheVars, faults>>
     \/ Fault("api") /\ Unwritten
        /\ \/ found /\ fresh /\ Put([pod EXCEPT !.note = note])
           \/ UNCHANGED <<pod, cacheVars>>
  /\ UNCHANGED <<want, minionVars, gateway>>

\* Mutant: nobody waits.
EchoAtOnce ==
  /\ at = "echo"
  /\ Done
  /\ UNCHANGED <<want, pod, minionVars, cacheVars, gateway, faults>>

\* ... and the wait until the cache shows it.
Echo ==
  /\ at = "echo"
  /\ \/ seen = NoPod /\ Unwritten
     \/ seen # NoPod /\ seen.note = draft /\ Done
  /\ UNCHANGED <<want, pod, minionVars, cacheVars, gateway, faults>>

Pass ==
  Diff \/ Cut \/ DoDelete \/ DoCreate \/ Timeout \/ SetUp \/ Publish \/ Post \/ Annotate
    \/ Echo \/ Finish

-----------------------------------------------------------------------------
(* Everyone else.                                                           *)

OperatorRestart ==
  /\ Fault("restart")
  /\ seen' = pod /\ fresh' = TRUE /\ Stop
  /\ UNCHANGED <<want, pod, minionVars, gateway>>

\* The spec changes, or the worker pods.
Edit ==
  /\ \/ Fault("add") /\ \E r \in Route \ want.routes : want' = [want EXCEPT !.routes = @ \cup {r}]
     \/ Fault("remove") /\ \E r \in want.routes : want' = [want EXCEPT !.routes = @ \ {r}]
     \/ Fault("move") /\ \E p \in Place \ {want.place} : want' = [want EXCEPT !.place = p]
     \/ Fault("off") /\ want' = [want EXCEPT !.on = ~@]
  /\ UNCHANGED <<pod, minionVars, cacheVars, gateway, operatorVars>>

Next == Pass \/ Kubernetes \/ Deliver \/ OperatorRestart \/ Edit

Spec == Init /\ [][Next]_vars

\* The reconciler is requeued after every pass and its watches deliver.  A
\* scheduler that finds a pod often enough places and starts it, and a pod
\* being deleted goes.
Fairness ==
  /\ WF_vars(Pass) /\ WF_vars(Deliver)
  /\ SF_vars(Kubernetes /\ Schedule) /\ SF_vars(Kubernetes /\ Start)
  /\ WF_vars(Kubernetes /\ Gone)

FairSpec == Spec /\ Fairness

-----------------------------------------------------------------------------
(* Properties.                                                              *)

TypeOK ==
  /\ want \in [on : BOOLEAN, place : Place, routes : SUBSET Route]
  /\ pod \in Pods \cup {NoPod} /\ seen \in Pods \cup {NoPod}
  /\ links \in SUBSET Links /\ kernel \in SUBSET Route
  /\ fresh \in BOOLEAN /\ (fresh => seen = pod)
  /\ gateway \in PodId \cup {0} /\ target \in PodId \cup {0}
  /\ at \in {"idle", "cut", "doing", "wait", "publish", "annotate", "echo"}
  /\ todo \in Seq(Step)
  /\ at \in {"wait", "publish"} => todo # <<>> /\ Head(todo).do = "create"
  /\ at \in {"annotate", "echo"} => todo # <<>> /\ Head(todo).do \in {"add", "remove"}
  /\ draft \in SUBSET Route
  /\ faults \in 0 .. MaxFaults

\* The address the webhook gives to worker pods as their gateway is never that
\* of a running pod without links: what the webhook takes its presence for
\* (mutating_webhook.go:152-156: "XfrmPod for that child is not ready yet").
GatewayIsSetUp ==
  gateway = pod.id /\ Ready(pod) => links = Links

\* No pass ends at an action for others: those in front of the actions for this
\* child can be done.
Unhindered == at # "cut"

\* A wanted xfrm pod runs again and again, after every eviction, timeout,
\* restart or move (recreatePod, ipman_controller.go:991-993).  Not one whose
\* process has exited: it is never restarted and never replaced.
PodComesBack ==
  <>[](want.on /\ (pod.life = "dead" => pod = NoPod) /\ Unhindered)
    => []<>(pod.life = "running")

\* As long as the annotation of a pod that is set up is true and names nothing
\* that is not wanted, every wanted route gets into the kernel, whatever is
\* lost on the way (diffRoutes, ipman_controller.go:995-1145), if the work for
\* others can be done.
RoutesArrive ==
  \A r \in Route : Kind[r] # "fdb" =>
    (<>[](/\ want.on /\ ~Misplaced(pod) /\ r \in want.routes
          /\ pod.life = "running" /\ links = Links
          /\ pod.note \subseteq kernel \cap want.routes /\ Unhindered)
       => <>[](r \in kernel))

\* In a pod that is set up and stays wanted, what is wanted is installed in the
\* end (ipman_controller.go:1149: "createXfrmPod returns a list of actions to
\* get a xfrm pod with desired routes"), if the work for others can be done.
WantedIsInstalled ==
  \A r \in Route :
    <>[](want.on /\ r \in want.routes /\ pod.life = "running" /\ links = Links /\ Unhindered)
      => <>[](r \in kernel)
=============================================================================
