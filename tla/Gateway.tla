------------------------------ MODULE Gateway ------------------------------
(***************************************************************************)
(* Loading the IPSecConnections of one charon group and keeping them up:   *)
(*   - restctl (cmd/restctl/main.go) polls charon, and a second goroutine  *)
(*     writes what has failed into the status of the custom resources;     *)
(*   - the reconciler (internal/controller/ipman_controller.go) compares   *)
(*     that status, read from the informer cache, with the spec, loads     *)
(*     configs and asks restctl to restart children (actions.go).          *)
(* A pass of the reconciler stops at its first error and starts over.      *)
(* The copy of an object that the cache returns shares the ChildrenState   *)
(* map with the cache (api/v1/deepcopy.go:58-64), so the map is changed in *)
(* the cache even when the update of the object fails.                     *)
(* The pods of the group run; the group keeps at least one connection.     *)
(***************************************************************************)
EXTENDS Charon, SequencesExt

CONSTANTS
  Spec0,         \* connection -> its children in the spec at the start
  QueueCap,      \* capacity of the channel between restctl's goroutines
  FaultKinds,    \* which of the faults below may happen
  MaxFaults      \* bound on their number

ASSUME GatewayAssumption ==
  /\ Spec0 \in [Conn -> SUBSET Child] /\ \E c \in Conn : Spec0[c] # {}
  /\ QueueCap \in Nat /\ MaxFaults \in Nat
  /\ FaultKinds \subseteq
       {"lose", "crash", "restart", "http", "api", "refuse", "edit", "write", "admit"}

\* What the loop reads of a custom resource: the children of its spec, {} when
\* there is no such resource, and State and ChildrenState of its status.
\* `made': there is a ChildrenState map.
ChildStates == {"none", "UP", "Down"}
Resource ==
  [spec  : SUBSET Child,
   state : {"", "UP", "Degraded", "Down"},
   made  : BOOLEAN,
   kids  : [Child -> ChildStates]]

Unmonitored(spec) ==
  [spec |-> spec, state |-> "", made |-> FALSE, kids |-> [k \in Child |-> "none"]]

Actions == [do : {"override"}, conns : SUBSET Conn]
             \cup [do : {"optimistic"}, conn : Conn]
             \cup [do : {"restart"}, conn : Conn, child : Child]

VARIABLES
  stored,      \* the resources in the API server
  cache,       \* the operator's informer cache of them
  fresh,       \* is the cached version the stored one?
  reports,     \* failures on their way to the status writer
  writer,      \* the status writer: the report it works on, and whether the
               \* resource is still the one it read
  at, todo,    \* the reconciler's pass: where it is, and the actions left; "cut"
               \* is "idle" after a pass that ended at an action for others
  hand,        \* the connection whose resource an action has read and is about to
               \* write, as long as that is the stored version; {}: none
  notLoaded,   \* NotLoadedConns
  faults       \* number of faults so far

crVars       == <<stored, cache, fresh>>
passVars     == <<at, todo, notLoaded>>
operatorVars == <<passVars, hand>>
vars == <<charonVars, crVars, reports, writer, operatorVars, faults>>

NoReport == [on |-> FALSE, report |-> <<0, Whole>>, valid |-> FALSE]

Init ==
  /\ CharonInit
  /\ stored = [c \in Conn |-> Unmonitored(Spec0[c])]
  /\ cache = stored
  /\ fresh = [c \in Conn |-> TRUE]
  /\ reports = <<>> /\ writer = NoReport
  /\ at = "idle" /\ todo = <<>> /\ hand = {} /\ notLoaded = {}
  /\ faults = 0

-----------------------------------------------------------------------------
(* The API server: a version that changes is news to the cache, and to      *)
(* whoever has read the one before.                                         *)

Fault(kind) ==
  /\ kind \in FaultKinds /\ faults < MaxFaults
  /\ faults' = faults + 1

Outdate(c) ==
  /\ fresh' = [fresh EXCEPT ![c] = FALSE]
  /\ writer' = IF writer.on /\ writer.report[1] = c
               THEN [writer EXCEPT !.valid = FALSE] ELSE writer

Put(c, resource) ==
  /\ stored' = [stored EXCEPT ![c] = resource]
  /\ IF resource = stored[c] THEN UNCHANGED <<fresh, writer>> ELSE Outdate(c)

\* What the reconciler has in hand is not the stored version any more.
Overtaken == hand' = {c \in hand : fresh'[c]}

Deliver(c) ==
  /\ ~fresh[c]
  /\ cache' = [cache EXCEPT ![c] = stored[c]]
  /\ fresh' = [fresh EXCEPT ![c] = TRUE]
  /\ UNCHANGED <<charonVars, stored, reports, writer, operatorVars, faults>>

-----------------------------------------------------------------------------
(* restctl's two goroutines.                                                *)

\* monitorConnections: the failures of children come before those of whole
\* connections, each in any order.  The channel takes QueueCap of them; the
\* goroutine blocks on the rest, and does not poll again until they are in.
Poll ==
  /\ Len(reports) <= QueueCap
  /\ LET whole == {f \in Failures : f[2] = Whole}
     IN  \E s \in SetToSeqs(Failures \ whole), t \in SetToSeqs(whole) :
           reports' = reports \o s \o t
  /\ UNCHANGED <<charonVars, crVars, writer, operatorVars, faults>>

\* downgradeConnectionStatus, first half: the read goes to the API server.
Pick ==
  /\ ~writer.on /\ reports # <<>>
  /\ reports' = Tail(reports)
  /\ writer' = IF stored[Head(reports)[1]].spec = {} THEN writer
               ELSE [on |-> TRUE, report |-> Head(reports), valid |-> TRUE]
  /\ UNCHANGED <<charonVars, crVars, operatorVars, faults>>

\* Mutant: which child failed is not recorded.
DowngradedState(o, k) ==
  IF k = Whole THEN [o EXCEPT !.state = "Down"]
  ELSE [o EXCEPT !.state = "Degraded"]

Downgraded(o, k) ==
  IF k = Whole THEN [o EXCEPT !.state = "Down"]
  ELSE [o EXCEPT !.state = "Degraded", !.made = TRUE, !.kids[k] = "Down"]

\* ... second half: a conflict, or another failure, is logged and forgotten.
Downgrade ==
  LET c == writer.report[1]
      o == Downgraded(stored[c], writer.report[2])
  IN
  /\ writer.on
  /\ writer' = NoReport
  /\ \/ /\ writer.valid
        /\ stored' = [stored EXCEPT ![c] = o]
        /\ fresh' = [fresh EXCEPT ![c] = fresh[c] /\ o = stored[c]]
        /\ UNCHANGED faults
     \/ ~writer.valid /\ UNCHANGED <<stored, fresh, faults>>
     \/ Fault("api") /\ UNCHANGED <<stored, fresh>>
  /\ Overtaken
  /\ UNCHANGED <<charonVars, cache, reports, passVars>>

-----------------------------------------------------------------------------
(* The reconciler: a pass.                                                  *)

\* Mutant: an error does not discard the actions left.
StopKeepingTodo == at' = "idle" /\ hand' = {} /\ UNCHANGED <<todo, notLoaded>>

Goto(where) == at' = where /\ UNCHANGED <<todo, hand, notLoaded>>
Done        == todo' = Tail(todo) /\ at' = "doing" /\ hand' = {} /\ UNCHANGED notLoaded
Stop        == todo' = <<>> /\ at' = "idle" /\ hand' = {} /\ UNCHANGED notLoaded

Existing == {c \in Conn : cache[c].spec # {}}

\* Mutant: a pass starts without writing the status.
BeginReadOnly ==
  /\ at \in {"idle", "cut"}
  /\ Goto("diff")
  /\ UNCHANGED <<charonVars, crVars, writer, reports, faults>>

\* UpdateStatus writes back what is in the cache, for every connection; it is
\* tried again after a conflict.  Other errors do not stop the pass.
Begin ==
  /\ at \in {"idle", "cut"}
  /\ Goto("diff")
  /\ \/ /\ \A c \in Existing : stored[c].spec # {} => fresh[c]
        /\ stored' = [c \in Conn |-> IF c \in Existing /\ fresh[c] THEN cache[c] ELSE stored[c]]
        /\ LET changed == {c \in Conn : stored'[c] # stored[c]}
           IN  /\ fresh' = [c \in Conn |-> fresh[c] /\ c \notin changed]
               /\ writer' = IF writer.on /\ writer.report[1] \in changed
                            THEN [writer EXCEPT !.valid = FALSE] ELSE writer
        /\ UNCHANGED faults
     \/ Fault("api") /\ UNCHANGED <<stored, fresh, writer>>
  /\ UNCHANGED <<charonVars, cache, reports>>

Optimistic(c)  == [do |-> "optimistic", conn |-> c]
Restart(c, k)  == [do |-> "restart", conn |-> c, child |-> k]
Override(cs)   == [do |-> "override", conns |-> cs]

First(s) == CHOOSE k \in s : \A j \in s : k <= j

\* diffIPSecs for one connection, its children in the order ks.
Repairs(c, ks) ==
  LET o == cache[c]
      missing(k) == o.kids[k] = "none" \/ o.state = ""
      ofChild(k) == IF missing(k) THEN <<Optimistic(c)>>
                    ELSE IF o.kids[k] # "UP" THEN <<Restart(c, k)>> ELSE <<>>
  IN  (IF o.state = "" \/ ~o.made THEN <<Optimistic(c)>> ELSE <<>>)
      \o (IF o.state = "Down" THEN <<Restart(c, First(o.spec))>>
          ELSE FlattenSeq([i \in 1 .. Len(ks) |-> ofChild(ks[i])]))

\* diffProxy: wanted connections that restctl does not list, and that are not
\* known for it.
NewlyMissing == Existing \ (Configs \cup notLoaded)

\* createIPSecs lists the connections in the order of their names.
Sorted(s) == {q \in SetToSeqs(s) : \A i, j \in DOMAIN q : i < j => q[i] < q[j]}

\* GetClusterState and DiffStates.
Diff ==
  /\ at = "diff"
  /\ \/ /\ \E order \in [Existing -> UNION {SetToSeqs(cache[c].spec) : c \in Existing}] :
             /\ \A c \in Existing : order[c] \in SetToSeqs(cache[c].spec)
             /\ \E cs \in Sorted(Existing) :
                  todo' = (IF NewlyMissing # {} \/ Configs \ Existing # {}
                           THEN <<Override(Existing)>> ELSE <<>>)
                          \o FlattenSeq([i \in 1 .. Len(cs) |-> Repairs(cs[i], order[cs[i]])])
        /\ notLoaded' = (notLoaded \cup NewlyMissing) \ (Existing \cap Configs)
        /\ at' = "doing"
        /\ UNCHANGED <<hand, faults>>
     \/ Fault("http") /\ Stop
  /\ UNCHANGED <<charonVars, crVars, reports, writer>>

\* OverrideConfigAction: a secret that cannot be read or a request that fails
\* changes nothing; a config that is refused is reported after the rest was
\* loaded.
DoOverride ==
  /\ at = "doing" /\ todo # <<>> /\ Head(todo).do = "override"
  /\ LET conns   == Head(todo).conns
         configs == [c \in Conn |-> IF c \in conns THEN cache[c].spec ELSE {}]
     IN  \/ Reload(configs, conns) /\ Done /\ UNCHANGED faults
         \/ Fault("refuse") /\ Stop /\ \E acc \in SUBSET conns : Reload(configs, acc)
         \/ Fault("http") /\ Stop /\ UNCHANGED charonVars
  /\ UNCHANGED <<crVars, reports, writer>>

\* Mutant: the state is changed in the cached object, too.
MarkedUp(o, ks) ==
  [o EXCEPT !.kids = [k \in Child |-> IF k \in ks THEN "UP" ELSE o.kids[k]], !.state = "UP"]

\* Children are UP in the map, which is also that of the cached object.
Marked(o, ks) == [o EXCEPT !.kids = [k \in Child |-> IF k \in ks THEN "UP" ELSE o.kids[k]]]

\* r.Get, from the cache, and the change of the map of children.
Touch(c, resource) ==
  /\ cache' = [cache EXCEPT ![c] = resource]
  /\ hand' = {d \in {c} : fresh[d]}
  /\ at' = "update" /\ UNCHANGED <<todo, notLoaded>>

\* UpdateChildConnectionStatus.  Where there is no map, it makes one of its own.
DoOptimistic ==
  /\ at = "doing" /\ todo # <<>> /\ Head(todo).do = "optimistic"
  /\ LET c == Head(todo).conn
         o == cache[c]
     IN  IF o.spec = {} THEN Stop /\ UNCHANGED cache
         ELSE Touch(c, IF o.made THEN Marked(o, o.spec) ELSE o)
  /\ UNCHANGED <<charonVars, stored, fresh, writer, reports, faults>>

\* RestartChildConnectionAction, the call: nothing to do unless charon has
\* failed the child; a peer that does not answer is an error.
Call ==
  /\ at = "doing" /\ todo # <<>> /\ Head(todo).do = "restart"
  /\ LET c == Head(todo).conn
         k == Head(todo).child
     IN  \/ ~ChildFailed(c, k) /\ Goto("answered") /\ UNCHANGED <<charonVars, faults>>
         \/ /\ ChildFailed(c, k) /\ c \in Answering /\ k \in loaded[c]
            /\ Connect(c, k) /\ Goto("answered") /\ UNCHANGED faults
         \/ /\ ChildFailed(c, k) /\ (c \notin Answering \/ k \notin loaded[c])
            /\ Stop /\ UNCHANGED <<charonVars, faults>>
         \/ Fault("http") /\ Stop /\ UNCHANGED charonVars
  /\ UNCHANGED <<crVars, reports, writer>>

\* ... the change.  A nil map panics, which ends the pass like an error.
Raise ==
  /\ at = "answered"
  /\ LET c == Head(todo).conn
         o == cache[c]
     IN  IF o.spec = {} \/ ~o.made THEN Stop /\ UNCHANGED cache
         ELSE Touch(c, Marked(o, {Head(todo).child}))
  /\ UNCHANGED <<charonVars, stored, fresh, writer, reports, faults>>

\* Mutant: the connection stays what it was.
RaisedChild(o) == o

\* A connection is UP again when no child is Down.
Raised(o) == [o EXCEPT !.state = IF \E k \in Child : o.kids[k] = "Down" THEN o.state ELSE "UP"]

\* What the two actions make of the object they have read, but for the map.
Proposed(action, o) ==
  IF action.do = "restart" THEN Raised(o)
  ELSE [Marked(o, o.spec) EXCEPT !.state = "UP", !.made = TRUE]

\* Mutant: the update does not carry the version that was read.
UpdateAnyway ==
  /\ at = "update"
  /\ LET c == Head(todo).conn
     IN  \/ Put(c, Proposed(Head(todo), cache[c])) /\ Done /\ UNCHANGED faults
         \/ Fault("api") /\ Stop /\ UNCHANGED <<stored, fresh, writer>>
  /\ UNCHANGED <<charonVars, cache, reports>>

\* r.Status().Update, which sends the map as it is now.  As long as the version
\* that was read is the stored one it is also the cached one.
Update ==
  /\ at = "update"
  /\ LET c == Head(todo).conn
     IN  \/ c \in hand /\ Put(c, Proposed(Head(todo), cache[c])) /\ Done /\ UNCHANGED faults
         \/ c \notin hand /\ Stop /\ UNCHANGED <<stored, fresh, writer, faults>>
         \/ Fault("api") /\ Stop /\ UNCHANGED <<stored, fresh, writer>>
  /\ UNCHANGED <<charonVars, cache, reports>>

\* The pass ends at an action that is not modelled here: those of other groups
\* and of the xfrm pods are in the same list.
Cut ==
  /\ at = "doing" /\ todo # <<>>
  /\ at' = "cut" /\ todo' = <<>> /\ UNCHANGED <<hand, notLoaded>>
  /\ UNCHANGED <<charonVars, crVars, reports, writer, faults>>

Finish ==
  /\ at = "doing" /\ todo = <<>>
  /\ Stop
  /\ UNCHANGED <<charonVars, crVars, reports, writer, faults>>

Pass ==
  Begin \/ Diff \/ DoOverride \/ DoOptimistic \/ Call \/ Raise \/ Update \/ Cut \/ Finish

-----------------------------------------------------------------------------
(* Everything else that happens.                                            *)

OperatorRestart ==
  /\ Fault("restart")
  /\ cache' = stored /\ fresh' = [c \in Conn |-> TRUE]
  /\ at' = "idle" /\ todo' = <<>> /\ hand' = {} /\ notLoaded' = {}
  /\ UNCHANGED <<charonVars, stored, reports, writer>>

\* The spec of a connection is edited, or the connection created or deleted.
Edit(c, spec) ==
  /\ Fault("edit")
  /\ spec # stored[c].spec
  /\ spec # {} \/ \E d \in Conn \ {c} : stored[d].spec # {}
  /\ Put(c, IF spec = {} \/ stored[c].spec = {} THEN Unmonitored(spec)
            ELSE [stored[c] EXCEPT !.spec = spec])
  /\ Overtaken
  /\ UNCHANGED <<charonVars, cache, reports, passVars>>

\* The mutating webhook admits a worker pod.  It writes the whole status of the
\* cached object, with new FreeIPs and with the map as it is now (CompleteSetup of
\* an xfrm pod does the same with XfrmGatewayIPs).
Admit(c) ==
  /\ Fault("admit") /\ fresh[c] /\ stored[c].spec # {}
  /\ stored' = [stored EXCEPT ![c] = cache[c]]
  /\ Outdate(c) /\ Overtaken
  /\ UNCHANGED <<charonVars, cache, reports, passVars>>

\* Somebody else writes another part of the resource.
OtherWrite(c) ==
  /\ Fault("write") /\ stored[c].spec # {}
  /\ Outdate(c) /\ Overtaken
  /\ UNCHANGED <<charonVars, stored, cache, reports, passVars>>

Peers ==
  /\ \/ /\ UNCHANGED faults
        /\ \E c \in Conn, k \in Child : ComeUp(c, k)
     \/ /\ Fault("lose")
        /\ (\E c \in Conn, k \in Child : LoseChild(c, k)) \/ (\E c \in Conn : LoseIke(c))
     \/ Fault("crash") /\ Crash
  /\ UNCHANGED <<crVars, reports, writer, operatorVars>>

Restctl == Poll \/ Pick \/ Downgrade

Next ==
  \/ Restctl \/ Pass \/ Peers \/ OperatorRestart
  \/ \E c \in Conn : Deliver(c) \/ Admit(c) \/ OtherWrite(c) \/ (\E s \in SUBSET Child : Edit(c, s))

Spec == Init /\ [][Next]_vars

\* Both goroutines of restctl loop, watches deliver, and the reconciler is
\* requeued after every pass (every minute, or with a back-off after an error).
Fairness ==
  /\ WF_vars(Poll) /\ WF_vars(Pick) /\ WF_vars(Downgrade)
  /\ \A c \in Conn : WF_vars(Deliver(c))
  /\ WF_vars(Pass)

FairSpec == Spec /\ Fairness

-----------------------------------------------------------------------------
(* Properties.                                                              *)

TypeOK ==
  /\ CharonType
  /\ stored \in [Conn -> Resource] /\ cache \in [Conn -> Resource]
  /\ fresh \in [Conn -> BOOLEAN]
  /\ reports \in Seq(Conn \X (Child \cup {Whole}))
  /\ writer.on => writer.report \in Conn \X (Child \cup {Whole})
  /\ at \in {"idle", "cut", "diff", "doing", "answered", "update"}
  /\ at \in {"idle", "cut", "diff"} => todo = <<>>
  /\ at = "answered" => todo # <<>> /\ Head(todo).do = "restart"
  /\ at = "update" => todo # <<>> /\ Head(todo).do \in {"restart", "optimistic"}
  /\ todo \in Seq(Actions)
  /\ hand \in SUBSET Conn /\ (hand # {} => at = "update" /\ hand = {Head(todo).conn})
  /\ \A c \in hand : fresh[c]
  /\ notLoaded \in SUBSET Conn
  /\ faults \in 0 .. MaxFaults

Wanted(c) == stored[c].spec # {}


\* From some time on no pass ends at the work for others.
Undisturbed == <>[](at # "cut")

\* No restart of a child of the connection fails for good: its peer answers, and
\* all its children are loaded.
Passable(c) == stored[c].spec # {} => c \in Answering /\ stored[c].spec \subseteq loaded[c]


\* A restart that fails does not keep the reconciler from the connections behind
\* it (ipman_controller.go:1541-1550: such an error is logged as "Error restarting
\* connection" and the loop over the actions goes on).
RestartErrorsAreSkipped ==
  Undisturbed =>
    \A c \in Answering, k \in Child :
      <>[](k \in stored[c].spec /\ stored[c].spec = loaded[c]) => []<>(<<c, k>> \in sa)

Named(o) == o.state = "Degraded" => \E k \in Child : o.kids[k] = "Down"

\* A connection that is shown as Degraded names a child that is Down; nothing else
\* would ever raise it (diffIPSecs, ipman_controller.go:1317-1333).  What can make
\* it lose the last one is a write of the cached object, by whomever, while the
\* shared map is ahead of what is stored: between the change of the map and the
\* update (actions.go:586, 591), and after an update that has failed.
OnlySharedMapUnnames ==
  [][\A c \in Conn : Named(stored[c]) /\ ~Named(stored'[c])
       => fresh[c] /\ cache[c].kids # stored[c].kids /\ stored'[c].kids = cache[c].kids]_vars

\* Updates that are lost leave their mark in the cached map of children, and
\* nowhere else: as long as a cached object is not outdated it is the stored one
\* but for children it has as UP (actions.go:586, 619; deepcopy.go:58-64).
CacheOnlyRaises ==
  \A c \in Conn : fresh[c] =>
    /\ cache[c] = [stored[c] EXCEPT !.kids = cache[c].kids]
    /\ \A k \in Child : cache[c].kids[k] \in {stored[c].kids[k], "UP"}

\* The two writers keep the promise of ConnectionStatus, each writing the whole
\* status from the copy it has read: no report is overwritten by an older status,
\* and a connection that is raised has no child left that is recorded as Down
\* (main.go:735-758, actions.go:553-624, UpdateStatus), nor do admissions of pods
\* (mutating_webhook.go:174-180).
Promise == INSTANCE ConnectionStatus WITH status <- stored
KeepsStatusPromise == Promise!Spec

\* The children's states in the operator's cache agree with the API server
\* again, although failed updates change them in the cache only.
CacheAgrees ==
  \A c \in Conn : []<>(cache[c].kids = stored[c].kids)

\* What is recorded of a connection leads diffIPSecs to raise it: a child that is
\* Down is one of the spec, the first if the connection is Down, and there is one
\* if it is Degraded.
Raisable(o) ==
  LET down == {k \in Child : o.kids[k] = "Down"}
  IN  /\ down \subseteq o.spec
      /\ o.state = "Degraded" => down # {}
      /\ o.state = "Down" => down \subseteq {First(o.spec)}

\* A connection with all its children up is shown as UP again, be it Degraded or
\* Down, as long as it is raisable and nothing keeps the passes from it (diffIPSecs,
\* ipman_controller.go:1295-1337, and actions.go:586-593).
PresentIsUp ==
  Undisturbed =>
    \A c \in Conn :
      <>[](/\ Wanted(c) /\ (\A k \in stored[c].spec : <<c, k>> \in sa) /\ Raisable(stored[c])
           /\ \A d \in Conn : d < c => Passable(d))
        => []<>(stored[c].state = "UP")
=============================================================================
