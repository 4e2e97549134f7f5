------------------------ MODULE GatewayStatus_proofs ------------------------
(***************************************************************************)
(* The writers of the recorded status implement ConnectionStatus, for any  *)
(* connections, children, peers and faults: each writes the whole status   *)
(* from the copy it has read, some of them while another has changed the   *)
(* map of that copy, and yet a step changes what is stored in one of three *)
(* ways only.  This rests on what failed and unfinished updates may have   *)
(* left in the cached copy, which is the first theorem.                    *)
(***************************************************************************)
EXTENDS Gateway_proofs

\* x is s but for children that it has as UP.
OnlyRaises(s, x) ==
  /\ x.spec = s.spec /\ x.state = s.state /\ x.made = s.made
  /\ \A k \in Child : x.kids[k] \in {s.kids[k], "UP"}

\* A restarted child has been entered in a map that was there.
HandMade == \A c \in hand : Head(todo).do = "restart" => cache[c].made

RInv == TInv /\ CacheOnlyRaises /\ HandMade

\* What a step may do to the resource of one connection ...
Allowed(o, p) == Promise!Lower(o, p) \/ Promise!Lift(o, p) \/ Promise!Respec(o, p)

\* ... unless it stores the object of the cache, changed map and all.
Kept(d) ==
  \/ Allowed(stored[d], stored'[d]) /\ (Named(stored[d]) => Named(stored'[d]))
  \/ fresh[d] /\ stored'[d] = cache[d]

-----------------------------------------------------------------------------
(* Lemmas on resources.                                                     *)

LEMMA OnlyRaisesDef ==
  ASSUME NEW s \in Resource, NEW x \in Resource
  PROVE  OnlyRaises(s, x) <=> /\ x = [s EXCEPT !.kids = x.kids]
                              /\ \A k \in Child : x.kids[k] \in {s.kids[k], "UP"}
BY DEF OnlyRaises, Resource

LEMMA CacheRaises == Typed => (CacheOnlyRaises <=> \A c \in Conn : fresh[c] => OnlyRaises(stored[c], cache[c]))
BY OnlyRaisesDef DEF Typed, CacheOnlyRaises

\* Raising what was only raised is the same as raising the stored copy.
LEMMA LiftThroughCache ==
  ASSUME NEW s, NEW x, NEW o, OnlyRaises(s, x), Promise!Lift(x, o)
  PROVE  Promise!Lift(s, o)
BY DEF OnlyRaises, Promise!Lift

LEMMA CacheIsLifted == ASSUME NEW s, NEW x, OnlyRaises(s, x) PROVE Promise!Lift(s, x)
BY DEF OnlyRaises, Promise!Lift

LEMMA SameIsKept == ASSUME NEW d, stored'[d] = stored[d] PROVE Kept(d)
BY DEF Kept, Allowed, Promise!Lift

\* What an action proposes raises the copy it has read.
LEMMA ProposedIsLifted ==
  ASSUME NEW o \in Resource, NEW action, action.do = "restart" => o.made
  PROVE  Promise!Lift(o, Proposed(action, o))
<1> DEFINE p == Proposed(action, o)
<1>1. o.spec \subseteq Child
  BY DEF Resource
<1>2. /\ p.spec = o.spec
      /\ \A k \in Child : p.kids[k] \in {o.kids[k], "UP"}
      /\ action.do = "restart" =>
           /\ p.kids = o.kids /\ p.made = o.made
           /\ p.state = o.state \/ (p.state = "UP" /\ \A k \in Child : p.kids[k] # "Down")
      /\ action.do # "restart" =>
           /\ p.state = "UP" /\ p.made /\ \A k \in o.spec : p.kids[k] # "Down"
  BY ProposedOK
<1> HIDE DEF p
<1>3. Promise!Lift(o, p)
  BY <1>1, <1>2 DEF Promise!Lift
<1> QED
  BY <1>3 DEF p

-----------------------------------------------------------------------------
(* The cached copy.                                                         *)

\* A copy stays one as long as what is stored does not change under it.
LEMMA StillRaises ==
  ASSUME Typed, Typed', CacheOnlyRaises,
         \A d \in Conn : fresh'[d] => /\ fresh[d] /\ stored'[d] = stored[d]
                                      /\ OnlyRaises(cache[d], cache'[d])
  PROVE  CacheOnlyRaises'
<1> SUFFICES ASSUME NEW d \in Conn, fresh'[d] PROVE OnlyRaises(stored'[d], cache'[d])
  <2>1. Typed' => (CacheOnlyRaises' <=> \A c \in Conn : fresh'[c] => OnlyRaises(stored'[c], cache'[c]))
    BY OnlyRaisesDef DEF Typed, CacheOnlyRaises
  <2> QED
    BY <2>1
<1>1. OnlyRaises(stored[d], cache[d]) /\ OnlyRaises(cache[d], cache'[d]) /\ stored'[d] = stored[d]
  BY CacheRaises
<1> QED
  BY <1>1 DEF OnlyRaises

\* In particular where nobody touches the cache.
LEMMA SameCache ==
  ASSUME Typed, Typed', CacheOnlyRaises, UNCHANGED cache,
         \A d \in Conn : fresh'[d] => fresh[d] /\ stored'[d] = stored[d]
  PROVE  CacheOnlyRaises'
<1>1. \A d \in Conn : OnlyRaises(cache[d], cache'[d])
  BY DEF OnlyRaises
<1> QED
  BY <1>1, StillRaises

-----------------------------------------------------------------------------
(* The steps.                                                               *)

LEMMA DowngradeKept ==
  ASSUME Typed, Typed', CacheOnlyRaises, Downgrade
  PROVE  CacheOnlyRaises' /\ \A d \in Conn : Kept(d)
<1> DEFINE c == writer.report[1]
           k == writer.report[2]
           o == Downgraded(stored[c], k)
<1>1. c \in Conn /\ k \in Child \cup {Whole} /\ cache' = cache /\ stored[c] \in Resource
  BY DEF Typed, Downgrade, Reports
<1>2. CASE UNCHANGED <<stored, fresh>>
  BY <1>1, <1>2, SameCache, SameIsKept
<1>3. CASE stored' = [stored EXCEPT ![c] = o] /\ fresh' = [fresh EXCEPT ![c] = fresh[c] /\ o = stored[c]]
  <2>1. Allowed(stored[c], o) /\ Named(o)
    <3>1. CASE k = Whole
      BY <1>1, <3>1, DowngradedOK DEF Allowed, Promise!Lower, Downgraded
    <3>2. CASE k \in Child
      <4>1. Named(o)
        BY <1>1, DowngradedOK
      <4>2. Allowed(stored[c], o)
        BY <3>2, WholeIsNone DEF Allowed, Promise!Lower, Downgraded
      <4> QED
        BY <4>1, <4>2
    <3> QED
      BY <1>1, <3>1, <3>2
  <2> HIDE DEF c, k, o
  <2>2. \A d \in Conn : fresh'[d] => fresh[d] /\ stored'[d] = stored[d]
    BY <1>1, <1>3 DEF Typed
  <2>3. \A d \in Conn : stored'[d] = IF d = c THEN o ELSE stored[d]
    BY <1>1, <1>3 DEF Typed
  <2>4. \A d \in Conn : Kept(d)
    BY <2>1, <2>3, SameIsKept DEF Kept
  <2> QED
    BY <1>1, <2>2, <2>4, SameCache
<1> QED
  BY <1>2, <1>3 DEF Downgrade

\* UpdateStatus writes the cached copies themselves, and so does the webhook.
LEMMA BeginKept ==
  ASSUME Typed, Typed', CacheOnlyRaises, Begin
  PROVE  CacheOnlyRaises' /\ \A d \in Conn : Kept(d)
<1>1. UNCHANGED cache
  BY DEF Begin
<1>2. CASE UNCHANGED <<stored, fresh, writer>>
  BY <1>1, <1>2, SameCache, SameIsKept
<1>3. CASE ~UNCHANGED <<stored, fresh, writer>>
  <2>1. /\ stored' = [c \in Conn |-> IF c \in Existing /\ fresh[c] THEN cache[c] ELSE stored[c]]
        /\ \A d \in Conn : fresh'[d] => fresh[d] /\ stored'[d] = stored[d]
    BY <1>3 DEF Begin
  <2>2. CacheOnlyRaises'
    BY <1>1, <2>1, SameCache
  <2>3. ASSUME NEW d \in Conn PROVE Kept(d)
    BY <2>1, SameIsKept DEF Kept
  <2> QED
    BY <2>2, <2>3
<1> QED
  BY <1>2, <1>3

LEMMA WriteKept ==
  ASSUME Typed, Typed', CacheOnlyRaises, NEW c \in Conn, Admit(c) \/ OtherWrite(c)
  PROVE  CacheOnlyRaises' /\ \A d \in Conn : Kept(d)
<1>1. UNCHANGED cache /\ Outdate(c)
  BY DEF Admit, OtherWrite
<1>2. /\ stored' = stored \/ (fresh[c] /\ stored' = [stored EXCEPT ![c] = cache[c]])
  BY DEF Admit, OtherWrite
<1>3. ~fresh'[c] /\ \A d \in Conn : d # c => fresh'[d] = fresh[d] /\ stored'[d] = stored[d]
  BY <1>1, <1>2, OutdateOK DEF Typed
<1>4. stored'[c] = stored[c] \/ (fresh[c] /\ stored'[c] = cache[c])
  BY <1>2 DEF Typed
<1>5. \A d \in Conn : Kept(d)
  BY <1>3, <1>4, SameIsKept DEF Kept
<1> QED
  BY <1>1, <1>3, <1>5, SameCache

\* The shared map only gets ahead of what is stored.
LEMMA TouchKept ==
  ASSUME Typed, Typed', CacheOnlyRaises, DoOptimistic \/ Raise
  PROVE  CacheOnlyRaises' /\ \A d \in Conn : Kept(d)
<1> DEFINE c == Head(todo).conn
<1>1. UNCHANGED <<stored, fresh>>
  BY DEF DoOptimistic, Raise
<1>2. \A d \in Conn : OnlyRaises(cache[d], cache'[d])
  <2>1. CASE UNCHANGED cache
    BY <2>1 DEF OnlyRaises
  <2>2. ASSUME NEW ks, cache' = [cache EXCEPT ![c] = Marked(cache[c], ks)], NEW d \in Conn
        PROVE  OnlyRaises(cache[d], cache'[d])
    <3>1. CASE d = c
      <4>1. cache[d] \in Resource /\ cache'[d] = Marked(cache[d], ks)
        BY <2>2, <3>1 DEF Typed
      <4> QED
        BY <4>1, MarkedOK DEF OnlyRaises
    <3>2. CASE d # c
      BY <2>2, <3>2 DEF Typed, OnlyRaises
    <3> QED
      BY <3>1, <3>2
  <2>3. CASE cache' = [cache EXCEPT ![c] = cache[c]]
    BY <2>3 DEF Typed, OnlyRaises
  <2> QED
    BY <2>1, <2>2, <2>3 DEF DoOptimistic, Raise, Touch
<1> QED
  BY <1>1, <1>2, StillRaises, SameIsKept

\* An update that is not refused is that of the stored version, raised.
LEMMA UpdateKept ==
  ASSUME RInv, Typed', Update
  PROVE  CacheOnlyRaises' /\ \A d \in Conn : Kept(d)
<1> USE DEF RInv, TInv
<1> DEFINE c == Head(todo).conn
           o == Proposed(Head(todo), cache[c])
<1>1. UNCHANGED cache
  BY DEF Update
<1>2. CASE UNCHANGED <<stored, fresh, writer>>
  BY <1>1, <1>2, SameCache, SameIsKept
<1>3. CASE c \in hand /\ Put(c, o)
  <2>1. c \in Conn /\ fresh[c] /\ cache[c] \in Resource
    BY <1>3 DEF InHand, Typed
  <2>2. Promise!Lift(cache[c], o) /\ OnlyRaises(stored[c], cache[c])
    BY <1>3, <2>1, ProposedIsLifted, CacheRaises DEF HandMade
  <2>3. Allowed(stored[c], o) /\ Named(o) /\ o \in Resource
    BY <2>1, <2>2, ProposedOK, LiftThroughCache DEF Allowed
  <2> HIDE DEF c, o
  <2>4. /\ \A d \in Conn : stored'[d] = IF d = c THEN o ELSE stored[d]
        /\ \A d \in Conn : fresh'[d] => fresh[d] /\ stored'[d] = stored[d]
    BY <1>3, <2>3, PutOK
  <2>5. \A d \in Conn : Kept(d)
    BY <2>3, <2>4, SameIsKept DEF Kept
  <2> QED
    BY <1>1, <2>4, <2>5, SameCache
<1> QED
  BY <1>2, <1>3 DEF Update

LEMMA EditKept ==
  ASSUME Typed, Typed', CacheOnlyRaises, NEW c \in Conn, NEW s \in SUBSET Child, Edit(c, s)
  PROVE  CacheOnlyRaises' /\ \A d \in Conn : Kept(d)
<1> DEFINE o == IF s = {} \/ stored[c].spec = {} THEN Unmonitored(s)
                ELSE [stored[c] EXCEPT !.spec = s]
<1>1. stored[c] \in Resource /\ Put(c, o) /\ UNCHANGED cache
  BY DEF Typed, Edit
<1>2. o \in Resource /\ Allowed(stored[c], o) /\ (Named(stored[c]) => Named(o))
  <2>1. CASE s = {} \/ stored[c].spec = {}
    <3>1. /\ Unmonitored(s) \in Resource /\ Promise!Blank(Unmonitored(s)) /\ Unmonitored(s).spec = s
          /\ Named(Unmonitored(s))
      BY DEF Unmonitored, Resource, ChildStates, Promise!Blank, Named
    <3> QED
      BY <2>1, <3>1 DEF Allowed, Promise!Respec
  <2>2. CASE ~(s = {} \/ stored[c].spec = {})
    <3>1. /\ o = [stored[c] EXCEPT !.spec = s] /\ o \in Resource /\ o.spec = s
          /\ o.state = stored[c].state /\ o.kids = stored[c].kids
      BY <1>1, <2>2 DEF Resource
    <3> HIDE DEF o
    <3> QED
      BY <3>1 DEF Allowed, Promise!Respec, Named
  <2> QED
    BY <2>1, <2>2
<1> HIDE DEF o
<1>3. /\ \A d \in Conn : stored'[d] = IF d = c THEN o ELSE stored[d]
      /\ \A d \in Conn : fresh'[d] => fresh[d] /\ stored'[d] = stored[d]
  BY <1>1, <1>2, PutOK
<1>4. \A d \in Conn : Kept(d)
  BY <1>2, <1>3, SameIsKept DEF Kept
<1> QED
  BY <1>1, <1>3, <1>4, SameCache

\* The cache is filled from what is stored.
LEMMA RefillRaises ==
  ASSUME Typed', UNCHANGED stored, CacheOnlyRaises,
         \A d \in Conn : cache'[d] = stored[d] \/ (cache'[d] = cache[d] /\ fresh'[d] = fresh[d])
  PROVE  CacheOnlyRaises'
BY DEF CacheOnlyRaises, Typed, Resource

LEMMA StepKept ==
  ASSUME RInv, TInv', [Next]_vars
  PROVE  CacheOnlyRaises' /\ \A d \in Conn : Kept(d)
<1>1. Typed /\ Typed' /\ CacheOnlyRaises
  BY DEF RInv, TInv
<1>2. CASE Downgrade \/ Begin \/ DoOptimistic \/ Raise \/ Update
  BY <1>1, <1>2, DowngradeKept, BeginKept, TouchKept, UpdateKept
<1>3. CASE \E c \in Conn : Admit(c) \/ OtherWrite(c) \/ (\E s \in SUBSET Child : Edit(c, s))
  BY <1>1, <1>3, WriteKept, EditKept
<1>4. CASE OperatorRestart \/ \E c \in Conn : Deliver(c)
  <2>1. /\ UNCHANGED stored
        /\ \A d \in Conn : cache'[d] = stored[d] \/ (cache'[d] = cache[d] /\ fresh'[d] = fresh[d])
    BY <1>1, <1>4 DEF OperatorRestart, Deliver, Typed
  <2> QED
    BY <1>1, <2>1, RefillRaises, SameIsKept
<1>5. CASE Poll \/ Pick \/ Diff \/ DoOverride \/ Call \/ Cut \/ Finish \/ Peers \/ UNCHANGED vars
  <2>1. UNCHANGED <<stored, cache, fresh>>
    BY <1>5 DEF Poll, Pick, Diff, DoOverride, Call, Cut, Finish, Peers, vars, crVars
  <2> QED
    BY <1>1, <2>1, SameCache, SameIsKept
<1> QED
  BY <1>2, <1>3, <1>4, <1>5 DEF Next, Pass, Restctl

\* Nobody takes the map away under an action that is half done: a version in hand
\* is the cached one, which is not delivered again.
LEMMA HandMadeNext == RInv /\ [Next]_vars => HandMade'
<1> SUFFICES ASSUME RInv, [Next]_vars PROVE HandMade'
  OBVIOUS
<1> USE DEF RInv, TInv, HandMade
<1>1. CASE \/ Poll \/ Pick \/ Peers \/ UNCHANGED vars \/ \E c \in Conn : Deliver(c)
  <2>1. UNCHANGED <<hand, todo>> /\ \A c \in Conn : fresh[c] => cache'[c] = cache[c]
    BY <1>1 DEF Poll, Pick, Peers, vars, crVars, operatorVars, passVars, Deliver, Typed
  <2> QED
    BY <2>1 DEF InHand
<1>2. CASE Downgrade \/ \E c \in Conn : Admit(c) \/ OtherWrite(c) \/ (\E s \in SUBSET Child : Edit(c, s))
  <2>1. hand' = {c \in hand : fresh'[c]} /\ UNCHANGED <<todo, cache>>
    BY <1>2 DEF Downgrade, Admit, OtherWrite, Edit, Overtaken, passVars
  <2> QED
    BY <2>1
<1>3. CASE Begin \/ Diff \/ DoOverride \/ Call \/ Update \/ Cut \/ Finish \/ OperatorRestart
  <2>1. hand' = {}
    BY <1>3 DEF InHand, Begin, Goto, Diff, DoOverride, Done, Stop, Call, Update, Cut, Finish, OperatorRestart
  <2> QED
    BY <2>1
<1>4. CASE DoOptimistic
  <2>1. Head(todo).do # "restart" /\ (hand' = {} \/ todo' = todo)
    BY <1>4 DEF DoOptimistic, Touch, Stop
  <2> QED
    BY <2>1
<1>5. CASE Raise
  <2> DEFINE c == Head(todo).conn
             o == Marked(cache[c], {Head(todo).child})
  <2>1. CASE hand' = {}
    BY <2>1
  <2>2. CASE hand' # {}
    <3>1. hand' = {d \in {c} : fresh[d]} /\ cache[c].made /\ cache' = [cache EXCEPT ![c] = o]
      BY <1>5, <2>2 DEF Raise, Touch, Stop
    <3>2. c \in Conn
      <4>1. todo # <<>> /\ Head(todo).do = "restart"
        BY <1>5 DEF Raise, Listed
      <4> QED
        BY <4>1, HeadIsAction
    <3>3. o.made = cache[c].made
      BY <3>2, MarkedOK DEF Typed
    <3> HIDE DEF c, o
    <3>4. cache'[c] = o
      BY <3>1, <3>2 DEF Typed
    <3> QED
      BY <3>1, <3>3, <3>4
  <2> QED
    BY <2>1, <2>2
<1> QED
  BY <1>1, <1>2, <1>3, <1>4, <1>5 DEF Next, Pass, Restctl

-----------------------------------------------------------------------------
(* The theorems.                                                            *)

LEMMA InitRaises == Init => RInv
<1> SUFFICES ASSUME Init, TInv PROVE RInv
  BY InitTyped
<1>1. CacheOnlyRaises
  BY DEF Init, TInv, Typed, Resource, CacheOnlyRaises
<1>2. HandMade
  BY DEF Init, HandMade
<1> QED
  BY <1>1, <1>2 DEF RInv

LEMMA NextRaises == RInv /\ [Next]_vars => RInv'
BY NextTyped, StepKept, HandMadeNext DEF RInv

\* Whatever updates are lost or still to come, an object of the cache that is not
\* outdated differs from the stored one in children it has as UP, and in nothing
\* else (actions.go:586, 619; deepcopy.go:58-64).
THEOREM CacheOnlyRaisesCorrect == Spec => []CacheOnlyRaises
BY InitRaises, NextRaises, PTL DEF Spec, RInv

\* Every step of the gateway is one of ConnectionStatus, or changes no status:
\* restctl's writer, the reconciler and the webhook together keep what it promises
\* (main.go:735-758, actions.go:553-624, mutating_webhook.go:174-180).
THEOREM StatusRefined == Spec => KeepsStatusPromise
<1>1. Init => Promise!Init
  <2>1. \A o : Promise!Blank(Unmonitored(o))
    BY DEF Unmonitored, Promise!Blank
  <2>2. Init => \A c \in Conn : stored[c] = Unmonitored(Spec0[c])
    BY DEF Init
  <2> QED
    BY <2>1, <2>2 DEF Promise!Init
<1>2. RInv /\ [Next]_vars => [Promise!Next]_stored
  <2> SUFFICES ASSUME RInv, [Next]_vars, NEW d \in Conn PROVE Allowed(stored[d], stored'[d])
    BY DEF Allowed, Promise!Next
  <2>1. Typed /\ CacheOnlyRaises /\ Kept(d)
    BY NextTyped, StepKept DEF RInv, TInv
  <2> QED
    BY <2>1, CacheRaises, CacheIsLifted DEF Kept, Allowed
<1> QED
  BY <1>1, <1>2, InitRaises, NextRaises, PTL DEF Spec, KeepsStatusPromise, Promise!Spec

\* A Degraded connection loses its last Down child to a write of the cached object
\* only, and only while the shared map is ahead of what is stored: between the
\* change of the map and its update, or after an update that failed
\* (actions.go:586-591, mutating_webhook.go:180, UpdateStatus).
THEOREM OnlySharedMapUnnamesCorrect == Spec => OnlySharedMapUnnames
<1> DEFINE A == \A c \in Conn : Named(stored[c]) /\ ~Named(stored'[c])
                  => fresh[c] /\ cache[c].kids # stored[c].kids /\ stored'[c].kids = cache[c].kids
<1>1. RInv /\ [Next]_vars => A
  <2> SUFFICES ASSUME RInv, [Next]_vars, NEW c \in Conn, Named(stored[c]), ~Named(stored'[c])
               PROVE  fresh[c] /\ cache[c].kids # stored[c].kids /\ stored'[c].kids = cache[c].kids
    OBVIOUS
  <2>1. Typed /\ CacheOnlyRaises /\ Kept(c)
    BY NextTyped, StepKept DEF RInv, TInv
  <2>2. fresh[c] /\ stored'[c] = cache[c]
    BY <2>1 DEF Kept
  <2>3. cache[c].state = stored[c].state
    BY <2>1, <2>2, CacheRaises DEF OnlyRaises
  <2> QED
    BY <2>2, <2>3 DEF Named
<1> QED
  BY <1>1, InitRaises, NextRaises, PTL DEF Spec, OnlySharedMapUnnames
=============================================================================
