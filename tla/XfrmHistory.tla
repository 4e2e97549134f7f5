----------------------------- MODULE XfrmHistory -----------------------------
(***************************************************************************)
(* XfrmPod with a memory: what each xfrm pod was created with, and what    *)
(* has been put into its kernel since.  The program keeps no such record;  *)
(* its annotation of the pod is meant to be one, and is measured by it.    *)
(* And a memory of updates that the program does not know to have been     *)
(* made, for from then on it works with what is no longer true.            *)
(***************************************************************************)
EXTENDS XfrmPod

VARIABLES
  had,    \* the routes the pod was created with or has had in its kernel
  lost    \* an annotation was written, the answer lost, and no pass has begun
          \* with a cache that knows

hvars == <<vars, had, lost>>

\* A pod that comes or goes has its own record; that of a pod only grows.
Remember ==
  /\ had' = IF pod'.id # pod.id THEN pod'.note ELSE had \cup kernel'
  /\ lost' = \/ pod'.id = pod.id /\ pod'.note # pod.note /\ at' # "echo"
             \/ lost /\ ~(at' \in {"idle", "cut"} /\ fresh')

HInit == Init /\ had = {} /\ lost = FALSE
HNext == Next /\ Remember

HSpec     == HInit /\ [][HNext]_hvars
HFairSpec == HSpec /\ Fairness

-----------------------------------------------------------------------------
(* Properties.                                                              *)

\* The annotation names no route that this very pod was neither created with nor
\* ever given: not one whose request failed, and not one of a pod of the same name
\* before it, from whichever stale copy it is computed (actions.go:150-377 compute
\* it from a pod read earlier).  A route it names is never asked for again.
NotedWasHad == pod.note \subseteq had

\* An annotation says what the one before it said, but for the route in hand: it is
\* computed from a copy read before the request, and still never undoes another one
\* (updateXfrmSpecAnnotation, actions.go:294-328, waits until the cache shows it).
\* Not so after an update that was made although its answer was an error.
NotesAddUp ==
  [][pod'.id = pod.id /\ pod'.note # pod.note /\ ~lost
       => pod'.note = With(pod.note, Head(todo).do, Head(todo).route)]_hvars
=============================================================================
