-------------------------- MODULE ConnectionStatus --------------------------
(***************************************************************************)
(* What the recorded status of the connections promises to its readers, as *)
(* if there were one copy of it: what has been reported Down stays so      *)
(* until it is raised, raising takes back nothing else that was reported,  *)
(* and a connection is declared UP only when none of its children is left  *)
(* Down.  Who writes, from which copy and how often does not appear here.  *)
(***************************************************************************)
CONSTANTS Conn, Child

VARIABLE status   \* connection -> spec, state, made and kids of its resource

Blank(o) == o.state = "" /\ ~o.made /\ \A k \in Child : o.kids[k] = "none"

Init == \A c \in Conn : Blank(status[c])

\* A failure of the connection, or of a child, is recorded.
Lower(o, p) ==
  \/ p = [o EXCEPT !.state = "Down"]
  \/ \E k \in Child : p = [o EXCEPT !.state = "Degraded", !.made = TRUE, !.kids[k] = "Down"]

\* Children are raised, the connection with them if no other one is Down.
Lift(o, p) ==
  /\ p.spec = o.spec
  /\ \A k \in Child : p.kids[k] \in {o.kids[k], "UP"}
  /\ \/ p.state = o.state /\ p.made = o.made
     \/ p.state = "UP" /\ p.made /\ \A k \in o.spec : p.kids[k] # "Down"

\* The spec is edited; a resource that comes or goes has no status.
Respec(o, p) ==
  \/ (o.spec = {} \/ p.spec = {}) /\ Blank(p)
  \/ p = [o EXCEPT !.spec = p.spec]

\* One step may concern several connections, each by itself.
Next ==
  \A c \in Conn :
    LET o == status[c] p == status'[c]
    IN  Lower(o, p) \/ Lift(o, p) \/ Respec(o, p)

Spec == Init /\ [][Next]_status
=============================================================================
