------------------------------- MODULE IpPool -------------------------------
(***************************************************************************)
(* What the allocation of addresses promises to the pods of a connection:  *)
(* an address is handed to one request at a time, and may be handed out    *)
(* again once its holder let go of it.  For a suspect address nothing is   *)
(* promised; addresses become suspect, never sound again.                  *)
(***************************************************************************)
CONSTANTS IP, NoIP, Req

VARIABLES
  owner,     \* the address each request holds
  suspect    \* addresses given out from state known to be wrong

poolVars == <<owner, suspect>>

Init ==
  /\ owner = [r \in Req |-> NoIP]
  /\ suspect = {}

Holders(a) == {r \in Req : owner[r] = a}

\* Request r is given address a, held by no one unless it is suspect.
Assign(r, a) ==
  /\ owner[r] = NoIP
  /\ Holders(a) = {} \/ a \in suspect
  /\ owner' = [owner EXCEPT ![r] = a]
  /\ UNCHANGED suspect

\* Any number of requests let go at once (time passed, or a restart).
Release(s) ==
  /\ owner' = [r \in Req |-> IF r \in s THEN NoIP ELSE owner[r]]
  /\ UNCHANGED suspect

Suspect(a) ==
  /\ suspect' = suspect \cup {a}
  /\ UNCHANGED owner

Next ==
  \/ \E r \in Req, a \in IP : Assign(r, a)
  \/ \E s \in SUBSET Req : Release(s)
  \/ \E a \in IP : Suspect(a)

Spec == Init /\ [][Next]_poolVars

\* Follows from Spec.
Exclusive == \A r, q \in Req :
  r # q /\ owner[r] = owner[q] /\ owner[r] # NoIP => owner[r] \in suspect
=============================================================================
