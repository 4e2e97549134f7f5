------------------------------- MODULE Charon -------------------------------
(***************************************************************************)
(* The IKE daemon of one charon group (strongSwan, external), and what the *)
(* handlers of restctl (cmd/restctl/main.go) read from it and do to it     *)
(* over vici and swanctl.  A connection and a child are numbers, in the    *)
(* order of their names.                                                   *)
(***************************************************************************)
EXTENDS Integers, FiniteSets

CONSTANTS
  Conn,        \* connections
  Child,       \* names of children
  Answering    \* the connections whose peer answers

ASSUME CharonAssumption ==
  /\ Conn \subseteq Nat /\ Child \subseteq Nat /\ Answering \subseteq Conn
  /\ IsFiniteSet(Conn) /\ IsFiniteSet(Child)

VARIABLES
  loaded,    \* connection -> children of its loaded config, {}: not loaded
  ike,       \* connections with an IKE SA
  sa         \* <<connection, child>> pairs with a CHILD SA

charonVars == <<loaded, ike, sa>>

IsLoaded(c) == loaded[c] # {}

CharonInit ==
  /\ loaded = [c \in Conn |-> {}]
  /\ ike = {}
  /\ sa = {}

CharonType ==
  /\ loaded \in [Conn -> SUBSET Child]
  /\ ike \in SUBSET Conn
  /\ sa \in SUBSET (Conn \X Child)
  /\ \A p \in sa : p[1] \in ike

-----------------------------------------------------------------------------
(* What the daemon and its peers do of their own accord.                    *)

Connect(c, k) ==
  /\ ike' = ike \cup {c}
  /\ sa'  = sa \cup {<<c, k>>}
  /\ UNCHANGED loaded

\* start_action, traps, dpd_action, or the peer bring a child up.
ComeUp(c, k) ==
  /\ k \in loaded[c] /\ <<c, k>> \notin sa /\ c \in Answering
  /\ Connect(c, k)

LoseChild(c, k) ==
  /\ <<c, k>> \in sa
  /\ sa' = sa \ {<<c, k>>}
  /\ UNCHANGED <<loaded, ike>>

\* An IKE SA goes with all its CHILD SAs.
LoseIke(c) ==
  /\ c \in ike
  /\ ike' = ike \ {c}
  /\ sa'  = {p \in sa : p[1] # c}
  /\ UNCHANGED loaded

\* A restarted daemon has neither configs nor SAs.
Crash ==
  /\ loaded' = [c \in Conn |-> {}]
  /\ ike' = {} /\ sa' = {}

-----------------------------------------------------------------------------
(* restctl.                                                                 *)

\* No child: the connection as a whole.
Whole == -1



\* checkStatus: loaded connections without an IKE SA, and the children without
\* a CHILD SA of the others.
Failures ==
  {<<c, Whole>> : c \in {d \in Conn : IsLoaded(d) /\ d \notin ike}}
    \cup {p \in Conn \X Child : p[1] \in ike /\ p[2] \in loaded[p[1]] /\ p \notin sa}

ChildFailed(c, k) == <<c, k>> \in Failures \/ <<c, Whole>> \in Failures

\* getConfigs answers with the connections of the IKE SAs, not of the configs.
Configs == ike

\* reloadConfig: unload what is not wanted, unless nothing is wanted at all,
\* then load the connections `accepted' of those wanted (a secret or a config
\* may be refused).  SAs survive the unloading of their config.
Reload(configs, accepted) ==
  /\ loaded' = [c \in Conn |->
       IF c \in accepted THEN configs[c]
       ELSE IF configs[c] = {} /\ \E d \in Conn : configs[d] # {} THEN {}
       ELSE loaded[c]]
  /\ UNCHANGED <<ike, sa>>
=============================================================================
