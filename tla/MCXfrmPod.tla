----------------------------- MODULE MCXfrmPod -----------------------------
(* Small instances of XfrmPod with its history: a route of each kind.       *)
EXTENDS XfrmHistory, TLC

CONSTANTS lo, re, fd

KindOf == lo :> "local" @@ re :> "remote" @@ fd :> "fdb"
=============================================================================
