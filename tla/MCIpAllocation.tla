--------------------------- MODULE MCIpAllocation ---------------------------
(* Small instances of IpAllocation: one pool with one address or two.       *)
EXTENDS IpAllocation, TLC

CONSTANTS a1, a2, r1, r2, d1, p1

OnePool      == p1 :> {a1, a2}
OneAddress   == p1 :> {a1}
OnePoolOf    == [r \in Req |-> p1]

Symmetry == Permutations({a1, a2}) \cup Permutations({r1, r2})
RequestSymmetry == Permutations({r1, r2})
=============================================================================
