----------------------------- MODULE MCSeatGate -----------------------------
(* Instances of SeatGate for TLC: which actor each ask goes to.            *)
EXTENDS SeatGate, TLC

CONSTANTS k1, k2, k3

\* One ask for each actor.
OneEach == (k1 :> 1) @@ (k2 :> 2) @@ (k3 :> 3)
=============================================================================
