--------------------------- MODULE MCAskScheduler ---------------------------
(* Instances of AskScheduler for TLC: which actor each ask goes to.        *)
EXTENDS AskScheduler, TLC

CONSTANTS k1, k2, k3, k4

\* Three actors compete for the cap; on the third two asks queue up.
ThreeActors == (k1 :> 1) @@ (k2 :> 2) @@ (k3 :> 3) @@ (k4 :> 3)
=============================================================================
