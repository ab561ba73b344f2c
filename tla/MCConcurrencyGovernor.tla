----------------------- MODULE MCConcurrencyGovernor -----------------------
(* Instances of ConcurrencyGovernor for TLC: whose the clients are.        *)
EXTENDS ConcurrencyGovernor, TLC

CONSTANTS A, B, a1, a2, b1, m1

\* A fan-out of two, a small run, and the main agent.
Owners == (a1 :> A) @@ (a2 :> A) @@ (b1 :> B) @@ (m1 :> Observer)
OwnersOf == [r \in Req |-> Owners[r]]
=============================================================================
