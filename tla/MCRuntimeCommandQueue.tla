----------------------- MODULE MCRuntimeCommandQueue -----------------------
(* A session with a prompt, two notices and a control turn, and a queued   *)
(* prompt, a queued compaction and a queued goal that compete to be sent   *)
(* now.                                                                    *)
EXTENDS RuntimeCommandQueue

CONSTANTS p1, q1, k1, g1, n1, n2, c1

OnePrompt   == {p1}
ThreePromoted == {q1, k1, g1}
OneCompact  == {k1}
OneGoal     == {g1}
TwoNotes    == {n1, n2}
OneControl  == {c1}

\* Not everything comes at once: each time some have been turned away before
\* (states that Init reaches).
MCInit == AtRest({k1, n2}) \/ AtRest({p1, q1}) \/ AtRest({g1})

MCSpec == MCInit /\ [][Next]_vars /\ Fairness
=============================================================================
