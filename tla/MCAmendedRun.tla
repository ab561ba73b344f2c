---------------------------- MODULE MCAmendedRun ----------------------------
(* Instances of AmendedRun for TLC: what the predecessor left.             *)
EXTENDS AmendedRun, TLC

CONSTANTS reader, x, y, run

Answer(h, p) == [hash |-> h, pure |-> p]

\* What the journal of the predecessor may come to hold: two answers of the
\* reader, the second of them after a look at the world, then an interrupted
\* ask, and one result of the command.
Left == [a \in Actor |-> <<Answer(x, TRUE), Answer(y, FALSE)>>]
LeftOpen == [a \in Actor |-> x]
LeftCalls == [k \in Key |-> 1]

\* The first answer is there from the start; the second is, too, as soon as the
\* predecessor was resumed and went on (MoreAnswers).  Until then the ask that
\* leads to it is the interrupted one.
MCInit == Init /\ answered = [a \in Actor |-> 1]

MCSpec == MCInit /\ [][Next]_vars
=============================================================================
