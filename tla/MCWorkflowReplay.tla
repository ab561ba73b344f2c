-------------------------- MODULE MCWorkflowReplay --------------------------
(* Instances of WorkflowReplay for TLC: the script.                        *)
EXTENDS WorkflowReplay, TLC

CONSTANTS b1, b2, b3, own, other, shared, worker, reviewer

To(s, a) == [site |-> s, actor |-> a]

\* Two branches end with a call of the same site; the second and the third
\* work with the same actor.
Started == <<b1, b2, b3>>
Fork == (b1 :> <<To(own, reviewer), To(shared, reviewer)>>)
        @@ (b2 :> <<To(other, worker), To(shared, reviewer)>>)
        @@ (b3 :> <<To(own, worker)>>)
=============================================================================
