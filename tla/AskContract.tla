---------------------------- MODULE AskContract ----------------------------
(***************************************************************************)
(* What the workflow engine promises to a script, with the scheduling left *)
(* out: every ask(...) call is one promise, a promise is answered at most  *)
(* once and never before it was made, and settling the run answers all the *)
(* promises that are still open.  AskScheduler.tla implements this module. *)
(***************************************************************************)
CONSTANT Ask    \* the ask(...) calls the script may make

VARIABLES
  run,          \* status of the run
  promise       \* what the script sees of each call

contractVars == <<run, promise>>

RunStatus == {"running", "completed", "stopped", "errored"}
Answer    == {"ok", "failed"}
Outcome   == {"none", "pending", "refused", "cancelled"} \cup Answer

Init ==
  /\ run = "running"
  /\ promise = [n \in Ask |-> "none"]

(* A call is taken on; the script now waits for it. *)
Call(n) ==
  /\ run = "running"
  /\ promise[n] = "none"
  /\ promise' = [promise EXCEPT ![n] = "pending"]
  /\ UNCHANGED run

(* A call that comes too late is refused on the spot. *)
Refuse(n) ==
  /\ run # "running"
  /\ promise[n] = "none"
  /\ promise' = [promise EXCEPT ![n] = "refused"]
  /\ UNCHANGED run

(* An open promise gets its answer. *)
Reply(n, answer) ==
  /\ run = "running"
  /\ promise[n] = "pending"
  /\ promise' = [promise EXCEPT ![n] = answer]
  /\ UNCHANGED run

(* The run settles, once.  R is the set of calls refused by the same step: *)
(* a malformed call fails the run that it was made in.                     *)
Settle(status, R) ==
  /\ run = "running"
  /\ \A n \in R : promise[n] = "none"
  /\ run' = status
  /\ promise' = [n \in Ask |-> IF promise[n] = "pending" THEN "cancelled"
                               ELSE IF n \in R THEN "refused"
                               ELSE promise[n]]

Next ==
  \/ \E n \in Ask : Call(n) \/ Refuse(n)
  \/ \E n \in Ask, answer \in Answer : Reply(n, answer)
  \/ \E status \in RunStatus \ {"running"}, R \in SUBSET Ask : Settle(status, R)

Spec == Init /\ [][Next]_contractVars
=============================================================================
