------------------------ MODULE ConcurrencyGovernor ------------------------
(***************************************************************************)
(* The process-wide concurrency governor, one bucket of it                 *)
(* (bootstrap/src/app/workflow-concurrency-governor.ts): every attempt of  *)
(* a model request, of any run, acquires a ticket here before it is sent   *)
(* and settles it with what became of it.  Requests that find the gate     *)
(* closed queue up per run, and the runs take turns.  The main agent's     *)
(* requests pass without queueing but count as in flight.                  *)
(*                                                                         *)
(* drain() admits waiters in a loop that nothing can interrupt.  Each turn *)
(* of the loop is a step of its own here, and while draining holds no      *)
(* other action is enabled.  The fan-out of cap changes to the runs'       *)
(* listeners is left out; buckets of different keys share nothing.         *)
(***************************************************************************)
EXTENDS ConcurrencyController, OnceSequences, FiniteSets

CONSTANTS
  Run,         \* the workflow runs
  Observer,    \* the main agent, in the place of a run
  Req,         \* the clients; each has at most one request at a time
  RunOf,       \* whose they are
  Abortable,   \* the clients that may be cancelled while they wait
  Cooldowns    \* the Retry-After values providers send; 0 for none

ASSUME GovernorAssumption ==
  /\ Observer \notin Run
  /\ IsFiniteSet(Req)
  /\ RunOf \in [Req -> Run \cup {Observer}]
  /\ Cooldowns \subseteq 0..MaxRetryAfter

VARIABLES
  ctl,       \* the bucket's controller
  phase,     \* of each client: idle, missed (it found the gate closed and is
             \* about to queue), waiting, or in flight (current, outdated)
  queue,     \* per run, its waiting requests
  order,     \* the runs with waiters, in the order the Map keeps its keys
  last,      \* lastGrantedRun
  wake,      \* time until the cooldown timer fires, None when not armed
  draining   \* drain() is in its loop

vars == <<ctl, phase, queue, order, last, wake, draining>>

Waiting  == {r \in Req : phase[r] = "waiting"}
InFlight == {r \in Req : phase[r] \in {"current", "outdated"}}

TypeOK ==
  /\ ctl \in Controller /\ ~ctl.paged
  /\ phase \in [Req -> {"idle", "missed", "waiting", "current", "outdated"}]
  /\ queue \in [Run -> Seq(Req)]
  /\ order \in Seq(Run)
  /\ last \in Run \cup {Observer, None}
  /\ wake \in {None} \cup 0..MaxRetryAfter
  /\ draining \in BOOLEAN

Init ==
  /\ ctl = New
  /\ phase = [r \in Req |-> "idle"]
  /\ queue = [run \in Run |-> <<>>]
  /\ order = <<>>
  /\ last = None
  /\ wake = None
  /\ draining = FALSE

-----------------------------------------------------------------------------
Keep(c) == ctl' = [c EXCEPT !.paged = FALSE]

(* ph once the controller got to c: a new page outdates what is in flight. *)
Turned(c, ph) ==
  IF c.paged THEN [r \in Req |-> IF ph[r] = "current" THEN "outdated" ELSE ph[r]]
  ELSE ph

(* observe, admitted, and the ticket of the epoch admitted returned. *)
Grant(c, r) ==
  LET d == Admitted(Observe(c))
  IN /\ Keep(d)
     /\ phase' = [Turned(d, phase) EXCEPT ![r] = "current"]
     /\ last' = RunOf[r]

(* Map.set on a run that has no queue puts it last; a queue that ran empty *)
(* is deleted.                                                             *)
Enqueued(run) == IF queue[run] = <<>> THEN Append(order, run) ELSE order

(* Fault: an empty queue is left in the Map. *)
LeftEmpty(run, q) == order

Left(run, q) == IF q = <<>> THEN Without(order, run) ELSE order

(* Fault: the run served last is served again as long as it has waiters. *)
NextRunSticky == order[IF IndexOf(order, last) = 0 THEN 1 ELSE IndexOf(order, last)]

(* The run after the one that was granted last, from the first if that one *)
(* has no waiters.                                                         *)
NextRunWithWaiters == order[(IndexOf(order, last) % Len(order)) + 1]

Armed(c, count) == IF count = 0 THEN None ELSE c.cool

(* drain starts with an observe of its own. *)
DrainFrom(c, ph) ==
  /\ Keep(Observe(c))
  /\ phase' = Turned(Observe(c), ph)
  /\ draining' = TRUE

-----------------------------------------------------------------------------
(* Requests of the runs: a fast path when the gate is open and nobody      *)
(* waits (tryAdmit), else the queue (admit).  The two are called from      *)
(* admitAttempt.                                                           *)

(* Fault: the fast path does not look at the queues. *)
TryAdmitAnyway(r) ==
  /\ ~draining
  /\ RunOf[r] \in Run /\ phase[r] = "idle"
  /\ CanAdmit(Observe(ctl))
  /\ Grant(Observe(ctl), r)
  /\ UNCHANGED <<queue, order, wake, draining>>

TryAdmit(r) ==
  /\ ~draining
  /\ RunOf[r] \in Run /\ phase[r] = "idle"
  /\ Waiting = {} /\ CanAdmit(Observe(ctl))
  /\ Grant(Observe(ctl), r)
  /\ UNCHANGED <<queue, order, wake, draining>>

(* The gate is closed or somebody waits.  The request announces that it    *)
(* queues, which takes an await; the gate may have opened by the time it   *)
(* gets in line.                                                           *)
Miss(r) ==
  /\ ~draining
  /\ RunOf[r] \in Run /\ phase[r] = "idle"
  /\ ~(Waiting = {} /\ CanAdmit(Observe(ctl)))
  /\ Keep(Observe(ctl))
  /\ phase' = Turned(Observe(ctl), [phase EXCEPT ![r] = "missed"])
  /\ UNCHANGED <<queue, order, last, wake, draining>>

(* Fault: a request that joins the queue waits for the next settlement. *)
AdmitWithoutDrain(r) ==
  /\ ~draining
  /\ phase[r] = "missed"
  /\ queue' = [queue EXCEPT ![RunOf[r]] = Append(@, r)]
  /\ order' = Enqueued(RunOf[r])
  /\ phase' = [phase EXCEPT ![r] = "waiting"]
  /\ Keep(Waiters(ctl, Cardinality(Waiting) + 1))
  /\ UNCHANGED <<last, wake, draining>>

Admit(r) ==
  /\ ~draining
  /\ phase[r] = "missed"
  /\ queue' = [queue EXCEPT ![RunOf[r]] = Append(@, r)]
  /\ order' = Enqueued(RunOf[r])
  /\ DrainFrom(ctl, [phase EXCEPT ![r] = "waiting"])
  /\ UNCHANGED <<last, wake>>

(* A request that was cancelled before it got in line. *)
AdmitAborted(r) ==
  /\ ~draining
  /\ r \in Abortable /\ phase[r] = "missed"
  /\ phase' = [phase EXCEPT ![r] = "idle"]
  /\ UNCHANGED <<ctl, queue, order, last, wake, draining>>

(* The main agent's requests are granted whatever the gate says. *)
ObserverAcquire(r) ==
  /\ ~draining
  /\ RunOf[r] = Observer /\ phase[r] = "idle"
  /\ Grant(ctl, r)
  /\ UNCHANGED <<queue, order, wake, draining>>

(* onAbort: a waiting request is withdrawn. *)
Abort(r) ==
  /\ ~draining
  /\ r \in Abortable /\ phase[r] = "waiting"
  /\ LET q == Without(queue[RunOf[r]], r)
         c == Waiters(ctl, Cardinality(Waiting \ {r}))
     IN /\ queue' = [queue EXCEPT ![RunOf[r]] = q]
        /\ order' = Left(RunOf[r], q)
        /\ Keep(c)
        /\ phase' = Turned(c, [phase EXCEPT ![r] = "idle"])
        /\ wake' = Armed(c, Cardinality(Waiting \ {r}))
  /\ UNCHANGED <<last, draining>>

(* Fault: a ticket that is settled already is settled again by its release. *)
SettleAgain(r, c) ==
  /\ ~draining
  /\ phase[r] \in {"idle", "current", "outdated"}
  /\ DrainFrom(c, Turned(c, [phase EXCEPT ![r] = "idle"]))
  /\ UNCHANGED <<queue, order, last, wake>>

(* settle: the first terminal event of the attempt, or its release, tells  *)
(* the controller and lets waiters in.  Later ones are ignored.            *)
Settle(r, c) ==
  /\ ~draining
  /\ r \in InFlight
  /\ DrainFrom(c, Turned(c, [phase EXCEPT ![r] = "idle"]))
  /\ UNCHANGED <<queue, order, last, wake>>

Completes(r) == Settle(r, Succeeded(ctl, phase[r] = "current"))
Throttles(r, retryAfter) == Settle(r, Throttled(ctl, phase[r] = "current", retryAfter))
Fails(r)     == Settle(r, FailedTransient(ctl))
Releases(r)  == Settle(r, Ended(ctl))

(* The loop of drain: admit a waiter, or leave. *)
Drainable == CanAdmit(Waiters(ctl, Cardinality(Waiting))) /\ order # <<>>

DrainGrant ==
  /\ draining
  /\ Drainable
  /\ LET run == NextRunWithWaiters
     IN /\ queue' = [queue EXCEPT ![run] = Tail(@)]
        /\ order' = Left(run, Tail(queue[run]))
        /\ Grant(Waiters(ctl, Cardinality(Waiting)), Head(queue[run]))
  /\ UNCHANGED <<wake, draining>>

DrainEnd ==
  /\ draining
  /\ ~Drainable
  /\ LET c == Waiters(ctl, Cardinality(Waiting))
     IN /\ Keep(c)
        /\ phase' = Turned(c, phase)
        /\ wake' = Armed(c, Cardinality(Waiting))
  /\ draining' = FALSE
  /\ UNCHANGED <<queue, order, last>>

(* The timer fires, possibly late. *)
Wake ==
  /\ ~draining
  /\ wake = 0
  /\ wake' = None
  /\ DrainFrom(ctl, phase)
  /\ UNCHANGED <<queue, order, last>>

Tick ==
  /\ ~draining
  /\ ctl' = Elapsed(ctl)
  /\ wake' = IF wake > 0 THEN wake - 1 ELSE wake
  /\ UNCHANGED <<phase, queue, order, last, draining>>

Settles(r) == \/ Completes(r) \/ Fails(r) \/ Releases(r)
              \/ \E retryAfter \in Cooldowns : Throttles(r, retryAfter)

Next ==
  \/ \E r \in Req : \/ TryAdmit(r) \/ Miss(r) \/ Admit(r) \/ AdmitAborted(r) \/ Abort(r)
                    \/ ObserverAcquire(r) \/ Settles(r)
  \/ DrainGrant \/ DrainEnd \/ Wake \/ Tick

(* drain runs to its end, timers fire, time passes, and an attempt is      *)
(* released at the latest when it is over.  The last three are strong,     *)
(* because drains may come in between again and again: the event loop      *)
(* serves its timers and its I/O in turn.                                  *)
Fairness ==
  /\ WF_vars(DrainGrant \/ DrainEnd)
  /\ SF_vars(Wake)
  /\ SF_vars(Tick)
  /\ \A r \in Req : SF_vars(Settles(r))

Spec == Init /\ [][Next]_vars

FairSpec == Spec /\ Fairness
-----------------------------------------------------------------------------
(* What must hold.                                                         *)

(* The learnt cap stays between one probe and the ceiling, and the level   *)
(* to fall back to is never above it: falling back always lowers the cap.  *)
CapSound ==
  /\ ctl.cap \in FLOOR..Ceiling
  /\ ctl.lastGood <= ctl.cap

(* The controller counts exactly the tickets that are out and, outside of  *)
(* drain, exactly the requests that wait.  Every signal moves a count, and *)
(* the clamp at zero would hide a ticket settled twice.                    *)
CountsExact ==
  /\ ctl.inFlight = Cardinality(InFlight)
  /\ ~draining => ctl.waiters = Cardinality(Waiting)

(* The queues hold the waiting requests, each once and under its run, and  *)
(* the rotation goes over exactly the runs that have some.                 *)
QueuesMatchWaiting ==
  /\ \A run \in Run :
       /\ {queue[run][i] : i \in DOMAIN queue[run]} = {r \in Waiting : RunOf[r] = run}
       /\ Len(queue[run]) = Cardinality({r \in Waiting : RunOf[r] = run})
  /\ {order[i] : i \in DOMAIN order} = {run \in Run : queue[run] # <<>>}
  /\ Len(order) = Cardinality({run \in Run : queue[run] # <<>>})

(* One batch, one verdict: requests that were sent under one cap lower it  *)
(* at most once, however many of them are throttled.                       *)
OneCutPerEpoch ==
  [][ctl'.cap < ctl.cap =>
       /\ \E r \in Req : phase[r] = "current" /\ phase'[r] = "idle"
       /\ \A r \in Req : phase'[r] # "current"]_vars

(* A run's request is let out only below the cap and outside a cooldown,   *)
(* and on the fast path only when nobody queues.                           *)
GateRespected ==
  [][\A r \in Req :
       r \notin InFlight /\ r \in InFlight' /\ RunOf[r] # Observer =>
         /\ ctl'.inFlight <= ctl'.cap
         /\ ctl'.cool <= 0
         /\ phase[r] = "idle" => Waiting = {}]_vars

(* No lost wakeup: as long as somebody waits, a request is in flight whose *)
(* end will let it in, or the timer for the end of the cooldown is set.    *)
NoLostWakeup == ~draining /\ Waiting # {} => InFlight # {} \/ wake # None

(* A run's waiting request is let out in the end. *)
EveryRequestServed == \A r \in Req : phase[r] = "waiting" ~> phase[r] # "waiting"
=============================================================================
