---------------------------- MODULE AskScheduler ----------------------------
(***************************************************************************)
(* One life of a dynamic-workflow run: the engine's run life cycle         *)
(* (engine.ts, engine-settlement.ts) and the ask scheduler it drives       *)
(* (scheduler.ts, scheduler-submit.ts, scheduler-types.ts).                *)
(*                                                                         *)
(* A script asks subagents ("actors") for work.  Every ask is admitted to  *)
(* its actor's FIFO, dispatched when the actor is free and the run is      *)
(* below its concurrency cap, and settled by what the driver reports back. *)
(* The engine is single threaded: each action is one synchronous stretch   *)
(* of the code, from an entry point or a resumed await to the next return. *)
(*                                                                         *)
(* Calls here never hit the journal; WorkflowReplay.tla models the lives   *)
(* after a crash, in which they do.                                        *)
(*                                                                         *)
(* A definition marked "Fault:" is the one after it with a plausible bug   *)
(* seeded in it.  No action uses it: it is there to be put in the place of *)
(* the right one, to see that the properties can tell the difference.      *)
(***************************************************************************)
EXTENDS Integers, Sequences, FiniteSets

CONSTANTS
  Ask,              \* the ask instances (siteId@ordinal) the script may create
  NumActors,        \* actors are 1..NumActors, in the order they are created
  ActorOf,          \* the actor each ask is addressed to
  Typed,            \* the asks with a result schema
  InitCap,          \* caps.maxConcurrency of the new run
  Caps,             \* the values a retune may set it to
  REPAIR_ATTEMPTS,  \* rejected submits tolerated per ask
  NUDGE_ATTEMPTS,   \* turns without a submit tolerated per ask
  Metered,          \* bound: the asks whose usage the driver reports, once each
  NoAsk             \* actor.current = undefined

Actor == 1..NumActors

ASSUME SchedulerAssumption ==
  /\ NumActors \in Nat
  /\ ActorOf \in [Ask -> Actor]
  /\ Typed \subseteq Ask
  /\ Metered \subseteq Ask
  /\ Caps \subseteq Nat \ {0}
  /\ InitCap \in Caps
  /\ REPAIR_ATTEMPTS \in Nat
  /\ NUDGE_ATTEMPTS \in Nat
  /\ NoAsk \notin Ask

VARIABLES
  run,         \* running, or how the run settled
  cap,         \* caps.maxConcurrency
  registered,  \* number of actors created so far
  admitted,    \* per actor, its asks in the order of their actorSeq
  queue,       \* per actor, liveQueue: admitted and waiting for dispatch
  current,     \* per actor, the ask it is executing
  session,     \* per actor, the state of sessionPromise
  active,      \* activeAsks
  live,        \* liveNodes: admitted and not settled
  dispatched,  \* nodes handed to the driver with startAsk
  repairs,     \* repairsRemaining
  nudges,      \* nudgesRemaining
  promise,     \* the script's side of each ask
  row,         \* the journal row of each ask
  log,         \* the journalled events of each ask
  costed,      \* the asks whose journal row carries the usage of their turn
  turn,        \* the driver's side: is a turn running for the ask?
  actorRow,    \* the journal row of each actor: none, created, with session id
  spent,       \* the run's usage row: the asks it includes
  shown        \* the same of the last usage-updated event

runVars   == <<run, cap, registered>>
actorVars == <<queue, current, session, active>>
nodeVars  == <<live, dispatched, repairs, nudges, promise, row, log, costed, turn>>
books     == <<actorRow, spent, shown>>
vars      == <<runVars, admitted, actorVars, nodeVars, books>>

RunStatus    == {"running", "completed", "stopped", "errored"}
SessionState == {"none", "creating", "ready", "failed"}
AskEvent     == {"queued", "dispatched", "repairing", "nudged",
                 "ok", "failed", "cancelled"}

TypeOK ==
  /\ run \in RunStatus
  /\ cap \in Caps
  /\ registered \in 0..NumActors
  /\ admitted \in [Actor -> Seq(Ask)]
  /\ queue \in [Actor -> Seq(Ask)]
  /\ current \in [Actor -> Ask \cup {NoAsk}]
  /\ session \in [Actor -> SessionState]
  /\ active \in Nat
  /\ live \subseteq Ask
  /\ dispatched \subseteq Ask
  /\ repairs \in [Ask -> 0..REPAIR_ATTEMPTS]
  /\ nudges \in [Ask -> 0..NUDGE_ATTEMPTS]
  /\ promise \in [Ask -> {"none", "pending", "ok", "failed", "cancelled", "refused"}]
  /\ row \in [Ask -> {"none", "running", "completed", "failed"}]
  /\ log \in [Ask -> Seq(AskEvent)]
  /\ costed \subseteq Ask
  /\ turn \in [Ask -> {"none", "open", "closed"}]
  /\ actorRow \in [Actor -> {"none", "created", "session"}]
  /\ spent \subseteq Ask
  /\ shown \subseteq Ask

Init ==
  /\ run = "running"
  /\ cap = InitCap
  /\ registered = 0
  /\ admitted = [a \in Actor |-> <<>>]
  /\ queue = [a \in Actor |-> <<>>]
  /\ current = [a \in Actor |-> NoAsk]
  /\ session = [a \in Actor |-> "none"]
  /\ active = 0
  /\ live = {}
  /\ dispatched = {}
  /\ repairs = [n \in Ask |-> REPAIR_ATTEMPTS]
  /\ nudges = [n \in Ask |-> NUDGE_ATTEMPTS]
  /\ promise = [n \in Ask |-> "none"]
  /\ row = [n \in Ask |-> "none"]
  /\ log = [n \in Ask |-> <<>>]
  /\ costed = {}
  /\ turn = [n \in Ask |-> "none"]
  /\ actorRow = [a \in Actor |-> "none"]
  /\ spent = {}
  /\ shown = {}

Note(n, event) == log' = [log EXCEPT ![n] = Append(@, event)]

-----------------------------------------------------------------------------
(* Dispatch.                                                               *)

(* Fault: an actor is handed its next ask while it still has one. *)
PumpableBusy(q, c) == {a \in Actor : q[a] # <<>>}

(* Actors that could take on their next ask. *)
Pumpable(q, c) == {a \in Actor : c[a] = NoAsk /\ q[a] # <<>>}

(* Fault: the cap is off by one. *)
RoomShort(q, c, k, limit) ==
  LET free == IF k + 1 < limit THEN limit - k - 1 ELSE 0
  IN  IF free < Cardinality(Pumpable(q, c)) THEN free ELSE Cardinality(Pumpable(q, c))

(* The number of them that the cap lets through when k asks are active. *)
Room(q, c, k, limit) ==
  LET free == IF k < limit THEN limit - k ELSE 0
  IN  IF free < Cardinality(Pumpable(q, c)) THEN free ELSE Cardinality(Pumpable(q, c))

(* pumpAll: the actors are visited in creation order, and each that is free *)
(* takes the head of its queue as long as activeAsks is below the cap.      *)
(* dispatch runs up to its await within the same stretch, so an actor's     *)
(* first dispatch asks the driver for the session.                          *)
PumpAll(q, c, k, limit) ==
  \E P \in SUBSET Pumpable(q, c) :
    /\ Cardinality(P) = Room(q, c, k, limit)
    /\ \A a \in P : \A b \in Pumpable(q, c) \ P : a < b
    /\ queue' = [a \in Actor |-> IF a \in P THEN Tail(q[a]) ELSE q[a]]
    /\ current' = [a \in Actor |-> IF a \in P THEN Head(q[a]) ELSE c[a]]
    /\ session' = [a \in Actor |-> IF a \in P /\ session[a] = "none"
                                   THEN "creating" ELSE session[a]]
    /\ active' = k + Cardinality(P)

Held(n) == current[ActorOf[n]] = n

(* Fault: the place of a failed session is never given back. *)
ActiveWithoutLeaked(n) ==
  IF Held(n) /\ n \in dispatched THEN active - 1 ELSE active

(* finishLiveNode: activeAsks once the ask has left its actor. *)
ActiveWithout(n) == IF Held(n) THEN active - 1 ELSE active

(* Fault: the place is handed on although the cap was lowered meanwhile. *)
FinishLiveNodeHandsOn(n) ==
  PumpAll(queue,
          IF Held(n) THEN [current EXCEPT ![ActorOf[n]] = NoAsk] ELSE current,
          ActiveWithout(n),
          IF active > cap THEN active ELSE cap)

(* The actor is free again and its place goes to whoever waits. *)
FinishLiveNode(n) ==
  PumpAll(queue,
          IF Held(n) THEN [current EXCEPT ![ActorOf[n]] = NoAsk] ELSE current,
          ActiveWithout(n),
          cap)

(* The row of a settled ask is written as a whole, with node.lastStats. *)
CostedWith(n) == IF n \in spent THEN costed \cup {n} ELSE costed

(* settleOk / settleFailed with finishLiveNode: the outcome is journalled,  *)
(* the actor freed, its place given to whoever waits, the promise answered. *)
SettleNode(n, answer) ==
  /\ live' = live \ {n}
  /\ row' = [row EXCEPT ![n] = IF answer = "ok" THEN "completed" ELSE "failed"]
  /\ costed' = CostedWith(n)
  /\ Note(n, answer)
  /\ promise' = [promise EXCEPT ![n] = answer]
  /\ FinishLiveNode(n)

(* abortInFlight: the turn of every dispatched ask in flight is cancelled. *)
TurnsCancelled == [n \in Ask |-> IF n \in live \cap dispatched THEN "closed" ELSE turn[n]]

(* markSettled, abortInFlight, finishRun: every ask in flight is rejected,  *)
(* its turn cancelled if it has one, and the run takes its final status.    *)
SettleRun(status, emitCancelled) ==
  /\ run = "running"
  /\ run' = status
  /\ turn' = TurnsCancelled
  /\ log' = [n \in Ask |-> IF n \in live /\ emitCancelled
                           THEN Append(log[n], "cancelled") ELSE log[n]]
  /\ live' = {}
  /\ active' = 0

(* Fault: a rejection by the end of the run is reported as a result. *)
RejectedAsFailed(status) == [n \in Ask |-> IF n \in live THEN "failed" ELSE promise[n]]

(* Fault: only the asks that were dispatched are rejected. *)
RejectedIfDispatched(status) ==
  [n \in Ask |-> IF n \in live \cap dispatched THEN status ELSE promise[n]]

Rejected(status) == [n \in Ask |-> IF n \in live THEN status ELSE promise[n]]

-----------------------------------------------------------------------------
(* Calls of the script (Boundary A).                                       *)

CreateActor ==
  /\ run = "running"
  /\ registered < NumActors
  /\ registered' = registered + 1
  /\ actorRow' = [actorRow EXCEPT ![registered + 1] = "created"]
  /\ UNCHANGED <<run, cap, admitted, actorVars, nodeVars, spent, shown>>

(* A fresh ask of a known actor: it gets the actor's next actorSeq and a    *)
(* running row, joins the actor's queue and is dispatched if it may be.     *)
AdmitAsk(n) ==
  LET a == ActorOf[n]
  IN /\ run = "running"
     /\ promise[n] = "none"
     /\ a <= registered
     /\ admitted' = [admitted EXCEPT ![a] = Append(@, n)]
     /\ live' = live \cup {n}
     /\ row' = [row EXCEPT ![n] = "running"]
     /\ Note(n, "queued")
     /\ promise' = [promise EXCEPT ![n] = "pending"]
     /\ PumpAll([queue EXCEPT ![a] = Append(@, n)], current, active, cap)
     /\ UNCHANGED <<runVars, dispatched, repairs, nudges, costed, turn, books>>

(* An ask whose actor handle is unknown breaks the contract with the script *)
(* and fails the run.                                                       *)
AskUnknownActor(n) ==
  /\ promise[n] = "none"
  /\ ActorOf[n] > registered
  /\ SettleRun("errored", FALSE)
  /\ promise' = [Rejected("cancelled") EXCEPT ![n] = "refused"]
  /\ UNCHANGED <<cap, registered, admitted, queue, current, session,
                 dispatched, repairs, nudges, row, costed, books>>

AskAfterSettled(n) ==
  /\ run # "running"
  /\ promise[n] = "none"
  /\ promise' = [promise EXCEPT ![n] = "refused"]
  /\ UNCHANGED <<runVars, admitted, actorVars, live, dispatched, repairs,
                 nudges, row, log, costed, turn, books>>

-----------------------------------------------------------------------------
(* The run settles: the script returned, somebody stopped the run, or it   *)
(* failed.  The first to come wins.                                        *)

EndRun(status, emitCancelled) ==
  /\ SettleRun(status, emitCancelled)
  /\ promise' = Rejected("cancelled")
  /\ UNCHANGED <<cap, registered, admitted, queue, current, session,
                 dispatched, repairs, nudges, row, costed, books>>

(* Fault: completion is taken to mean that no ask is in flight. *)
CompleteSilently == EndRun("completed", FALSE)

Complete == EndRun("completed", TRUE)
Stop     == EndRun("stopped", TRUE)
FailRun  == EndRun("errored", FALSE)

(* Fault: the queues are not rescanned when the cap is raised. *)
SetMaxConcurrencyOnly(c) ==
  /\ run = "running"
  /\ c # cap
  /\ cap' = c
  /\ UNCHANGED <<run, registered, admitted, actorVars, nodeVars, books>>

(* A retune in place.  Raising the cap rescans the queues at once; lowering *)
(* it recalls nobody.                                                       *)
SetMaxConcurrency(c) ==
  /\ run = "running"
  /\ c # cap
  /\ cap' = c
  /\ IF c > cap THEN PumpAll(queue, current, active, c) ELSE UNCHANGED actorVars
  /\ UNCHANGED <<run, registered, admitted, nodeVars, books>>

-----------------------------------------------------------------------------
(* The driver (Boundary B).  createActorSession settles some time later,   *)
(* and a session's id is journalled whatever has become of the run;        *)
(* dispatch resumes after that.                                            *)

CreateActorSession(a, result) ==
  /\ session[a] = "creating"
  /\ session' = [session EXCEPT ![a] = result]
  /\ actorRow' = IF result = "ready" THEN [actorRow EXCEPT ![a] = "session"] ELSE actorRow
  /\ UNCHANGED <<runVars, admitted, queue, current, active, nodeVars, spent, shown>>

Awaiting(n) ==
  /\ Held(n)
  /\ n \notin dispatched
  /\ n \in live

(* The dispatch after the await: with a session the turn starts, without   *)
(* one the ask fails and the failure stays with the actor's later asks.    *)
StartAsk(n) ==
  /\ run = "running"
  /\ Awaiting(n)
  /\ session[ActorOf[n]] = "ready"
  /\ Note(n, "dispatched")
  /\ dispatched' = dispatched \cup {n}
  /\ turn' = [turn EXCEPT ![n] = "open"]
  /\ UNCHANGED <<runVars, admitted, actorVars, live, repairs, nudges, promise, row,
                 costed, books>>

SessionFailed(n) ==
  /\ run = "running"
  /\ Awaiting(n)
  /\ session[ActorOf[n]] = "failed"
  /\ SettleNode(n, "failed")
  /\ UNCHANGED <<runVars, admitted, dispatched, repairs, nudges, turn, books>>

(* The driver may report on any ask it was given, also on one that the run *)
(* has settled meanwhile; such a report finds no live node and is ignored. *)
Reported(n) == n \in dispatched

(* A turn ends once; there is nothing to report of it before it began. *)
Over(n) == turn[n] = "open"

SubmitAccepted(n) ==
  /\ Reported(n) /\ n \in live
  /\ n \in Typed
  /\ turn' = [turn EXCEPT ![n] = "closed"]
  /\ SettleNode(n, "ok")
  /\ UNCHANGED <<runVars, admitted, dispatched, repairs, nudges, books>>

(* A submit that violates the schema goes back for repair within the turn, *)
(* until the repair budget is spent: then the turn is cancelled.           *)
SubmitRejected(n) ==
  /\ Reported(n) /\ n \in live
  /\ n \in Typed
  /\ repairs[n] > 0
  /\ repairs' = [repairs EXCEPT ![n] = @ - 1]
  /\ Note(n, "repairing")
  /\ UNCHANGED <<runVars, admitted, actorVars, live, dispatched, nudges,
                 promise, row, costed, turn, books>>

SubmitExhausted(n) ==
  /\ Reported(n) /\ n \in live
  /\ n \in Typed
  /\ repairs[n] = 0
  /\ turn' = [turn EXCEPT ![n] = "closed"]
  /\ SettleNode(n, "failed")
  /\ UNCHANGED <<runVars, admitted, dispatched, repairs, nudges, books>>

(* The turn ended.  Its text is the result of an untyped ask; a typed ask  *)
(* is nudged with a new turn, and fails once the nudges are used up.       *)
TurnAnswers(n) ==
  /\ Over(n) /\ n \in live
  /\ n \notin Typed
  /\ turn' = [turn EXCEPT ![n] = "closed"]
  /\ SettleNode(n, "ok")
  /\ UNCHANGED <<runVars, admitted, dispatched, repairs, nudges, books>>

(* Fault: the nudge is counted and recorded, but no turn begins with it. *)
TurnNudgedDropped(n) ==
  /\ Over(n) /\ n \in live
  /\ n \in Typed
  /\ nudges[n] > 0
  /\ nudges' = [nudges EXCEPT ![n] = @ - 1]
  /\ Note(n, "nudged")
  /\ turn' = [turn EXCEPT ![n] = "closed"]
  /\ UNCHANGED <<runVars, admitted, actorVars, live, dispatched, repairs,
                 promise, row, costed, books>>

TurnNudged(n) ==
  /\ Over(n) /\ n \in live
  /\ n \in Typed
  /\ nudges[n] > 0
  /\ nudges' = [nudges EXCEPT ![n] = @ - 1]
  /\ Note(n, "nudged")
  /\ turn' = [turn EXCEPT ![n] = "open"]
  /\ UNCHANGED <<runVars, admitted, actorVars, live, dispatched, repairs,
                 promise, row, costed, books>>

TurnWithoutResult(n) ==
  /\ Over(n) /\ n \in live
  /\ n \in Typed
  /\ nudges[n] = 0
  /\ turn' = [turn EXCEPT ![n] = "closed"]
  /\ SettleNode(n, "failed")
  /\ UNCHANGED <<runVars, admitted, dispatched, repairs, nudges, books>>

AskFailed(n) ==
  /\ Over(n) /\ n \in live
  /\ turn' = [turn EXCEPT ![n] = "closed"]
  /\ SettleNode(n, "failed")
  /\ UNCHANGED <<runVars, admitted, dispatched, repairs, nudges, books>>

(* Fault: the usage is announced whatever has become of the run. *)
AskStatsAnnounced(n) ==
  /\ Reported(n)
  /\ n \in Metered \ spent
  /\ spent' = spent \cup {n}
  /\ shown' = spent'
  /\ costed' = IF n \in live THEN costed ELSE costed \cup {n}
  /\ UNCHANGED <<runVars, admitted, actorVars, live, dispatched, repairs, nudges,
                 promise, row, log, turn, actorRow>>

(* The usage of a turn.  It often comes after the submit that settled the  *)
(* ask, or after the run; it is accounted all the same.  While the ask is  *)
(* live it waits for the row of the outcome, later it is added to the row. *)
(* It is announced only while the run is.                                  *)
AskStats(n) ==
  /\ Reported(n)
  /\ n \in Metered \ spent
  /\ spent' = spent \cup {n}
  /\ shown' = IF run = "running" THEN spent' ELSE shown
  /\ costed' = IF n \in live THEN costed ELSE costed \cup {n}
  /\ UNCHANGED <<runVars, admitted, actorVars, live, dispatched, repairs, nudges,
                 promise, row, log, turn, actorRow>>

-----------------------------------------------------------------------------
Submit(n)    == SubmitAccepted(n) \/ SubmitRejected(n) \/ SubmitExhausted(n)
TurnEnded(n) == TurnAnswers(n) \/ TurnNudged(n) \/ TurnWithoutResult(n)
Dispatch(n)  == StartAsk(n) \/ SessionFailed(n)
AnySession(a) == \E result \in {"ready", "failed"} : CreateActorSession(a, result)

Next ==
  \/ CreateActor
  \/ \E n \in Ask : AdmitAsk(n) \/ AskUnknownActor(n) \/ AskAfterSettled(n)
  \/ \E n \in Ask : Dispatch(n) \/ Submit(n) \/ TurnEnded(n) \/ AskFailed(n) \/ AskStats(n)
  \/ \E a \in Actor : AnySession(a)
  \/ \E c \in Caps : SetMaxConcurrency(c)
  \/ Complete \/ Stop \/ FailRun

(* The driver contract: a session request is answered, a resumed dispatch  *)
(* runs, and every turn ends or fails.  Nothing obliges the script to call *)
(* or to return, a model to submit, or a user to stop or retune the run.   *)
Fairness ==
  /\ \A a \in Actor : WF_vars(AnySession(a))
  /\ \A n \in Ask : WF_vars(Dispatch(n)) /\ WF_vars(TurnEnded(n) \/ AskFailed(n))

Spec == Init /\ [][Next]_vars

FairSpec == Spec /\ Fairness
-----------------------------------------------------------------------------
(* What must hold.                                                         *)

Settled == {"ok", "failed", "cancelled"}

Busy == {a \in Actor : current[a] # NoAsk}

(* While the run is alive, activeAsks is exactly the number of actors that *)
(* hold an ask.  The counter and the actors' current are written in three  *)
(* places (pumpActor, finishLiveNode, abortInFlight); if they part, the    *)
(* run loses concurrency for good or exceeds its cap.                      *)
ActiveCountsBusy == run = "running" => active = Cardinality(Busy)

(* No lost wakeup: nobody waits in a queue while its actor is free and the *)
(* cap leaves room.  Only settlements, fresh asks and a raised cap rescan  *)
(* the queues, so each of them must do it.                                 *)
WorkConserving == run = "running" => Pumpable(queue, current) = {} \/ active >= cap

(* An actor works through its asks one at a time in the order of their     *)
(* actorSeq: those before the first queued one are settled, except at most *)
(* the last, which is then the actor's current ask.                        *)
SerialActors ==
  run = "running" =>
    \A a \in Actor :
      LET begun == Len(admitted[a]) - Len(queue[a])
      IN /\ begun >= 0
         /\ queue[a] = SubSeq(admitted[a], begun + 1, Len(admitted[a]))
         /\ \A i \in 1..begun :
              admitted[a][i] \in live <=> (i = begun /\ current[a] = admitted[a][i])

(* A subagent's turn runs exactly while the engine still waits for it: no  *)
(* turn is left burning tokens for an ask that is over, and no ask that    *)
(* was handed to the driver waits for a turn that is gone.                 *)
TurnsMatchLive == \A n \in Ask : turn[n] = "open" <=> n \in live \cap dispatched

(* What the script has seen is what the journal will replay to it: an      *)
(* answer is journalled before the promise is answered, and an ask whose   *)
(* promise is open, or was rejected with the run, can be run again.  The   *)
(* row of an answer also has what it cost, if that was reported: before it *)
(* was written or since.                                                   *)
JournalMatchesScript ==
  \A n \in Ask :
    /\ promise[n] = "ok" <=> row[n] = "completed"
    /\ promise[n] = "failed" <=> row[n] = "failed"
    /\ promise[n] \in {"pending", "cancelled"} <=> row[n] = "running"
    /\ promise[n] \in {"ok", "failed"} => (n \in costed <=> n \in spent)

(* The events of an ask tell one story: queued first, at most one end and  *)
(* nothing after it, repairs and nudges only once dispatched.  When a run  *)
(* completes or is stopped no ask is left without its end.                 *)
EventsTellOneStory ==
  \A n \in Ask :
    LET l == log[n]
    IN l # <<>> =>
         /\ l[1] = "queued"
         /\ \A i \in DOMAIN l : l[i] = "dispatched" => i = 2
         /\ \A i \in DOMAIN l : l[i] \in {"repairing", "nudged"} => l[2] = "dispatched"
         /\ \A i \in DOMAIN l : l[i] \in Settled => i = Len(l)
         /\ run \in {"completed", "stopped"} => l[Len(l)] \in Settled

(* Once settled, a run stays as it settled: no ask is started or changes   *)
(* its outcome, and run-settled is the last of the events.  What comes in  *)
(* late is only booked: the id of a session that took too long, and the    *)
(* usage of a turn, are added to their rows and nothing is taken back.     *)
NothingAfterSettled ==
  [][run # "running" =>
       /\ UNCHANGED <<run, cap, registered, row, log, shown, live, turn>>
       /\ spent \subseteq spent' /\ costed \subseteq costed'
       /\ \A a \in Actor : \/ actorRow'[a] = actorRow[a]
                           \/ actorRow[a] = "created" /\ actorRow'[a] = "session"]_vars

(* No step starts an ask beyond the cap in force after it, whichever of    *)
(* the rescans started it: also not a settlement that gives the place it   *)
(* freed to another ask after the cap was lowered.                         *)
CapRespected ==
  [][run' = "running" /\ (\E a \in Actor : current'[a] \notin {NoAsk, current[a]})
       => active' <= cap']_vars

(* Every ask the engine took on is answered in the end, if only with the   *)
(* end of the run.                                                         *)
EveryAskSettles == \A n \in Ask : promise[n] = "pending" ~> promise[n] # "pending"

(* The scheduler keeps the engine's contract with the script.              *)
Contract == INSTANCE AskContract
ImplementsContract == Contract!Spec
=============================================================================
