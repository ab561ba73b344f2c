--------------------- MODULE ConcurrencyGovernorProofs ---------------------
(***************************************************************************)
(* Theorems about ConcurrencyController and ConcurrencyGovernor, for any   *)
(* ceiling, thresholds, runs and clients.                                  *)
(*                                                                         *)
(* The first part is about the controller alone: what each signal does to  *)
(* a controller that is in order.  The second part carries that through    *)
(* the governor, and adds what the counts need: that the queues hold       *)
(* waiting requests and nothing else, each of them once, so that a grant   *)
(* always moves one request from the queues into flight.                   *)
(***************************************************************************)
EXTENDS ConcurrencyGovernor, OnceSequencesProofs, FiniteSetTheorems

USE ControllerAssumption

(* The ranges of a controller's fields, by name: whether a record stays in *)
(* Controller is then a question about each new value alone.               *)
Caps    == FLOOR..Ceiling
Streaks == 0..SUCCESSES
Quiets  == {None} \cup 0..IDLE
Cools   == {None} \cup 0..MaxRetryAfter
Goods   == 0..Ceiling

LEMMA Record ==
  Controller = [cap: Caps, inFlight: Nat, waiters: Nat, streak: Streaks, quiet: Quiets,
                cool: Cools, lastGood: Goods, lastBad: BOOLEAN, paged: BOOLEAN]
BY DEF Controller, Caps, Streaks, Quiets, Cools, Goods

LEMMA Fields ==
  ASSUME NEW c \in Controller
  PROVE  /\ c.cap \in Caps /\ c.inFlight \in Nat /\ c.waiters \in Nat /\ c.streak \in Streaks
         /\ c.quiet \in Quiets /\ c.cool \in Cools /\ c.lastGood \in Goods
         /\ c.lastBad \in BOOLEAN /\ c.paged \in BOOLEAN
BY Record

LEMMA Defaults ==
  /\ Ceiling \in Caps /\ 0 \in Streaks /\ 0 \in Quiets /\ None \in Cools /\ 0 \in Goods
  /\ FALSE \in BOOLEAN /\ TRUE \in BOOLEAN
BY DEF Caps, FLOOR, Streaks, Quiets, Cools, Goods

(* A controller in order: well typed, and falling back lowers the cap. *)
Sound(c) == c \in Controller /\ c.lastGood <= c.cap

(* What a signal may do to a controller besides taking delta requests out  *)
(* of flight.                                                              *)
Signalled(c, d, delta) ==
  Sound(d) /\ d.inFlight = c.inFlight - delta /\ d.waiters = c.waiters

LEMMA IdleResetSound ==
  ASSUME NEW c, Sound(c)
  PROVE  Signalled(c, IdleReset(c), 0)
<1>c. c \in Controller /\ c.inFlight \in Nat  BY Fields DEF Sound
<1>1. CASE Idle(c) /\ ~Pristine(c)
  <2> DEFINE d == [c EXCEPT !.cap = Ceiling, !.streak = 0, !.cool = None, !.lastGood = 0,
                            !.lastBad = FALSE, !.paged = TRUE]
  <2>1. d \in Controller  BY <1>c, Defaults, Record
  <2>2. d.cap = Ceiling /\ d.lastGood = 0 /\ d.inFlight = c.inFlight /\ d.waiters = c.waiters
    BY <1>c, Record
  <2>3. IdleReset(c) = d  BY <1>1 DEF IdleReset
  <2> QED  BY <2>1, <2>2, <1>c, <2>3 DEF Signalled, Sound
<1>2. CASE ~(Idle(c) /\ ~Pristine(c))
  BY <1>2, <1>c DEF IdleReset, Signalled
<1> QED  BY <1>1, <1>2

LEMMA ReleasedSound ==
  ASSUME NEW c, Sound(c), c.inFlight > 0
  PROVE  Signalled(c, Released(c), 1)
<1> DEFINE d == IdleReset(c)
           n == IF d.inFlight > 0 THEN d.inFlight - 1 ELSE 0
           e == [d EXCEPT !.inFlight = n]
<1>1. Signalled(c, d, 0) /\ c.inFlight \in Nat  BY IdleResetSound, Fields DEF Sound
<1>2. d \in Controller /\ n \in Nat /\ n = c.inFlight - 1
  BY <1>1 DEF Signalled, Sound
<1>3. Released(c) = e  BY DEF Released
<1> HIDE DEF d, n
<1>4. e \in Controller  BY <1>2, Record
<1>5. e.inFlight = n /\ e.waiters = d.waiters /\ e.cap = d.cap /\ e.lastGood = d.lastGood
  BY <1>2, Record
<1> QED  BY <1>1, <1>2, <1>3, <1>4, <1>5 DEF Signalled, Sound

LEMMA SucceededSound ==
  ASSUME NEW c, Sound(c), c.inFlight > 0, NEW isCurrent
  PROVE  Signalled(c, Succeeded(c, isCurrent), 1)
<1> DEFINE d       == Released(c)
           counted == isCurrent /\ ~d.paged
           full    == counted /\ d.streak + 1 >= SUCCESSES
           climb   == full /\ d.waiters > 0 /\ d.cap < Ceiling
           streak  == IF climb THEN 0 ELSE IF full THEN SUCCESSES
                      ELSE IF counted THEN d.streak + 1 ELSE d.streak
           good    == IF full /\ d.cap > d.lastGood THEN d.cap ELSE d.lastGood
           cap     == IF climb THEN d.cap + 1 ELSE d.cap
           e       == [d EXCEPT !.streak = streak, !.lastGood = good, !.cap = cap]
<1>1. Signalled(c, d, 1)  BY ReleasedSound
<1>2. Succeeded(c, isCurrent) = e  BY DEF Succeeded
<1>3. d \in Controller /\ d.lastGood <= d.cap  BY <1>1 DEF Signalled, Sound
<1> HIDE DEF d
<1>4. /\ d.cap \in Caps /\ d.streak \in Streaks /\ d.lastGood \in Goods
  BY <1>3, Fields
<1>5. streak \in Streaks  BY <1>4 DEF Streaks
<1>6. good \in Goods /\ cap \in Caps /\ good <= cap
  BY <1>3, <1>4 DEF Goods, Caps, FLOOR
<1> HIDE DEF streak, good, cap
<1>7. e \in Controller  BY <1>3, <1>5, <1>6, Record
<1>8. e.cap = cap /\ e.lastGood = good /\ e.inFlight = d.inFlight /\ e.waiters = d.waiters
  BY <1>3, Record
<1> QED  BY <1>1, <1>2, <1>6, <1>7, <1>8 DEF Signalled, Sound

LEMMA ReducedInRange ==
  ASSUME NEW cap \in Caps
  PROVE  Reduced(cap) \in Caps
BY DEF Reduced, Caps, FLOOR

(* Throttling never lowers the cap below one nor leaves lastGood above it. *)
LEMMA ThrottledSound ==
  ASSUME NEW c, Sound(c), c.inFlight > 0, NEW isCurrent, NEW retryAfter \in 0..MaxRetryAfter
  PROVE  Signalled(c, Throttled(c, isCurrent, retryAfter), 1)
<1> DEFINE d       == Released(c)
           verdict == isCurrent /\ ~d.paged
           probing == d.lastGood # 0 /\ d.cap > d.lastGood
           cool    == IF retryAfter > 0 /\ retryAfter > d.cool THEN retryAfter ELSE d.cool
           cap     == IF ~verdict THEN d.cap
                      ELSE IF probing THEN d.lastGood ELSE Reduced(d.cap)
           good    == IF verdict /\ ~probing THEN 0 ELSE d.lastGood
           bad     == d.lastBad \/ verdict
           paged   == d.paged \/ verdict
           e       == [d EXCEPT !.streak = 0, !.cool = cool, !.cap = cap, !.lastGood = good,
                                !.lastBad = bad, !.paged = paged]
<1>1. Signalled(c, d, 1)  BY ReleasedSound
<1>2. Throttled(c, isCurrent, retryAfter) = e  BY DEF Throttled
<1>3. d \in Controller /\ d.lastGood <= d.cap  BY <1>1 DEF Signalled, Sound
<1> HIDE DEF d
<1>4. /\ d.cap \in Caps /\ d.cool \in Cools /\ d.lastGood \in Goods
  BY <1>3, Fields
<1>5. cool \in Cools /\ 0 \in Streaks  BY <1>4, Defaults DEF Cools
<1>6. Reduced(d.cap) \in Caps  BY <1>4, ReducedInRange
<1>7. good \in Goods /\ cap \in Caps /\ good <= cap
  BY <1>3, <1>4, <1>6 DEF Goods, Caps, FLOOR
<1>8. bad \in BOOLEAN /\ paged \in BOOLEAN  OBVIOUS
<1> HIDE DEF cool, cap, good, bad, paged
<1>9. e \in Controller  BY <1>3, <1>5, <1>7, <1>8, Record
<1>10. e.cap = cap /\ e.lastGood = good /\ e.inFlight = d.inFlight /\ e.waiters = d.waiters
  BY <1>3, Record
<1> QED  BY <1>1, <1>2, <1>7, <1>9, <1>10 DEF Signalled, Sound

LEMMA EndedSound ==
  ASSUME NEW c, Sound(c), c.inFlight > 0
  PROVE  Signalled(c, FailedTransient(c), 1) /\ Signalled(c, Ended(c), 1)
<1> DEFINE d == Released(c)
           e == [d EXCEPT !.streak = 0]
<1>1. Signalled(c, d, 1)  BY ReleasedSound
<1>2. d \in Controller  BY <1>1 DEF Signalled, Sound
<1>3. FailedTransient(c) = e /\ Ended(c) = d  BY DEF FailedTransient, Ended
<1> HIDE DEF d
<1>4. e \in Controller  BY <1>2, Defaults, Record
<1>5. e.cap = d.cap /\ e.lastGood = d.lastGood /\ e.inFlight = d.inFlight /\ e.waiters = d.waiters
  BY <1>2, Record
<1> QED  BY <1>1, <1>3, <1>4, <1>5 DEF Signalled, Sound

LEMMA AdmittedSound ==
  ASSUME NEW c, Sound(c)
  PROVE  Sound(Admitted(c)) /\ Admitted(c).inFlight = c.inFlight + 1 /\ Admitted(c).waiters = c.waiters
<1> DEFINE n == c.inFlight + 1
           e == [c EXCEPT !.quiet = 0, !.inFlight = n]
<1>1. c \in Controller /\ c.lastGood <= c.cap  BY DEF Sound
<1>2. n \in Nat /\ 0 \in Quiets  BY <1>1, Fields, Defaults
<1>3. Admitted(c) = e  BY DEF Admitted
<1> HIDE DEF n
<1>4. e \in Controller  BY <1>1, <1>2, Record
<1>5. e.cap = c.cap /\ e.lastGood = c.lastGood /\ e.inFlight = n /\ e.waiters = c.waiters
  BY <1>1, Record
<1> QED  BY <1>1, <1>3, <1>4, <1>5 DEF Sound, n

LEMMA WaitersSound ==
  ASSUME NEW c, Sound(c), NEW n \in Nat
  PROVE  /\ Sound(Waiters(c, n))
         /\ Waiters(c, n).inFlight = c.inFlight /\ Waiters(c, n).waiters = n
<1> DEFINE d == IdleReset(c)
           e == [d EXCEPT !.waiters = n]
<1>1. Signalled(c, d, 0) /\ c.inFlight \in Nat  BY IdleResetSound, Fields DEF Sound
<1>2. d \in Controller  BY <1>1 DEF Signalled, Sound
<1>3. Waiters(c, n) = e  BY DEF Waiters
<1> HIDE DEF d
<1>4. e \in Controller  BY <1>2, Record
<1>5. e.cap = d.cap /\ e.lastGood = d.lastGood /\ e.inFlight = d.inFlight /\ e.waiters = n
  BY <1>2, Record
<1> QED  BY <1>1, <1>3, <1>4, <1>5 DEF Signalled, Sound

LEMMA ElapsedSound ==
  ASSUME NEW c, Sound(c)
  PROVE  Signalled(c, Elapsed(c), 0)
<1> DEFINE quiet == IF c.quiet \in 0..(IDLE - 1) THEN c.quiet + 1 ELSE c.quiet
           cool  == IF c.cool > 0 THEN c.cool - 1 ELSE c.cool
           e     == [c EXCEPT !.quiet = quiet, !.cool = cool]
<1>1. c \in Controller /\ c.inFlight \in Nat /\ c.quiet \in Quiets /\ c.cool \in Cools
  BY Fields DEF Sound
<1>2. quiet \in Quiets  BY <1>1 DEF Quiets, None
<1>3. cool \in Cools  BY <1>1 DEF Cools, None
<1>4. Elapsed(c) = e  BY DEF Elapsed
<1> HIDE DEF quiet, cool
<1>5. e \in Controller  BY <1>1, <1>2, <1>3, Record
<1>6. e.cap = c.cap /\ e.lastGood = c.lastGood /\ e.inFlight = c.inFlight /\ e.waiters = c.waiters
  BY <1>1, Record
<1> QED  BY <1>1, <1>4, <1>5, <1>6 DEF Signalled, Sound

(* The end of every step: the page that was turned is turned. *)
LEMMA KeepSound ==
  ASSUME NEW c, Sound(c), Keep(c)
  PROVE  /\ Sound(ctl') /\ ~ctl'.paged
         /\ ctl'.inFlight = c.inFlight /\ ctl'.waiters = c.waiters
<1> DEFINE e == [c EXCEPT !.paged = FALSE]
<1>1. c \in Controller /\ c.lastGood <= c.cap  BY DEF Sound
<1>2. ctl' = e  BY DEF Keep
<1>3. e \in Controller  BY <1>1, Defaults, Record
<1>4. /\ e.cap = c.cap /\ e.lastGood = c.lastGood /\ ~e.paged
      /\ e.inFlight = c.inFlight /\ e.waiters = c.waiters
  BY <1>1, Record
<1> QED  BY <1>1, <1>2, <1>3, <1>4 DEF Sound
-----------------------------------------------------------------------------
(* The governor.  The inductive invariant says of the queues what          *)
(* QueuesMatchWaiting says, with "once" in the place of the cardinalities. *)

PhaseType == [Req -> {"idle", "missed", "waiting", "current", "outdated"}]

WaitingIn(ph) == {r \in Req : ph[r] = "waiting"}
FlyingIn(ph)  == {r \in Req : ph[r] \in {"current", "outdated"}}

Queued ==
  /\ \A run \in Run : Elems(queue[run]) = {r \in Waiting : RunOf[r] = run} /\ Once(queue[run])
  /\ Elems(order) = {run \in Run : queue[run] # <<>>} /\ Once(order)

(* Only the runs' requests are held back at the gate. *)
HeldBack(ph) == {r \in Req : ph[r] \in {"missed", "waiting"}}

OfRuns == \A r \in HeldBack(phase) : RunOf[r] \in Run

Core == TypeOK /\ CapSound /\ CountsExact /\ Queued

GInv == Core /\ OfRuns

(* What a step has to establish of the controller and the phases. *)
CtlOK ==
  /\ Sound(ctl) /\ ~ctl.paged
  /\ phase \in PhaseType
  /\ ctl.inFlight = Cardinality(InFlight)

LEMMA SubsetsFinite ==
  ASSUME NEW T \in SUBSET Req
  PROVE  IsFiniteSet(T) /\ Cardinality(T) \in Nat
BY GovernorAssumption, FS_Subset, FS_CardinalityType

LEMMA TurnedKeeps ==
  ASSUME NEW c, NEW ph \in PhaseType
  PROVE  /\ Turned(c, ph) \in PhaseType
         /\ WaitingIn(Turned(c, ph)) = WaitingIn(ph)
         /\ FlyingIn(Turned(c, ph)) = FlyingIn(ph)
<1>1. CASE c.paged
  <2> DEFINE t == [r \in Req |-> IF ph[r] = "current" THEN "outdated" ELSE ph[r]]
  <2>1. Turned(c, ph) = t  BY <1>1 DEF Turned
  <2>2. t \in PhaseType  BY DEF PhaseType
  <2>3. \A r \in Req : /\ t[r] = "waiting" <=> ph[r] = "waiting"
                       /\ t[r] \in {"current", "outdated"} <=> ph[r] \in {"current", "outdated"}
    OBVIOUS
  <2> QED  BY <2>1, <2>2, <2>3 DEF WaitingIn, FlyingIn
<1>2. CASE ~c.paged  BY <1>2 DEF Turned
<1> QED  BY <1>1, <1>2

(* A grant moves one request into flight, out of the queues if it was there. *)
LEMMA GrantSound ==
  ASSUME NEW c, Sound(c), phase \in PhaseType, c.inFlight = Cardinality(InFlight),
         NEW r \in Req, r \notin InFlight, Grant(c, r)
  PROVE  /\ CtlOK' /\ ctl'.waiters = c.waiters
         /\ Waiting' = Waiting \ {r} /\ InFlight' = InFlight \cup {r}
         /\ last' = RunOf[r]
<1> DEFINE o == Observe(c)
           d == Admitted(o)
           t == Turned(d, phase)
<1>1. Signalled(c, o, 0)  BY IdleResetSound DEF Observe
<1>2. c.inFlight \in Nat  BY SubsetsFinite DEF InFlight
<1>3. Sound(d) /\ d.inFlight = c.inFlight + 1 /\ d.waiters = c.waiters
  BY <1>1, <1>2, AdmittedSound DEF Signalled
<1>4. Keep(d) /\ phase' = [t EXCEPT ![r] = "current"] /\ last' = RunOf[r]
  BY DEF Grant
<1>5. /\ t \in PhaseType /\ WaitingIn(t) = WaitingIn(phase) /\ FlyingIn(t) = FlyingIn(phase)
  BY TurnedKeeps
<1> HIDE DEF d, t
<1>6. Sound(ctl') /\ ~ctl'.paged /\ ctl'.inFlight = c.inFlight + 1 /\ ctl'.waiters = c.waiters
  BY <1>3, <1>4, KeepSound
<1>7. phase' \in PhaseType /\ Waiting' = Waiting \ {r} /\ InFlight' = InFlight \cup {r}
  BY <1>4, <1>5 DEF PhaseType, Waiting, InFlight, WaitingIn, FlyingIn
<1>8. Cardinality(InFlight \cup {r}) = Cardinality(InFlight) + 1
  BY SubsetsFinite, FS_AddElement DEF InFlight
<1> QED  BY <1>4, <1>6, <1>7, <1>8 DEF CtlOK

(* Observing, with or without entering drain, leaves the counts alone. *)
LEMMA ObserveKept ==
  ASSUME NEW c, Sound(c), NEW ph \in PhaseType, c.inFlight = Cardinality(FlyingIn(ph)),
         Keep(Observe(c)), phase' = Turned(Observe(c), ph)
  PROVE  /\ CtlOK' /\ ctl'.waiters = c.waiters
         /\ Waiting' = WaitingIn(ph) /\ InFlight' = FlyingIn(ph)
<1> DEFINE o == Observe(c)
           t == Turned(o, ph)
<1>1. Signalled(c, o, 0)  BY IdleResetSound DEF Observe
<1>2. c.inFlight \in Nat  BY SubsetsFinite DEF FlyingIn
<1>3. Keep(o) /\ phase' = t  OBVIOUS
<1>4. /\ t \in PhaseType /\ WaitingIn(t) = WaitingIn(ph) /\ FlyingIn(t) = FlyingIn(ph)
  BY TurnedKeeps
<1> HIDE DEF o, t
<1>5. Sound(ctl') /\ ~ctl'.paged /\ ctl'.inFlight = c.inFlight /\ ctl'.waiters = c.waiters
  BY <1>1, <1>2, <1>3, KeepSound DEF Signalled
<1>6. Waiting' = WaitingIn(ph) /\ InFlight' = FlyingIn(ph)
  BY <1>3, <1>4 DEF Waiting, InFlight, WaitingIn, FlyingIn
<1> QED  BY <1>3, <1>4, <1>5, <1>6 DEF CtlOK

LEMMA DrainFromSound ==
  ASSUME NEW c, Sound(c), NEW ph \in PhaseType, c.inFlight = Cardinality(FlyingIn(ph)),
         DrainFrom(c, ph)
  PROVE  CtlOK' /\ Waiting' = WaitingIn(ph) /\ InFlight' = FlyingIn(ph) /\ draining'
BY ObserveKept DEF DrainFrom

(* A signal that only updates the waiters. *)
LEMMA WaitersKept ==
  ASSUME Sound(ctl), NEW n \in Nat, NEW ph \in PhaseType,
         ctl.inFlight = Cardinality(FlyingIn(ph)),
         Keep(Waiters(ctl, n)), phase' = Turned(Waiters(ctl, n), ph)
  PROVE  CtlOK' /\ ctl'.waiters = n /\ Waiting' = WaitingIn(ph) /\ InFlight' = FlyingIn(ph)
<1> DEFINE w == Waiters(ctl, n)
           t == Turned(w, ph)
<1>1. Sound(w) /\ w.inFlight = ctl.inFlight /\ w.waiters = n  BY WaitersSound
<1>2. /\ t \in PhaseType /\ WaitingIn(t) = WaitingIn(ph) /\ FlyingIn(t) = FlyingIn(ph)
  BY TurnedKeeps
<1>3. Keep(w) /\ phase' = t  OBVIOUS
<1> HIDE DEF w, t
<1>4. Sound(ctl') /\ ~ctl'.paged /\ ctl'.inFlight = ctl.inFlight /\ ctl'.waiters = n
  BY <1>1, <1>3, KeepSound
<1>5. Waiting' = WaitingIn(ph) /\ InFlight' = FlyingIn(ph)
  BY <1>2, <1>3 DEF Waiting, InFlight, WaitingIn, FlyingIn
<1> QED  BY <1>2, <1>3, <1>4, <1>5 DEF CtlOK

LEMMA ArmedType ==
  ASSUME NEW c, Sound(c), NEW n
  PROVE  Armed(c, n) \in {None} \cup 0..MaxRetryAfter
<1>1. c.cool \in Cools  BY Fields DEF Sound
<1> QED  BY <1>1 DEF Armed, Cools
-----------------------------------------------------------------------------
(* The queues and the rotation. *)

QueueType == queue \in [Run -> Seq(Req)] /\ order \in Seq(Run)

LEMMA QueuesKept ==
  ASSUME Queued, UNCHANGED <<queue, order>>, Waiting' = Waiting
  PROVE  Queued'
BY DEF Queued

LEMMA QueuesGrow ==
  ASSUME QueueType, Queued, NEW r \in Req, RunOf[r] \in Run, r \notin Waiting,
         queue' = [queue EXCEPT ![RunOf[r]] = Append(@, r)],
         order' = Enqueued(RunOf[r]),
         Waiting' = Waiting \cup {r}
  PROVE  QueueType' /\ Queued'
<1> DEFINE run == RunOf[r]
           q   == queue[run]
           p   == Append(q, r)
<1>1. q \in Seq(Req) /\ Once(q) /\ Elems(q) = {x \in Waiting : RunOf[x] = run}
  BY DEF QueueType, Queued
<1>2. p \in Seq(Req) /\ Once(p) /\ Elems(p) = Elems(q) \cup {r} /\ p # <<>>
  <2>1. r \notin Elems(q)  BY <1>1
  <2>2. p # <<>>  BY <1>1, AppendProperties
  <2> QED  BY <1>1, <2>1, <2>2, AppendOnce
<1>3. queue' = [queue EXCEPT ![run] = p]  OBVIOUS
<1> HIDE DEF p
<1>4. queue' \in [Run -> Seq(Req)] /\ queue'[run] = p
      /\ \A other \in Run \ {run} : queue'[other] = queue[other]
  BY <1>2, <1>3 DEF QueueType
<1>5. ASSUME NEW other \in Run
      PROVE  /\ Elems(queue'[other]) = {x \in Waiting' : RunOf[x] = other}
             /\ Once(queue'[other])
  <2>1. CASE other = run  BY <2>1, <1>1, <1>2, <1>4
  <2>2. CASE other # run
    <3>1. queue'[other] = queue[other]  BY <2>2, <1>4
    <3>2. Elems(queue[other]) = {x \in Waiting : RunOf[x] = other} /\ Once(queue[other])
      BY DEF Queued
    <3> QED  BY <2>2, <3>1, <3>2
  <2> QED  BY <2>1, <2>2
<1>6. order' \in Seq(Run) /\ Once(order')
      /\ Elems(order') = {other \in Run : queue'[other] # <<>>}
  <2>1. order \in Seq(Run) /\ Once(order) /\ Elems(order) = {other \in Run : queue[other] # <<>>}
    BY DEF QueueType, Queued
  <2>2. {other \in Run : queue'[other] # <<>>} = {other \in Run : queue[other] # <<>>} \cup {run}
    BY <1>2, <1>4
  <2>3. CASE q = <<>>
    <3>1. order' = Append(order, run)  BY <2>3 DEF Enqueued
    <3>2. run \notin Elems(order)  BY <2>1, <2>3
    <3> QED  BY <2>1, <2>2, <3>1, <3>2, AppendOnce
  <2>4. CASE q # <<>>
    <3>1. order' = order  BY <2>4 DEF Enqueued
    <3> QED  BY <2>1, <2>2, <2>4, <3>1
  <2> QED  BY <2>3, <2>4
<1> QED  BY <1>4, <1>5, <1>6 DEF QueueType, Queued

LEMMA QueuesShrink ==
  ASSUME QueueType, Queued, NEW run \in Run, NEW r \in Elems(queue[run]), NEW p \in Seq(Req),
         Once(p), Elems(p) = Elems(queue[run]) \ {r},
         queue' = [queue EXCEPT ![run] = p],
         order' = Left(run, p),
         Waiting' = Waiting \ {r}
  PROVE  QueueType' /\ Queued'
<1> DEFINE q == queue[run]
<1>1. q \in Seq(Req) /\ Once(q) /\ Elems(q) = {x \in Waiting : RunOf[x] = run}
  BY DEF QueueType, Queued
<1>2. r \in Waiting /\ RunOf[r] = run /\ q # <<>>
  BY <1>1, EmptyOnce
<1>3. queue' \in [Run -> Seq(Req)] /\ queue'[run] = p
      /\ \A other \in Run \ {run} : queue'[other] = queue[other]
  BY DEF QueueType
<1>4. ASSUME NEW other \in Run
      PROVE  /\ Elems(queue'[other]) = {x \in Waiting' : RunOf[x] = other}
             /\ Once(queue'[other])
  <2>1. CASE other = run  BY <2>1, <1>1, <1>2, <1>3
  <2>2. CASE other # run
    <3>1. queue'[other] = queue[other]  BY <2>2, <1>3
    <3>2. Elems(queue[other]) = {x \in Waiting : RunOf[x] = other} /\ Once(queue[other])
      BY DEF Queued
    <3> QED  BY <2>2, <1>2, <3>1, <3>2
  <2> QED  BY <2>1, <2>2
<1>5. order' \in Seq(Run) /\ Once(order')
      /\ Elems(order') = {other \in Run : queue'[other] # <<>>}
  <2>1. order \in Seq(Run) /\ Once(order) /\ Elems(order) = {other \in Run : queue[other] # <<>>}
    BY DEF QueueType, Queued
  <2>2. run \in Elems(order)  BY <2>1, <1>2
  <2>3. CASE p = <<>>
    <3>1. order' = Without(order, run)  BY <2>3 DEF Left
    <3>2. {other \in Run : queue'[other] # <<>>} = {other \in Run : queue[other] # <<>>} \ {run}
      BY <2>3, <1>3
    <3> QED  BY <2>1, <2>2, <3>1, <3>2, WithoutOnce
  <2>4. CASE p # <<>>
    <3>1. order' = order  BY <2>4 DEF Left
    <3>2. {other \in Run : queue'[other] # <<>>} = {other \in Run : queue[other] # <<>>}
      BY <2>4, <1>2, <1>3
    <3> QED  BY <2>1, <3>1, <3>2
  <2> QED  BY <2>3, <2>4
<1> QED  BY <1>3, <1>4, <1>5 DEF QueueType, Queued
-----------------------------------------------------------------------------
(* The invariant, action by action. *)

LEMMA InitGInv == Init => GInv
<1> SUFFICES ASSUME Init PROVE GInv  OBVIOUS
<1>1. New \in Controller /\ New.lastGood <= New.cap /\ New.cap \in FLOOR..Ceiling
      /\ New.inFlight = 0 /\ New.waiters = 0 /\ ~New.paged
  <2>1. New \in Controller  BY Record, Defaults DEF New, Quiets
  <2> QED  BY <2>1 DEF New, FLOOR
<1>2. Waiting = {} /\ InFlight = {}  BY DEF Init, Waiting, InFlight
<1>3. Cardinality(Waiting) = 0 /\ Cardinality(InFlight) = 0  BY <1>2, FS_EmptySet
<1>4. TypeOK  BY <1>1, EmptySeq DEF Init, TypeOK
<1>5. Queued
  <2>1. \A run \in Run : queue[run] = <<>>  BY DEF Init
  <2> QED  BY <1>2, <2>1, EmptyOnce DEF Queued, Init
<1>6. OfRuns  BY DEF Init, OfRuns, HeldBack
<1> QED  BY <1>1, <1>3, <1>4, <1>5, <1>6 DEF Init, GInv, Core, CapSound, CountsExact

(* What every action may assume. *)
LEMMA Facts ==
  ASSUME GInv
  PROVE  /\ CtlOK /\ QueueType /\ Queued
         /\ WaitingIn(phase) = Waiting /\ FlyingIn(phase) = InFlight
BY DEF GInv, Core, TypeOK, CapSound, CountsExact, CtlOK, Sound, PhaseType, QueueType,
       WaitingIn, FlyingIn, Waiting, InFlight

(* What every action has to show. *)
LEMMA Assemble ==
  ASSUME CtlOK', QueueType', Queued',
         ~draining' => ctl'.waiters = Cardinality(Waiting'),
         last' \in Run \cup {Observer, None},
         wake' \in {None} \cup 0..MaxRetryAfter,
         draining' \in BOOLEAN
  PROVE  Core'
<1>1. ctl' \in Controller /\ ctl'.lastGood <= ctl'.cap  BY DEF CtlOK, Sound
<1>2. ctl'.cap \in FLOOR..Ceiling  BY <1>1, Fields DEF Caps
<1>3. TypeOK'  BY <1>1 DEF CtlOK, PhaseType, QueueType, TypeOK
<1> QED  BY <1>1, <1>2, <1>3 DEF GInv, Core, CapSound, CountsExact, CtlOK

LEMMA TryAdmitStep ==
  ASSUME GInv, NEW r \in Req, TryAdmit(r)
  PROVE  Core'
<1> DEFINE o == Observe(ctl)
<1>0. CtlOK /\ QueueType /\ Queued  BY Facts
<1>1. /\ phase[r] = "idle" /\ Grant(o, r) /\ RunOf[r] \in Run
      /\ UNCHANGED <<queue, order, wake, draining>> /\ ~draining
  BY DEF TryAdmit
<1>2. r \notin InFlight /\ r \notin Waiting  BY <1>1 DEF InFlight, Waiting
<1>3. Signalled(ctl, o, 0) /\ ctl.inFlight \in Nat
  BY <1>0, IdleResetSound, Fields DEF CtlOK, Sound, Observe
<1>4. Sound(o) /\ o.inFlight = Cardinality(InFlight) /\ o.waiters = ctl.waiters /\ phase \in PhaseType
  BY <1>0, <1>3 DEF CtlOK, Signalled
<1> HIDE DEF o
<1>5. CtlOK' /\ ctl'.waiters = ctl.waiters /\ Waiting' = Waiting /\ last' = RunOf[r]
  BY <1>1, <1>2, <1>4, GrantSound
<1>6. Queued' /\ QueueType'  BY <1>0, <1>1, <1>5, QueuesKept DEF QueueType
<1>7. ctl'.waiters = Cardinality(Waiting')  BY <1>1, <1>5 DEF GInv, Core, CountsExact
<1> QED  BY <1>1, <1>5, <1>6, <1>7, Assemble DEF GInv, Core, TypeOK

LEMMA ObserverStep ==
  ASSUME GInv, NEW r \in Req, ObserverAcquire(r)
  PROVE  Core'
<1>0. CtlOK /\ QueueType /\ Queued  BY Facts
<1>1. /\ phase[r] = "idle" /\ Grant(ctl, r) /\ RunOf[r] = Observer
      /\ UNCHANGED <<queue, order, wake, draining>> /\ ~draining
  BY DEF ObserverAcquire
<1>2. r \notin InFlight /\ r \notin Waiting  BY <1>1 DEF InFlight, Waiting
<1>3. CtlOK' /\ ctl'.waiters = ctl.waiters /\ Waiting' = Waiting /\ last' = RunOf[r]
  BY <1>0, <1>1, <1>2, GrantSound DEF CtlOK
<1>4. Queued' /\ QueueType'  BY <1>0, <1>1, <1>3, QueuesKept DEF QueueType
<1>5. ctl'.waiters = Cardinality(Waiting')  BY <1>1, <1>3 DEF GInv, Core, CountsExact
<1> QED  BY <1>1, <1>3, <1>4, <1>5, Assemble DEF GInv, Core, TypeOK

LEMMA AdmitStep ==
  ASSUME GInv, NEW r \in Req, Admit(r)
  PROVE  Core'
<1> DEFINE ph == [phase EXCEPT ![r] = "waiting"]
<1>0. CtlOK /\ QueueType /\ Queued  BY Facts
<1>1. /\ phase[r] = "missed" /\ DrainFrom(ctl, ph) /\ RunOf[r] \in Run
      /\ queue' = [queue EXCEPT ![RunOf[r]] = Append(@, r)]
      /\ order' = Enqueued(RunOf[r]) /\ UNCHANGED <<last, wake>>
  BY DEF Admit, GInv, OfRuns, HeldBack
<1>2. /\ ph \in PhaseType /\ WaitingIn(ph) = Waiting \cup {r} /\ FlyingIn(ph) = InFlight
      /\ r \notin Waiting
  BY <1>0, <1>1 DEF CtlOK, PhaseType, WaitingIn, FlyingIn, Waiting, InFlight
<1> HIDE DEF ph
<1>3. CtlOK' /\ Waiting' = Waiting \cup {r} /\ draining' /\ draining' \in BOOLEAN
  BY <1>0, <1>1, <1>2, DrainFromSound DEF CtlOK, DrainFrom
<1>4. QueueType' /\ Queued'  BY <1>0, <1>1, <1>2, <1>3, QueuesGrow
<1> QED  BY <1>1, <1>3, <1>4, Assemble DEF GInv, Core, TypeOK

(* Neither missing the fast path nor giving up after that touches a queue. *)
LEMMA MissStep ==
  ASSUME GInv, NEW r \in Req, Miss(r) \/ AdmitAborted(r)
  PROVE  Core'
<1>0. CtlOK /\ QueueType /\ Queued  BY Facts
<1>1. UNCHANGED <<queue, order, last, wake, draining>>  BY DEF Miss, AdmitAborted
<1>2. CtlOK' /\ ctl'.waiters = ctl.waiters /\ Waiting' = Waiting
  <2>1. CASE Miss(r)
    <3> DEFINE ph == [phase EXCEPT ![r] = "missed"]
    <3>1. /\ phase[r] = "idle" /\ Keep(Observe(ctl)) /\ phase' = Turned(Observe(ctl), ph)
      BY <2>1 DEF Miss
    <3>2. ph \in PhaseType /\ WaitingIn(ph) = Waiting /\ FlyingIn(ph) = InFlight
      BY <1>0, <3>1 DEF CtlOK, PhaseType, WaitingIn, FlyingIn, Waiting, InFlight
    <3> HIDE DEF ph
    <3> QED  BY <1>0, <3>1, <3>2, ObserveKept DEF CtlOK
  <2>2. CASE AdmitAborted(r)
    <3>1. phase[r] = "missed" /\ phase' = [phase EXCEPT ![r] = "idle"] /\ ctl' = ctl
      BY <2>2 DEF AdmitAborted
    <3>2. phase' \in PhaseType /\ Waiting' = Waiting /\ InFlight' = InFlight
      BY <1>0, <3>1 DEF CtlOK, PhaseType, Waiting, InFlight
    <3> QED  BY <1>0, <3>1, <3>2 DEF CtlOK
  <2> QED  BY <2>1, <2>2
<1>3. QueueType' /\ Queued'  BY <1>0, <1>1, <1>2, QueuesKept DEF QueueType
<1>4. ~draining => ctl'.waiters = Cardinality(Waiting')
  BY <1>2 DEF GInv, Core, CountsExact
<1> QED  BY <1>1, <1>2, <1>3, <1>4, Assemble DEF GInv, Core, TypeOK

LEMMA AbortStep ==
  ASSUME GInv, NEW r \in Req, Abort(r)
  PROVE  Core'
<1> DEFINE run == RunOf[r]
           p   == Without(queue[run], r)
           n   == Cardinality(Waiting \ {r})
           w   == Waiters(ctl, n)
           ph  == [phase EXCEPT ![r] = "idle"]
<1>0. CtlOK /\ QueueType /\ Queued  BY Facts
<1>1. /\ phase[r] = "waiting" /\ Keep(w) /\ phase' = Turned(w, ph)
      /\ queue' = [queue EXCEPT ![run] = p] /\ order' = Left(run, p)
      /\ wake' = Armed(w, n) /\ UNCHANGED <<last, draining>>
  BY DEF Abort
<1>2. r \in Waiting  BY <1>1 DEF Waiting
<1>3. /\ run \in Run /\ r \in Elems(queue[run]) /\ Once(queue[run]) /\ queue[run] \in Seq(Req)
  BY <1>0, <1>1, <1>2 DEF Queued, QueueType, GInv, OfRuns, HeldBack
<1>4. p \in Seq(Req) /\ Once(p) /\ Elems(p) = Elems(queue[run]) \ {r}
  BY <1>3, WithoutOnce
<1>5. /\ ph \in PhaseType /\ WaitingIn(ph) = Waiting \ {r} /\ FlyingIn(ph) = InFlight
  BY <1>0, <1>1 DEF CtlOK, PhaseType, WaitingIn, FlyingIn, Waiting, InFlight
<1>6. n \in Nat  BY SubsetsFinite DEF Waiting
<1>7. Sound(w)  BY <1>0, <1>6, WaitersSound DEF CtlOK
<1>8. wake' \in {None} \cup 0..MaxRetryAfter  BY <1>1, <1>7, ArmedType
<1> HIDE DEF p, ph, n
<1>9. CtlOK' /\ ctl'.waiters = n /\ Waiting' = Waiting \ {r}
  BY <1>0, <1>1, <1>5, <1>6, WaitersKept DEF CtlOK
<1>10. QueueType' /\ Queued'
  <2> HIDE DEF run
  <2> QED  BY <1>0, <1>1, <1>3, <1>4, <1>9, QueuesShrink
<1>11. ctl'.waiters = Cardinality(Waiting')  BY <1>9 DEF n
<1> QED  BY <1>1, <1>8, <1>9, <1>10, <1>11, Assemble DEF GInv, Core, TypeOK

LEMMA SettleStep ==
  ASSUME GInv, NEW r \in Req, NEW c, Settle(r, c),
         ctl.inFlight > 0 => Signalled(ctl, c, 1)
  PROVE  Core'
<1> DEFINE ph == [phase EXCEPT ![r] = "idle"]
           t  == Turned(c, ph)
<1>0. CtlOK /\ QueueType /\ Queued  BY Facts
<1>1. r \in InFlight /\ DrainFrom(c, t) /\ UNCHANGED <<queue, order, last, wake>>
  BY DEF Settle
<1>2. /\ ph \in PhaseType /\ WaitingIn(ph) = Waiting /\ FlyingIn(ph) = InFlight \ {r}
  BY <1>0, <1>1 DEF CtlOK, PhaseType, WaitingIn, FlyingIn, Waiting, InFlight
<1>3. /\ t \in PhaseType /\ WaitingIn(t) = Waiting /\ FlyingIn(t) = InFlight \ {r}
  BY <1>2, TurnedKeeps
<1>4. /\ Cardinality(InFlight \ {r}) = Cardinality(InFlight) - 1
      /\ Cardinality(InFlight) \in Nat /\ Cardinality(InFlight \ {r}) \in Nat
  BY <1>1, SubsetsFinite, FS_RemoveElement DEF InFlight
<1> HIDE DEF t
<1>5. Sound(c) /\ c.inFlight = Cardinality(FlyingIn(t))
  <2>1. ctl.inFlight = Cardinality(InFlight) /\ ctl.inFlight > 0  BY <1>0, <1>4 DEF CtlOK
  <2>2. Sound(c) /\ c.inFlight = ctl.inFlight - 1  BY <2>1 DEF Signalled
  <2> QED  BY <1>3, <1>4, <2>1, <2>2
<1>6. CtlOK' /\ Waiting' = Waiting /\ draining' /\ draining' \in BOOLEAN
  BY <1>1, <1>3, <1>5, DrainFromSound DEF DrainFrom
<1>7. QueueType' /\ Queued'  BY <1>0, <1>1, <1>6, QueuesKept DEF QueueType
<1> QED  BY <1>1, <1>6, <1>7, Assemble DEF GInv, Core, TypeOK

LEMMA SettlesStep ==
  ASSUME GInv, NEW r \in Req, Settles(r)
  PROVE  Core'
<1>0. Sound(ctl)  BY Facts DEF CtlOK
<1>1. CASE Completes(r)
  BY <1>0, <1>1, SucceededSound, SettleStep DEF Completes
<1>2. CASE Fails(r)
  BY <1>0, <1>2, EndedSound, SettleStep DEF Fails
<1>3. CASE Releases(r)
  BY <1>0, <1>3, EndedSound, SettleStep DEF Releases
<1>4. ASSUME NEW retryAfter \in Cooldowns, Throttles(r, retryAfter)  PROVE Core'
  <2>1. retryAfter \in 0..MaxRetryAfter  BY GovernorAssumption
  <2> QED  BY <1>0, <1>4, <2>1, ThrottledSound, SettleStep DEF Throttles
<1> QED  BY <1>1, <1>2, <1>3, <1>4 DEF Settles

(* The rotation always lands on a run, and the head of its queue waits. *)
LEMMA NextRunHasWaiters ==
  ASSUME QueueType, order # <<>>
  PROVE  NextRunWithWaiters \in Elems(order)
<1>1. Len(order) \in Nat \ {0} /\ DOMAIN order = 1..Len(order)
  BY EmptySeq, LenProperties DEF QueueType
<1>2. IndexOf(order, last) \in Nat  BY <1>1 DEF IndexOf
<1>3. (IndexOf(order, last) % Len(order)) + 1 \in DOMAIN order  BY <1>1, <1>2
<1> QED  BY <1>3 DEF NextRunWithWaiters, Elems

LEMMA DrainHead ==
  ASSUME QueueType, Queued, DrainGrant
  PROVE  Head(queue[NextRunWithWaiters]) \in Waiting
<1> DEFINE run == NextRunWithWaiters
<1>1. run \in Elems(order)  BY NextRunHasWaiters DEF DrainGrant, Drainable
<1>2. /\ queue[run] \in Seq(Req) /\ queue[run] # <<>> /\ Once(queue[run])
      /\ Elems(queue[run]) \subseteq Waiting
  BY <1>1 DEF QueueType, Queued
<1> HIDE DEF run
<1>3. Head(queue[run]) \in Waiting  BY <1>2, TailOnce
<1> QED  BY <1>3 DEF run

LEMMA DrainGrantStep ==
  ASSUME GInv, DrainGrant
  PROVE  Core'
<1> DEFINE run == NextRunWithWaiters
           q   == queue[run]
           r   == Head(q)
           w   == Waiters(ctl, Cardinality(Waiting))
<1>0. CtlOK /\ QueueType /\ Queued  BY Facts
<1>1. /\ draining /\ order # <<>> /\ Grant(w, r)
      /\ queue' = [queue EXCEPT ![run] = Tail(@)] /\ order' = Left(run, Tail(q))
      /\ UNCHANGED <<wake, draining>>
  BY DEF DrainGrant, Drainable
<1>2. run \in Elems(order)  BY <1>0, <1>1, NextRunHasWaiters
<1>3. run \in Run /\ q # <<>> /\ q \in Seq(Req) /\ Once(q)
      /\ Elems(q) = {x \in Waiting : RunOf[x] = run}
  BY <1>0, <1>2 DEF Queued, QueueType
<1> HIDE DEF run
<1>4. /\ r \in Req /\ Tail(q) \in Seq(Req) /\ r \in Elems(q)
      /\ Elems(Tail(q)) = Elems(q) \ {r} /\ Once(Tail(q))
  BY <1>3, TailOnce
<1>5. r \in Waiting /\ RunOf[r] \in Run /\ r \notin InFlight
  BY <1>0, <1>3, <1>4 DEF Queued, Waiting, InFlight, GInv, OfRuns, HeldBack
<1>6. Sound(w) /\ w.inFlight = Cardinality(InFlight)
  <2>1. Cardinality(Waiting) \in Nat  BY SubsetsFinite DEF Waiting
  <2> QED  BY <1>0, <2>1, WaitersSound DEF CtlOK
<1> DEFINE p == Tail(q)
<1>7. queue' = [queue EXCEPT ![run] = p] /\ order' = Left(run, p)  BY <1>1
<1>8. phase \in PhaseType  BY <1>0 DEF CtlOK
<1> HIDE DEF r, w, p
<1>9. CtlOK' /\ Waiting' = Waiting \ {r} /\ last' = RunOf[r]
  BY <1>1, <1>4, <1>5, <1>6, <1>8, GrantSound
<1>10. QueueType' /\ Queued'
  <2>1. p \in Seq(Req) /\ Once(p) /\ Elems(p) = Elems(queue[run]) \ {r}  BY <1>4 DEF p
  <2> QED  BY <1>0, <1>3, <1>4, <1>7, <1>9, <2>1, QueuesShrink
<1> QED  BY <1>1, <1>5, <1>9, <1>10, Assemble DEF GInv, Core, TypeOK

LEMMA DrainEndStep ==
  ASSUME GInv, DrainEnd
  PROVE  Core'
<1> DEFINE n == Cardinality(Waiting)
           w == Waiters(ctl, n)
<1>0. CtlOK /\ QueueType /\ Queued /\ WaitingIn(phase) = Waiting /\ FlyingIn(phase) = InFlight
  BY Facts
<1>1. /\ Keep(w) /\ phase' = Turned(w, phase) /\ wake' = Armed(w, n)
      /\ draining' = FALSE /\ UNCHANGED <<queue, order, last>>
  BY DEF DrainEnd
<1>2. n \in Nat  BY SubsetsFinite DEF Waiting
<1>3. Sound(w)  BY <1>0, <1>2, WaitersSound DEF CtlOK
<1>4. wake' \in {None} \cup 0..MaxRetryAfter  BY <1>1, <1>3, ArmedType
<1> HIDE DEF n
<1>5. CtlOK' /\ ctl'.waiters = n /\ Waiting' = Waiting
  BY <1>0, <1>1, <1>2, WaitersKept DEF CtlOK
<1>6. QueueType' /\ Queued'  BY <1>0, <1>1, <1>5, QueuesKept DEF QueueType
<1>7. ctl'.waiters = Cardinality(Waiting')  BY <1>5 DEF n
<1> QED  BY <1>1, <1>4, <1>5, <1>6, <1>7, Assemble DEF GInv, Core, TypeOK

LEMMA WakeStep ==
  ASSUME GInv, Wake
  PROVE  Core'
<1>0. CtlOK /\ QueueType /\ Queued /\ WaitingIn(phase) = Waiting /\ FlyingIn(phase) = InFlight
  BY Facts
<1>1. DrainFrom(ctl, phase) /\ wake' = None /\ UNCHANGED <<queue, order, last>>
  BY DEF Wake
<1>2. CtlOK' /\ Waiting' = Waiting /\ draining' /\ draining' \in BOOLEAN
  BY <1>0, <1>1, DrainFromSound DEF CtlOK, DrainFrom
<1>3. QueueType' /\ Queued'  BY <1>0, <1>1, <1>2, QueuesKept DEF QueueType
<1> QED  BY <1>1, <1>2, <1>3, Assemble DEF GInv, Core, TypeOK

LEMMA TickStep ==
  ASSUME GInv, Tick
  PROVE  Core'
<1>0. CtlOK /\ QueueType /\ Queued  BY Facts
<1>1. /\ ctl' = Elapsed(ctl) /\ wake' = (IF wake > 0 THEN wake - 1 ELSE wake)
      /\ UNCHANGED <<phase, queue, order, last, draining>>
  BY DEF Tick
<1>2. Signalled(ctl, ctl', 0) /\ ctl.inFlight \in Nat
  BY <1>0, <1>1, ElapsedSound, Fields DEF CtlOK, Sound
<1>3. ~ctl'.paged
  <2>1. ctl \in Controller  BY <1>0 DEF CtlOK, Sound
  <2>2. Elapsed(ctl).paged = ctl.paged  BY <2>1, Record DEF Elapsed
  <2> QED  BY <1>0, <1>1, <2>2 DEF CtlOK
<1>4. Waiting' = Waiting /\ InFlight' = InFlight  BY <1>1 DEF Waiting, InFlight
<1>5. CtlOK' /\ ctl'.waiters = ctl.waiters
  BY <1>0, <1>1, <1>2, <1>3, <1>4 DEF CtlOK, Signalled
<1>6. QueueType' /\ Queued'  BY <1>0, <1>1, <1>4, QueuesKept DEF QueueType
<1>7. wake' \in {None} \cup 0..MaxRetryAfter  BY <1>1 DEF GInv, Core, TypeOK, None
<1>8. ~draining => ctl'.waiters = Cardinality(Waiting')
  BY <1>4, <1>5 DEF GInv, Core, CountsExact
<1> QED  BY <1>1, <1>5, <1>6, <1>7, <1>8, Assemble DEF GInv, Core, TypeOK

(* Who is held back at the gate got there through Miss. *)
LEMMA TurnedHeldBack ==
  ASSUME NEW c, NEW ph \in PhaseType
  PROVE  HeldBack(Turned(c, ph)) = HeldBack(ph)
<1>1. CASE c.paged
  <2>1. Turned(c, ph) = [r \in Req |-> IF ph[r] = "current" THEN "outdated" ELSE ph[r]]
    BY <1>1 DEF Turned
  <2> QED  BY <2>1 DEF HeldBack
<1>2. CASE ~c.paged  BY <1>2 DEF Turned
<1> QED  BY <1>1, <1>2

LEMMA OfRunsStep ==
  ASSUME GInv, Next
  PROVE  OfRuns'
<1>0. phase \in PhaseType  BY Facts DEF CtlOK
<1>1. ASSUME NEW c, NEW r \in Req, NEW how \in {"idle", "missed", "waiting"},
             phase' = Turned(c, [phase EXCEPT ![r] = how]), how = "idle" \/ RunOf[r] \in Run
      PROVE  OfRuns'
  <2> DEFINE ph == [phase EXCEPT ![r] = how]
  <2>1. ph \in PhaseType /\ HeldBack(ph) \subseteq HeldBack(phase) \cup (IF how = "idle" THEN {} ELSE {r})
    BY <1>0 DEF PhaseType, HeldBack
  <2> HIDE DEF ph
  <2>2. HeldBack(phase') = HeldBack(ph)  BY <1>1, <2>1, TurnedHeldBack DEF ph
  <2> QED  BY <1>1, <2>1, <2>2 DEF OfRuns, GInv
<1>2. ASSUME NEW c, phase' = Turned(c, phase)  PROVE OfRuns'
  <2>1. HeldBack(phase') = HeldBack(phase)  BY <1>0, <1>2, TurnedHeldBack
  <2> QED  BY <2>1 DEF OfRuns, GInv
<1>3. ASSUME NEW c, NEW r, Grant(c, r)  PROVE OfRuns'
  <2> DEFINE t == Turned(Admitted(Observe(c)), phase)
  <2>1. phase' = [t EXCEPT ![r] = "current"]  BY <1>3 DEF Grant
  <2>2. HeldBack(t) = HeldBack(phase) /\ t \in PhaseType  BY <1>0, TurnedHeldBack, TurnedKeeps
  <2> HIDE DEF t
  <2>3. HeldBack(phase') \subseteq HeldBack(t)  BY <2>1, <2>2 DEF HeldBack, PhaseType
  <2> QED  BY <2>2, <2>3 DEF OfRuns, GInv
<1>4. ASSUME NEW r \in Req, Miss(r)  PROVE OfRuns'
  BY <1>1, <1>4 DEF Miss
<1>5. ASSUME NEW r \in Req, Admit(r)  PROVE OfRuns'
  <2>1. RunOf[r] \in Run  BY <1>5 DEF Admit, GInv, OfRuns, HeldBack
  <2> QED  BY <1>1, <1>5, <2>1 DEF Admit, DrainFrom
<1>6. ASSUME NEW r \in Req, AdmitAborted(r)  PROVE OfRuns'
  <2>1. HeldBack(phase') \subseteq HeldBack(phase)
    BY <1>0, <1>6 DEF AdmitAborted, HeldBack, PhaseType
  <2> QED  BY <2>1 DEF OfRuns, GInv
<1>7. ASSUME NEW r \in Req, Abort(r)  PROVE OfRuns'
  BY <1>1, <1>7 DEF Abort
<1>8. ASSUME NEW r \in Req, NEW c, Settle(r, c)  PROVE OfRuns'
  <2> DEFINE ph == [phase EXCEPT ![r] = "idle"]
             t  == Turned(c, ph)
  <2>1. phase' = Turned(Observe(c), t)  BY <1>8 DEF Settle, DrainFrom
  <2>2. ph \in PhaseType /\ HeldBack(ph) \subseteq HeldBack(phase)
    BY <1>0 DEF PhaseType, HeldBack
  <2>3. t \in PhaseType /\ HeldBack(t) = HeldBack(ph)  BY <2>2, TurnedHeldBack, TurnedKeeps
  <2> HIDE DEF t
  <2>4. HeldBack(phase') = HeldBack(t)  BY <2>1, <2>3, TurnedHeldBack
  <2> QED  BY <2>2, <2>3, <2>4 DEF OfRuns, GInv
<1>9. ASSUME NEW r \in Req, Settles(r)  PROVE OfRuns'
  BY <1>8, <1>9 DEF Settles, Completes, Throttles, Fails, Releases
<1>10. ASSUME NEW r \in Req, TryAdmit(r) \/ ObserverAcquire(r)  PROVE OfRuns'
  BY <1>3, <1>10 DEF TryAdmit, ObserverAcquire
<1>11. CASE DrainGrant  BY <1>3, <1>11 DEF DrainGrant
<1>12. CASE DrainEnd  BY <1>2, <1>12 DEF DrainEnd
<1>13. CASE Wake  BY <1>2, <1>13 DEF Wake, DrainFrom
<1>14. CASE Tick  BY <1>14 DEF Tick, OfRuns, HeldBack, GInv
<1> QED  BY <1>4, <1>5, <1>6, <1>7, <1>9, <1>10, <1>11, <1>12, <1>13, <1>14 DEF Next

LEMMA GInvStep == GInv /\ [Next]_vars => GInv'
<1> SUFFICES ASSUME GInv, [Next]_vars PROVE GInv'  OBVIOUS
<1>1. ASSUME NEW r \in Req,
             \/ TryAdmit(r) \/ Miss(r) \/ Admit(r) \/ AdmitAborted(r) \/ Abort(r)
             \/ ObserverAcquire(r) \/ Settles(r)
      PROVE  Core'
  BY <1>1, TryAdmitStep, MissStep, AdmitStep, ObserverStep, AbortStep, SettlesStep
<1>2. CASE DrainGrant \/ DrainEnd \/ Wake \/ Tick
  BY <1>2, DrainGrantStep, DrainEndStep, WakeStep, TickStep, OfRunsStep DEF Next, GInv
<1>3. CASE UNCHANGED vars
  BY <1>3 DEF vars, GInv, Core, TypeOK, CapSound, CountsExact, Queued, Waiting, InFlight,
              OfRuns, HeldBack
<1>4. CASE Next  BY <1>1, <1>2, <1>4, OfRunsStep DEF Next, GInv
<1> QED  BY <1>3, <1>4
-----------------------------------------------------------------------------
(* The theorems. *)

THEOREM GovernorInvariant == Spec => []GInv
BY InitGInv, GInvStep, PTL DEF Spec

(* The governor's state is always well typed. *)
THEOREM GovernorTypeCorrect == Spec => []TypeOK
<1>1. GInv => TypeOK  BY DEF GInv, Core
<1> QED  BY <1>1, GovernorInvariant, PTL

(* The learnt cap stays between one and the ceiling, and falling back to   *)
(* lastGood never raises it.                                               *)
THEOREM CapAlwaysSound == Spec => []CapSound
<1>1. GInv => CapSound  BY DEF GInv, Core
<1> QED  BY <1>1, GovernorInvariant, PTL

(* The controller never miscounts the tickets that are out, nor those who  *)
(* wait: no path through admission, withdrawal or settlement leaks one.    *)
THEOREM CountsAlwaysExact == Spec => []CountsExact
<1>1. GInv => CountsExact  BY DEF GInv, Core
<1> QED  BY <1>1, GovernorInvariant, PTL

(* No waiting request is lost from the queues, queued twice, or left in a  *)
(* queue after it was granted or withdrawn; nor is a run in the rotation.  *)
THEOREM QueuesAlwaysMatch == Spec => []QueuesMatchWaiting
<1>1. GInv => QueuesMatchWaiting
  <2> SUFFICES ASSUME GInv PROVE QueuesMatchWaiting  OBVIOUS
  <2>0. QueueType /\ Queued  BY Facts
  <2>1. ASSUME NEW run \in Run
        PROVE  /\ Elems(queue[run]) = {r \in Waiting : RunOf[r] = run}
               /\ Len(queue[run]) = Cardinality(Elems(queue[run]))
    BY <2>0, OnceLen DEF QueueType, Queued
  <2>2. Elems(order) = {run \in Run : queue[run] # <<>>} /\ Len(order) = Cardinality(Elems(order))
    BY <2>0, OnceLen DEF QueueType, Queued
  <2> QED  BY <2>1, <2>2 DEF QueuesMatchWaiting, Elems
<1> QED  BY <1>1, GovernorInvariant, PTL
-----------------------------------------------------------------------------
(* The gate. *)

(* Looking twice whether the key is idle is looking once. *)
LEMMA IdleResetOnce ==
  ASSUME NEW c \in Controller, NEW n \in Nat
  PROVE  /\ IdleReset(IdleReset(c)) = IdleReset(c)
         /\ IdleReset(Waiters(c, n)) = Waiters(c, n)
<1> DEFINE d == IdleReset(c)
           w == [d EXCEPT !.waiters = n]
<1>1. d \in Controller
  <2> DEFINE e == [c EXCEPT !.cap = Ceiling, !.streak = 0, !.cool = None, !.lastGood = 0,
                            !.lastBad = FALSE, !.paged = TRUE]
  <2>1. e \in Controller  BY Defaults, Record
  <2> QED  BY <2>1 DEF IdleReset
<1>2. ~Idle(d) \/ Pristine(d)
  <2>1. CASE Idle(c) /\ ~Pristine(c)  BY <2>1, Record DEF IdleReset, Pristine
  <2>2. CASE ~(Idle(c) /\ ~Pristine(c))  BY <2>2 DEF IdleReset
  <2> QED  BY <2>1, <2>2
<1>3. Waiters(c, n) = w  BY DEF Waiters
<1> HIDE DEF d
<1>4. ~Idle(w) \/ Pristine(w)  BY <1>1, <1>2, Record DEF Idle, Pristine
<1>5. IdleReset(d) = d  BY <1>2 DEF IdleReset
<1>6. IdleReset(w) = w  BY <1>4 DEF IdleReset
<1> QED  BY <1>3, <1>5, <1>6 DEF d

LEMMA GrantInGate ==
  ASSUME NEW c, Sound(c), IdleReset(c) = c, CanAdmit(c), NEW r, Grant(c, r)
  PROVE  ctl'.inFlight <= ctl'.cap /\ ctl'.cool <= 0
<1> DEFINE n == c.inFlight + 1
           d == [c EXCEPT !.quiet = 0, !.inFlight = n]
           e == [d EXCEPT !.paged = FALSE]
<1>1. c \in Controller /\ c.inFlight \in Nat /\ c.cap \in Caps  BY Fields DEF Sound
<1>2. n \in Nat /\ n <= c.cap /\ c.cool <= 0  BY <1>1 DEF CanAdmit, Caps, None, FLOOR
<1>3. ctl' = e  BY DEF Grant, Keep, Observe, Admitted
<1> HIDE DEF n
<1>4. e.inFlight = n /\ e.cap = c.cap /\ e.cool = c.cool  BY <1>1, Record
<1> QED  BY <1>2, <1>3, <1>4

LEMMA GateStep ==
  ASSUME GInv, Next, NEW r \in Req, r \notin InFlight, r \in InFlight', RunOf[r] # Observer
  PROVE  /\ ctl'.inFlight <= ctl'.cap
         /\ ctl'.cool <= 0
         /\ phase[r] = "idle" => Waiting = {}
<1>0. CtlOK /\ QueueType /\ Queued /\ WaitingIn(phase) = Waiting /\ FlyingIn(phase) = InFlight
  BY Facts
<1>1. ctl \in Controller /\ ctl.inFlight \in Nat  BY <1>0, Fields DEF CtlOK, Sound
<1>2. Cardinality(Waiting) \in Nat  BY SubsetsFinite DEF Waiting
<1>3. ASSUME NEW x \in Req, TryAdmit(x)
      PROVE  ctl'.inFlight <= ctl'.cap /\ ctl'.cool <= 0 /\ Waiting = {}
  <2>1. Sound(Observe(ctl)) /\ IdleReset(Observe(ctl)) = Observe(ctl)
    BY <1>0, <1>1, IdleResetSound, IdleResetOnce DEF CtlOK, Observe, Signalled
  <2>2. Waiting = {} /\ CanAdmit(Observe(ctl)) /\ Grant(Observe(ctl), x)
    BY <1>3 DEF TryAdmit
  <2> HIDE DEF Observe
  <2> QED  BY <2>1, <2>2, GrantInGate
<1>4. CASE DrainGrant
  <2> DEFINE w == Waiters(ctl, Cardinality(Waiting))
             x == Head(queue[NextRunWithWaiters])
  <2>1. CanAdmit(w) /\ Grant(w, x)  BY <1>4 DEF DrainGrant, Drainable
  <2>2. Sound(w) /\ IdleReset(w) = w
    BY <1>0, <1>1, <1>2, WaitersSound, IdleResetOnce DEF CtlOK
  <2>3. ctl'.inFlight <= ctl'.cap /\ ctl'.cool <= 0
    <3> HIDE DEF w, x
    <3> QED  BY <2>1, <2>2, GrantInGate
  <2>4. phase[r] # "idle"
    <3> DEFINE d == Admitted(Observe(w))
    <3>1. phase' = [Turned(d, phase) EXCEPT ![x] = "current"]  BY <2>1 DEF Grant
    <3>2. FlyingIn(Turned(d, phase)) = FlyingIn(phase) /\ Turned(d, phase) \in PhaseType
      BY <1>0, TurnedKeeps DEF CtlOK
    <3>3. r = x
      <4> HIDE DEF d, x
      <4> QED  BY <3>1, <3>2 DEF InFlight, FlyingIn, PhaseType
    <3>4. x \in Waiting  BY <1>0, <1>4, DrainHead
    <3> HIDE DEF x
    <3> QED  BY <3>3, <3>4 DEF Waiting
  <2> QED  BY <2>3, <2>4
<1>5. ASSUME NEW x \in Req, ObserverAcquire(x)  PROVE FALSE
  <2>1. x \notin InFlight /\ Grant(ctl, x) /\ RunOf[x] = Observer
    BY <1>5 DEF ObserverAcquire, InFlight
  <2>2. InFlight' = InFlight \cup {x}  BY <2>1, <1>0, GrantSound DEF CtlOK
  <2> QED  BY <2>1, <2>2
<1>6. ASSUME NEW x \in Req, Admit(x)  PROVE FALSE
  <2> DEFINE ph == [phase EXCEPT ![x] = "waiting"]
  <2>1. phase[x] = "missed" /\ DrainFrom(ctl, ph)  BY <1>6 DEF Admit
  <2>2. ph \in PhaseType /\ FlyingIn(ph) = InFlight
    BY <1>0, <2>1 DEF CtlOK, PhaseType, FlyingIn, InFlight
  <2> HIDE DEF ph
  <2> QED  BY <1>0, <2>1, <2>2, DrainFromSound DEF CtlOK
<1>7. ASSUME NEW x \in Req, Abort(x)  PROVE FALSE
  <2> DEFINE ph == [phase EXCEPT ![x] = "idle"]
             n  == Cardinality(Waiting \ {x})
  <2>1. /\ phase[x] = "waiting" /\ Keep(Waiters(ctl, n)) /\ phase' = Turned(Waiters(ctl, n), ph)
    BY <1>7 DEF Abort
  <2>2. ph \in PhaseType /\ FlyingIn(ph) = InFlight
    BY <1>0, <2>1 DEF CtlOK, PhaseType, FlyingIn, InFlight
  <2>3. n \in Nat  BY SubsetsFinite DEF Waiting
  <2> HIDE DEF ph, n
  <2> QED  BY <1>0, <2>1, <2>2, <2>3, WaitersKept DEF CtlOK
<1>8. ASSUME NEW x \in Req, NEW c, Settle(x, c)  PROVE FALSE
  <2> DEFINE ph == [phase EXCEPT ![x] = "idle"]
             t  == Turned(c, ph)
  <2>1. phase' = Turned(Observe(c), t)  BY <1>8 DEF Settle, DrainFrom
  <2>2. ph \in PhaseType /\ FlyingIn(ph) \subseteq InFlight
    BY <1>0 DEF CtlOK, PhaseType, FlyingIn, InFlight
  <2>3. t \in PhaseType /\ FlyingIn(t) = FlyingIn(ph)  BY <2>2, TurnedKeeps
  <2> HIDE DEF t
  <2>4. FlyingIn(phase') = FlyingIn(t)  BY <2>1, <2>3, TurnedKeeps
  <2> QED  BY <2>2, <2>3, <2>4 DEF InFlight, FlyingIn
<1>9. CASE DrainEnd
  <2> DEFINE n == Cardinality(Waiting)
  <2>1. Keep(Waiters(ctl, n)) /\ phase' = Turned(Waiters(ctl, n), phase)  BY <1>9 DEF DrainEnd
  <2> HIDE DEF n
  <2>2. InFlight' = InFlight  BY <1>0, <1>2, <2>1, WaitersKept DEF CtlOK, n
  <2> QED  BY <2>2
<1>10. CASE Wake
  <2>1. DrainFrom(ctl, phase)  BY <1>10 DEF Wake
  <2>2. InFlight' = InFlight  BY <1>0, <2>1, DrainFromSound DEF CtlOK
  <2> QED  BY <2>2
<1>11. CASE Tick  BY <1>11 DEF Tick, InFlight
<1>12. ASSUME NEW x \in Req, Settles(x)  PROVE FALSE
  BY <1>8, <1>12 DEF Settles, Completes, Throttles, Fails, Releases
<1>13. ASSUME NEW x \in Req, Miss(x)  PROVE FALSE
  <2> DEFINE ph == [phase EXCEPT ![x] = "missed"]
  <2>1. phase[x] = "idle" /\ phase' = Turned(Observe(ctl), ph)  BY <1>13 DEF Miss
  <2>2. ph \in PhaseType /\ FlyingIn(ph) = InFlight
    BY <1>0, <2>1 DEF CtlOK, PhaseType, FlyingIn, InFlight
  <2> HIDE DEF ph
  <2>3. FlyingIn(phase') = FlyingIn(ph)  BY <2>1, <2>2, TurnedKeeps
  <2> QED  BY <2>2, <2>3 DEF InFlight, FlyingIn
<1>14. ASSUME NEW x \in Req, AdmitAborted(x)  PROVE FALSE
  BY <1>0, <1>14 DEF AdmitAborted, InFlight, CtlOK, PhaseType
<1> QED
  BY <1>3, <1>4, <1>5, <1>6, <1>7, <1>9, <1>10, <1>11, <1>12, <1>13, <1>14 DEF Next

(* Nobody gets past the gate: a run's request is let out only below the    *)
(* cap, outside a cooldown, and never past somebody who queues.            *)
THEOREM GateAlwaysRespected == Spec => GateRespected
<1>1. GInv /\ [Next]_vars =>
        [\A r \in Req :
           r \notin InFlight /\ r \in InFlight' /\ RunOf[r] # Observer =>
             /\ ctl'.inFlight <= ctl'.cap
             /\ ctl'.cool <= 0
             /\ phase[r] = "idle" => Waiting = {}]_vars
  BY GateStep
<1> QED  BY <1>1, GovernorInvariant, PTL DEF Spec, GateRespected
-----------------------------------------------------------------------------
(* One cut per epoch.  Only a throttled request of the current page lowers *)
(* the cap, and it turns the page as it does.                              *)

LEMMA CapKept ==
  ASSUME NEW c, Sound(c)
  PROVE  /\ IdleReset(c).cap >= c.cap
         /\ \A n \in Nat : Waiters(c, n).cap >= c.cap
         /\ Admitted(c).cap = c.cap /\ Elapsed(c).cap = c.cap
         /\ c.inFlight > 0 => /\ Released(c).cap >= c.cap /\ Ended(c).cap >= c.cap
                              /\ FailedTransient(c).cap >= c.cap
<1> DEFINE d == IdleReset(c)
<1>1. c \in Controller /\ c.cap \in Caps  BY Fields DEF Sound
<1>2. d.cap >= c.cap
  <2>1. CASE Idle(c) /\ ~Pristine(c)
    <3>1. d.cap = Ceiling  BY <1>1, <2>1, Record DEF IdleReset
    <3> QED  BY <1>1, <3>1 DEF Caps, FLOOR
  <2>2. CASE ~(Idle(c) /\ ~Pristine(c))  BY <1>1, <2>2 DEF IdleReset, Caps, FLOOR
  <2> QED  BY <2>1, <2>2
<1>3. d \in Controller  BY IdleResetSound DEF Signalled, Sound
<1>4. Admitted(c).cap = c.cap /\ Elapsed(c).cap = c.cap
  BY <1>1, Record DEF Admitted, Elapsed
<1>5. /\ \A n \in Nat : Waiters(c, n) = [d EXCEPT !.waiters = n]
      /\ Released(c) = [d EXCEPT !.inFlight = IF d.inFlight > 0 THEN d.inFlight - 1 ELSE 0]
  BY DEF Waiters, Released
<1> HIDE DEF d
<1>6. (\A n \in Nat : Waiters(c, n).cap = d.cap) /\ Released(c).cap = d.cap
  BY <1>3, <1>5, Record
<1>7. c.inFlight > 0 => Ended(c).cap = d.cap /\ FailedTransient(c).cap = d.cap
  <2>1. c.inFlight > 0 => Released(c) \in Controller  BY ReleasedSound DEF Signalled, Sound
  <2> QED  BY <2>1, <1>6, Record DEF Ended, FailedTransient
<1> QED  BY <1>2, <1>4, <1>6, <1>7 DEF d

LEMMA SucceededCap ==
  ASSUME NEW c, Sound(c), c.inFlight > 0, NEW isCurrent
  PROVE  Succeeded(c, isCurrent).cap >= c.cap
<1> DEFINE d == Released(c)
           s == Succeeded(c, isCurrent)
<1>1. d \in Controller /\ d.cap >= c.cap  BY ReleasedSound, CapKept DEF Signalled, Sound
<1>2. d.cap \in Int /\ c.cap \in Int  BY <1>1, Fields DEF Sound, Caps, FLOOR
<1>3. s.cap = d.cap \/ s.cap = d.cap + 1
  <2> HIDE DEF d
  <2>1. d \in Controller  BY <1>1
  <2> USE DEF d
  <2> QED  BY <2>1, Record DEF Succeeded
<1> HIDE DEF d, s
<1>4. s.cap >= c.cap  BY <1>1, <1>2, <1>3
<1> QED  BY <1>4 DEF s

LEMMA ThrottledCap ==
  ASSUME NEW c, Sound(c), c.inFlight > 0, NEW isCurrent \in BOOLEAN, NEW retryAfter
  PROVE  \/ Throttled(c, isCurrent, retryAfter).cap >= c.cap
         \/ isCurrent /\ Throttled(c, isCurrent, retryAfter).paged
<1> DEFINE d == Released(c)
           t == Throttled(c, isCurrent, retryAfter)
<1>1. d \in Controller /\ d.cap >= c.cap  BY ReleasedSound, CapKept DEF Signalled, Sound
<1>2. d.paged \in BOOLEAN  BY <1>1, Fields
<1>3. CASE isCurrent /\ ~d.paged
  <2>1. t.paged = (d.paged \/ (isCurrent /\ ~d.paged))  BY <1>1, Record DEF Throttled
  <2> QED  BY <1>3, <2>1
<1>4. CASE ~(isCurrent /\ ~d.paged)
  <2>1. t.cap = d.cap  BY <1>1, <1>4, Record DEF Throttled
  <2> QED  BY <1>1, <2>1
<1> QED  BY <1>3, <1>4

(* A settlement that lowers the cap was of the current page, and turned it. *)
LEMMA SettleCuts ==
  ASSUME GInv, NEW r \in Req, NEW c, Settle(r, c), Sound(c),
         c.cap >= ctl.cap \/ (phase[r] = "current" /\ c.paged),
         ctl'.cap < ctl.cap
  PROVE  /\ phase[r] = "current" /\ phase'[r] = "idle"
         /\ \A x \in Req : phase'[x] # "current"
<1> DEFINE o  == Observe(c)
           ph == [phase EXCEPT ![r] = "idle"]
           t  == Turned(c, ph)
<1>1. phase' = Turned(o, t) /\ ctl' = [o EXCEPT !.paged = FALSE]
  BY DEF Settle, DrainFrom, Keep
<1>2. o \in Controller /\ o.cap >= c.cap
  BY IdleResetSound, CapKept DEF Observe, Signalled, Sound
<1>3. ctl'.cap = o.cap
  <2> HIDE DEF o
  <2> QED  BY <1>1, <1>2, Record
<1>4. c.cap \in Int /\ o.cap \in Int /\ ctl.cap \in Int
  BY <1>2, Fields DEF GInv, Core, TypeOK, Sound, Caps, FLOOR
<1>5. phase[r] = "current" /\ c.paged
  <2> HIDE DEF o
  <2> QED  BY <1>2, <1>3, <1>4
<1>6. ph \in PhaseType /\ ph[r] = "idle"  BY Facts DEF CtlOK, PhaseType
<1> HIDE DEF ph
<1>7. /\ \A x \in Req : t[x] = IF ph[x] = "current" THEN "outdated" ELSE ph[x]
      /\ t = [x \in Req |-> IF ph[x] = "current" THEN "outdated" ELSE ph[x]]
  BY <1>5 DEF Turned
<1> HIDE DEF t
<1>8. \A x \in Req : t[x] # "current"  BY <1>7
<1>9. phase' = t
  <2>1. t = [x \in Req |-> IF t[x] = "current" THEN "outdated" ELSE t[x]]
    BY <1>7, <1>8
  <2> QED  BY <1>1, <2>1 DEF Turned
<1>10. t[r] = "idle"  BY <1>6, <1>7
<1> QED  BY <1>5, <1>8, <1>9, <1>10

LEMMA CutStep ==
  ASSUME GInv, Next, ctl'.cap < ctl.cap
  PROVE  /\ \E r \in Req : phase[r] = "current" /\ phase'[r] = "idle"
         /\ \A r \in Req : phase'[r] # "current"
<1>0. CtlOK  BY Facts
<1>1. Sound(ctl) /\ ctl \in Controller /\ ctl.cap \in Int
  BY <1>0, Fields DEF CtlOK, Sound, Caps, FLOOR
<1>2. ASSUME NEW c, Sound(c), c.cap >= ctl.cap, Keep(c)  PROVE FALSE
  <2>1. c \in Controller /\ c.cap \in Int  BY <1>2, Fields DEF Sound, Caps, FLOOR
  <2>2. ctl'.cap = c.cap  BY <1>2, <2>1, Record DEF Keep
  <2> QED  BY <1>1, <1>2, <2>1, <2>2
<1>3. ASSUME NEW c, Sound(c), c.cap >= ctl.cap  PROVE Sound(Observe(c)) /\ Observe(c).cap >= ctl.cap
  <2>1. Sound(Observe(c)) /\ Observe(c).cap >= c.cap
    BY <1>3, IdleResetSound, CapKept DEF Observe, Signalled
  <2>2. c.cap \in Int /\ Observe(c).cap \in Int
    BY <1>3, <2>1, Fields DEF Sound, Caps, FLOOR
  <2> HIDE DEF Observe
  <2> QED  BY <1>1, <1>3, <2>1, <2>2
<1>4. ASSUME NEW c, Sound(c), c.cap >= ctl.cap, NEW x, Grant(c, x)  PROVE FALSE
  <2>1. Sound(Observe(c)) /\ Observe(c).cap >= ctl.cap  BY <1>3, <1>4
  <2> HIDE DEF Observe
  <2>2. Sound(Admitted(Observe(c))) /\ Admitted(Observe(c)).cap >= ctl.cap
    BY <2>1, AdmittedSound, CapKept
  <2>3. Keep(Admitted(Observe(c)))  BY <1>4 DEF Grant
  <2> QED  BY <1>2, <2>2, <2>3
<1>5. ASSUME NEW n \in Nat
      PROVE  Sound(Waiters(ctl, n)) /\ Waiters(ctl, n).cap >= ctl.cap
  BY <1>1, WaitersSound, CapKept
<1>6. Cardinality(Waiting) \in Nat /\ \A x : Cardinality(Waiting \ {x}) \in Nat
  BY SubsetsFinite DEF Waiting
<1>7. ctl.cap >= ctl.cap  BY <1>1
<1>8. ASSUME NEW x \in Req, TryAdmit(x)  PROVE FALSE
  <2>1. Sound(Observe(ctl)) /\ Observe(ctl).cap >= ctl.cap  BY <1>1, <1>3, <1>7
  <2>2. Grant(Observe(ctl), x)  BY <1>8 DEF TryAdmit
  <2> QED  BY <1>4, <2>1, <2>2
<1>9. ASSUME NEW x \in Req, ObserverAcquire(x)  PROVE FALSE
  BY <1>1, <1>4, <1>7, <1>9 DEF ObserverAcquire
<1>10. ASSUME NEW ph, DrainFrom(ctl, ph)  PROVE FALSE
  <2>1. Sound(Observe(ctl)) /\ Observe(ctl).cap >= ctl.cap  BY <1>1, <1>3, <1>7
  <2>2. Keep(Observe(ctl))  BY <1>10 DEF DrainFrom
  <2> QED  BY <1>2, <2>1, <2>2
<1>11. ASSUME NEW x \in Req, Abort(x)  PROVE FALSE
  <2>1. Keep(Waiters(ctl, Cardinality(Waiting \ {x})))  BY <1>11 DEF Abort
  <2> QED  BY <1>2, <1>5, <1>6, <2>1
<1>12. CASE DrainGrant
  <2>1. Grant(Waiters(ctl, Cardinality(Waiting)), Head(queue[NextRunWithWaiters]))
    BY <1>12 DEF DrainGrant
  <2> QED  BY <1>4, <1>5, <1>6, <2>1
<1>13. CASE DrainEnd
  <2>1. Keep(Waiters(ctl, Cardinality(Waiting)))  BY <1>13 DEF DrainEnd
  <2> QED  BY <1>2, <1>5, <1>6, <2>1
<1>14. CASE Tick
  <2>1. ctl'.cap = ctl.cap  BY <1>1, <1>14, CapKept DEF Tick
  <2> QED  BY <1>1, <2>1
<1>15. ASSUME NEW r \in Req, Settles(r)
       PROVE  /\ phase[r] = "current" /\ phase'[r] = "idle"
              /\ \A x \in Req : phase'[x] # "current"
  <2>1. r \in InFlight  BY <1>15 DEF Settles, Completes, Fails, Releases, Throttles, Settle
  <2>2. ctl.inFlight > 0
    <3>1. Cardinality(InFlight \ {r}) = Cardinality(InFlight) - 1
          /\ Cardinality(InFlight) \in Nat /\ Cardinality(InFlight \ {r}) \in Nat
      BY <2>1, SubsetsFinite, FS_RemoveElement DEF InFlight
    <3> QED  BY <1>0, <3>1 DEF CtlOK
  <2>3. CASE Completes(r)
    <3> DEFINE c == Succeeded(ctl, phase[r] = "current")
    <3>1. Sound(c) /\ c.cap >= ctl.cap
      BY <1>1, <2>2, SucceededSound, SucceededCap DEF Signalled
    <3>2. Settle(r, c)  BY <2>3 DEF Completes
    <3> HIDE DEF c
    <3> QED  BY <3>1, <3>2, SettleCuts
  <2>4. CASE Fails(r) \/ Releases(r)
    <3>1. /\ Sound(FailedTransient(ctl)) /\ FailedTransient(ctl).cap >= ctl.cap
          /\ Sound(Ended(ctl)) /\ Ended(ctl).cap >= ctl.cap
      BY <1>1, <2>2, EndedSound, CapKept DEF Signalled
    <3>2. Settle(r, FailedTransient(ctl)) \/ Settle(r, Ended(ctl))  BY <2>4 DEF Fails, Releases
    <3> HIDE DEF FailedTransient, Ended
    <3> QED  BY <3>1, <3>2, SettleCuts
  <2>5. ASSUME NEW retryAfter \in Cooldowns, Throttles(r, retryAfter)
        PROVE  /\ phase[r] = "current" /\ phase'[r] = "idle"
               /\ \A x \in Req : phase'[x] # "current"
    <3> DEFINE c == Throttled(ctl, phase[r] = "current", retryAfter)
    <3>1. retryAfter \in 0..MaxRetryAfter  BY GovernorAssumption
    <3>2. Sound(c)  BY <1>1, <2>2, <3>1, ThrottledSound DEF Signalled
    <3>3. c.cap >= ctl.cap \/ (phase[r] = "current" /\ c.paged)
      BY <1>1, <2>2, ThrottledCap
    <3>4. Settle(r, c)  BY <2>5 DEF Throttles
    <3> HIDE DEF c
    <3> QED  BY <3>2, <3>3, <3>4, SettleCuts
  <2> QED  BY <1>15, <2>3, <2>4, <2>5 DEF Settles
<1>16. ASSUME NEW x \in Req, Admit(x)  PROVE FALSE
  BY <1>10, <1>16 DEF Admit
<1>17. CASE Wake  BY <1>10, <1>17 DEF Wake
<1>18. ASSUME NEW x \in Req, Miss(x)  PROVE FALSE
  <2>1. Keep(Observe(ctl))  BY <1>18 DEF Miss
  <2> QED  BY <1>1, <1>2, <1>3, <1>7, <2>1
<1>19. ASSUME NEW x \in Req, AdmitAborted(x)  PROVE FALSE
  BY <1>1, <1>19 DEF AdmitAborted
<1> QED
  BY <1>8, <1>9, <1>11, <1>12, <1>13, <1>14, <1>15, <1>16, <1>17, <1>18, <1>19 DEF Next

(* One batch of requests, one verdict: a cut is due to a request sent      *)
(* under the current cap, and makes all the others of its page outdated.   *)
THEOREM OneCutOnly == Spec => OneCutPerEpoch
<1>1. GInv /\ [Next]_vars =>
        [ctl'.cap < ctl.cap =>
           /\ \E r \in Req : phase[r] = "current" /\ phase'[r] = "idle"
           /\ \A r \in Req : phase'[r] # "current"]_vars
  BY CutStep
<1> QED  BY <1>1, GovernorInvariant, PTL DEF Spec, OneCutPerEpoch

-----------------------------------------------------------------------------
(* Wakeups.  drain leaves somebody waiting only when the gate is closed:    *)
(* by requests in flight, each of which drains when it ends, or by a        *)
(* cooldown, for whose end the timer is set.  No step but a withdrawal of   *)
(* a waiting request takes both away without draining again.                *)

LEMMA GrantFlies ==
  ASSUME NEW c, NEW r \in Req, phase \in PhaseType, Grant(c, r)
  PROVE  InFlight' # {}
<1> DEFINE t == Turned(Admitted(Observe(c)), phase)
<1>1. t \in PhaseType  BY TurnedKeeps
<1>2. phase' = [t EXCEPT ![r] = "current"]  BY DEF Grant
<1> HIDE DEF t
<1>3. phase'[r] = "current"  BY <1>1, <1>2 DEF PhaseType
<1> QED  BY <1>3 DEF InFlight

(* A closed gate: the cap is used up, or the cooldown is on. *)
LEMMA ClosedGate ==
  ASSUME NEW c, Sound(c), ~CanAdmit(c)
  PROVE  c.inFlight > 0 \/ c.cool # None
<1>1. c.cap \in Caps /\ c.inFlight \in Nat  BY Fields DEF Sound
<1>2. c.cap \in Nat /\ c.cap >= 1  BY <1>1 DEF Caps, FLOOR
<1>3. c.inFlight = 0 => c.cool \notin {None, 0}  BY <1>2 DEF CanAdmit
<1> QED  BY <1>1, <1>3

LEMMA DrainEndWakes ==
  ASSUME GInv, DrainEnd
  PROVE  NoLostWakeup'
<1> DEFINE n == Cardinality(Waiting)
           w == Waiters(ctl, n)
<1>0. CtlOK /\ QueueType /\ Queued /\ WaitingIn(phase) = Waiting /\ FlyingIn(phase) = InFlight
  BY Facts
<1>1. /\ Keep(w) /\ phase' = Turned(w, phase) /\ wake' = Armed(w, n)
      /\ ~(CanAdmit(w) /\ order # <<>>)
  BY DEF DrainEnd, Drainable
<1>2. n \in Nat  BY SubsetsFinite DEF Waiting
<1>3. Sound(w) /\ w.inFlight = Cardinality(InFlight)  BY <1>0, <1>2, WaitersSound DEF CtlOK
<1>4. Waiting' = Waiting /\ InFlight' = InFlight
  BY <1>0, <1>1, <1>2, WaitersKept DEF CtlOK
<1> SUFFICES ASSUME Waiting # {}, InFlight = {}  PROVE wake' # None
  BY <1>4 DEF NoLostWakeup
<1>5. order # <<>>
  <2>1. PICK r \in Waiting : TRUE  OBVIOUS
  <2>2. r \in Req /\ RunOf[r] \in Run
    BY DEF GInv, OfRuns, HeldBack, Waiting
  <2>3. r \in Elems(queue[RunOf[r]])  BY <1>0, <2>1, <2>2 DEF Queued
  <2>4. queue[RunOf[r]] # <<>>  BY <2>3 DEF Elems
  <2>5. RunOf[r] \in Elems(order)  BY <1>0, <2>2, <2>4 DEF Queued
  <2> QED  BY <2>5 DEF Elems
<1>6. n # 0  BY <1>2, SubsetsFinite, FS_EmptySet DEF Waiting
<1>7. w.inFlight = 0  BY <1>3, FS_EmptySet
<1> HIDE DEF n, w
<1>8. w.cool # None  BY <1>1, <1>3, <1>5, <1>7, ClosedGate
<1> QED  BY <1>1, <1>6, <1>8 DEF Armed

LEMMA WakeupStep ==
  ASSUME GInv, NoLostWakeup, [Next]_vars, \A r \in Req : ~Abort(r)
  PROVE  NoLostWakeup'
<1>t. phase \in PhaseType /\ wake \in {None} \cup 0..MaxRetryAfter
  BY Facts DEF CtlOK, GInv, Core, TypeOK
<1>1. ASSUME NEW r \in Req, TryAdmit(r) \/ ObserverAcquire(r)  PROVE NoLostWakeup'
  BY <1>1, <1>t, GrantFlies DEF TryAdmit, ObserverAcquire, NoLostWakeup
<1>2. ASSUME NEW r \in Req, Miss(r)  PROVE NoLostWakeup'
  <2> DEFINE ph == [phase EXCEPT ![r] = "missed"]
             t  == Turned(Observe(ctl), ph)
  <2>1. phase[r] = "idle" /\ phase' = t /\ UNCHANGED <<wake, draining>>
    BY <1>2 DEF Miss
  <2>2. ph \in PhaseType  BY <1>t DEF PhaseType
  <2>3. WaitingIn(ph) = Waiting /\ FlyingIn(ph) = InFlight
    BY <2>1, <1>t DEF PhaseType, WaitingIn, FlyingIn, Waiting, InFlight
  <2> HIDE DEF ph
  <2>4. WaitingIn(t) = Waiting /\ FlyingIn(t) = InFlight  BY <2>2, <2>3, TurnedKeeps
  <2>5. Waiting' = WaitingIn(t) /\ InFlight' = FlyingIn(t)
    BY <2>1 DEF WaitingIn, FlyingIn, Waiting, InFlight
  <2> QED  BY <2>1, <2>4, <2>5 DEF NoLostWakeup
<1>3. ASSUME NEW r \in Req, AdmitAborted(r)  PROVE NoLostWakeup'
  <2>1. Waiting' = Waiting /\ InFlight' = InFlight
    BY <1>3, <1>t DEF AdmitAborted, PhaseType, Waiting, InFlight
  <2> QED  BY <1>3, <2>1 DEF AdmitAborted, NoLostWakeup
<1>4. ASSUME NEW r \in Req, Admit(r)  PROVE NoLostWakeup'
  BY <1>4 DEF Admit, DrainFrom, NoLostWakeup
<1>5. ASSUME NEW r \in Req, Settles(r)  PROVE NoLostWakeup'
  BY <1>5 DEF Settles, Completes, Throttles, Fails, Releases, Settle, DrainFrom, NoLostWakeup
<1>6. CASE DrainGrant
  BY <1>6 DEF DrainGrant, NoLostWakeup
<1>7. CASE DrainEnd
  BY <1>7, DrainEndWakes
<1>8. CASE Wake
  BY <1>8 DEF Wake, DrainFrom, NoLostWakeup
<1>9. CASE Tick
  BY <1>9, <1>t DEF Tick, NoLostWakeup, Waiting, InFlight, None
<1>10. CASE UNCHANGED vars
  BY <1>10 DEF vars, NoLostWakeup, Waiting, InFlight
<1> QED
  BY <1>1, <1>2, <1>3, <1>4, <1>5, <1>6, <1>7, <1>8, <1>9, <1>10 DEF Next

(* Only the withdrawal of a waiting request can lose a wakeup: every other  *)
(* step of the governor, whatever came before it, leaves those who wait     *)
(* with a request in flight or a timer, if they had one.                    *)
THEOREM OnlyAbortLosesWakeup ==
  Spec => [][NoLostWakeup /\ (\A r \in Req : ~Abort(r)) => NoLostWakeup']_vars
<1>1. GInv /\ [Next]_vars =>
        [NoLostWakeup /\ (\A r \in Req : ~Abort(r)) => NoLostWakeup']_vars
  BY WakeupStep
<1> QED  BY <1>1, GovernorInvariant, PTL DEF Spec

(* Where no client is cancelled while it waits, nobody is ever forgotten:   *)
(* as long as somebody waits, a request is in flight or the timer for the   *)
(* end of the cooldown is set (drain, settle, armTimer).                    *)
THEOREM NoWakeupLost ==
  ASSUME Abortable = {}
  PROVE  Spec => []NoLostWakeup
<1>1. Init => NoLostWakeup  BY DEF Init, NoLostWakeup, Waiting
<1>2. \A r \in Req : ~Abort(r)  BY DEF Abort
<1>3. GInv /\ NoLostWakeup /\ [Next]_vars => NoLostWakeup'
  BY <1>2, WakeupStep
<1> QED  BY <1>1, <1>3, GovernorInvariant, PTL DEF Spec
=============================================================================
