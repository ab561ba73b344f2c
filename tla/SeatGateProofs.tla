--------------------------- MODULE SeatGateProofs ---------------------------
(***************************************************************************)
(* Theorems about SeatGate, for any asks, actors, caps and budgets.        *)
(*                                                                         *)
(* The scheduler does not know the gate: a step of the two is a step of    *)
(* the scheduler or leaves it alone, so its invariants hold here as well.  *)
(* Two things of them are used.  A settling ask is its actor's current one *)
(* (InFlightIsHeld), so the gate takes the seat of the right actor; and    *)
(* what a pump makes current was not handed to the driver before, so a     *)
(* pump changes nothing for the gate.                                      *)
(*                                                                         *)
(* The gate's own half is that its four variables agree (Consistent).      *)
(* All that frees seats goes through Unpark; the counting is done there.   *)
(***************************************************************************)
EXTENDS SeatGate, AskSchedulerProofs

USE SchedulerAssumption

Phases == {"none", "step", "missed", "parked", "sending"}

(* Who is in a turn holds a seat or waits in the FIFO, never both. *)
Consistent(w, p, ph, st) ==
  /\ w \subseteq Actor
  /\ p \in Seq(Actor)
  /\ Once(p)
  /\ ph \in [Actor -> Phases]
  /\ w \cap Elems(p) = {}
  /\ Elems(p) = {a \in Actor : ph[a] = "parked"}
  /\ \A a \in Actor : ph[a] \in {"step", "missed", "sending"} => a \in w
  /\ st \subseteq {a \in w : ph[a] = "sending"}

InFlight == {a \in Actor : current[a] \in dispatched}

(* The gate has heard of every ask in flight, and of the end. *)
Heard ==
  /\ run = "running" => working \cup Parked = InFlight
  /\ run # "running" => \A a \in Actor : phase[a] = "none"

GateInv ==
  /\ Consistent(working, parked, phase, stepped)
  /\ ParkedMeansFull
  /\ CapBitesAtNextRequest
  /\ Heard

AllInv == IInv /\ OrderInv /\ GateInv

-----------------------------------------------------------------------------
(* The scheduler is left alone.                                            *)

LEMMA SchedulerStep == [GatedNext]_gatedVars => [Next]_vars
<1> SUFFICES ASSUME [GatedNext]_gatedVars  PROVE [Next]_vars  OBVIOUS
<1>1. CASE Unheard
  BY <1>1 DEF Unheard, Next, Dispatch
<1>2. ASSUME NEW n \in Ask, Start(n)  PROVE Next
  BY <1>2 DEF Start, Next, Dispatch
<1>3. ASSUME NEW n \in Ask, Report(n)  PROVE Next
  BY <1>3 DEF Report, Settles, Next, Submit, TurnEnded
<1>4. ASSUME NEW n \in Ask, GoesOn(n)  PROVE Next
  BY <1>4 DEF GoesOn, Next, Submit, TurnEnded
<1>5. ASSUME NEW c \in Caps, Retune(c)  PROVE Next
  BY <1>5 DEF Retune, Next
<1>6. CASE Ends \/ Fails
  BY <1>6 DEF Ends, Fails, Next
<1>7. ASSUME NEW a \in Actor, Turn(a) \/ RequestAborted(a)  PROVE UNCHANGED vars
  BY <1>7 DEF Turn, Request, Miss, Park, Acquire, RequestEnds, RequestAborted
<1>8. CASE UNCHANGED gatedVars
  BY <1>8 DEF gatedVars
<1> QED  BY <1>1, <1>2, <1>3, <1>4, <1>5, <1>6, <1>7, <1>8 DEF GatedNext

(* The composition is a refinement of the scheduler: everything proved of  *)
(* AskScheduler holds of a run with a seat gate (workflow-seat-gate.ts     *)
(* wraps the model requests and calls nothing of the engine).              *)
THEOREM GateLeavesScheduler == GatedSpec => Spec
<1>1. GatedInit => Init  BY DEF GatedInit
<1> QED  BY <1>1, SchedulerStep, PTL DEF GatedSpec, Spec

-----------------------------------------------------------------------------
(* Seats.                                                                  *)

LEMMA SeatsFinite ==
  ASSUME NEW w \in SUBSET Actor
  PROVE  IsFiniteSet(w) /\ Cardinality(w) \in Nat
BY ActorsFinite, FS_Subset, FS_CardinalityType

(* Free seats go to the first of the FIFO, and only free ones.             *)
LEMMA UnparkSeats ==
  ASSUME NEW limit \in Nat, NEW w, NEW ph, NEW st,
         Consistent(w, parked, ph, st), Cardinality(st) <= limit,
         Unpark(w, limit, ph, st)
  PROVE  /\ Consistent(working', parked', phase', stepped')
         /\ working' \cup Parked' = w \cup Parked
         /\ parked' # <<>> => Cardinality(working') >= limit
         /\ Cardinality(stepped') <= limit
<1> DEFINE k == Seats(w, limit)
           T == {parked[i] : i \in 1..k}
<1>1. /\ working' = w \cup T
      /\ parked' = SubSeq(parked, k + 1, Len(parked))
      /\ phase' = [a \in Actor |-> IF a \in T THEN "sending" ELSE ph[a]]
      /\ stepped' = st \cup T
  BY DEF Unpark
<1>2. /\ w \subseteq Actor /\ parked \in Seq(Actor) /\ Once(parked)
      /\ w \cap Elems(parked) = {} /\ st \subseteq w
  BY DEF Consistent
<1>3. /\ IsFiniteSet(w) /\ Cardinality(w) \in Nat
      /\ IsFiniteSet(st) /\ Cardinality(st) \in Nat /\ Cardinality(st) <= Cardinality(w)
      /\ Len(parked) \in Nat
  BY <1>2, SeatsFinite, FS_Subset, LenProperties
<1>4. /\ k \in 0..Len(parked)
      /\ k > 0 => Cardinality(w) + k <= limit
      /\ k = Len(parked) \/ Cardinality(w) + k >= limit
  BY <1>3 DEF Seats
<1> HIDE DEF k
<1>5. IsFiniteSet(T) /\ Cardinality(T) = k /\ T \subseteq Elems(parked)
  BY <1>2, <1>4, TakeCount
<1>6. /\ parked' \in Seq(Actor) /\ Len(parked') = Len(parked) - k
      /\ Elems(parked') = Elems(parked) \ T
      /\ Once(parked')
  BY <1>1, <1>2, <1>4, DropOnce
<1> HIDE DEF T
<1>7. T \subseteq Actor  BY <1>5 DEF Consistent
<1>8. Consistent(working', parked', phase', stepped')
  <2>1. working' \subseteq Actor /\ working' \cap Elems(parked') = {}
    BY <1>1, <1>2, <1>6, <1>7
  <2>2. phase' \in [Actor -> Phases]
    BY <1>1 DEF Consistent, Phases
  <2>3. \A a \in Actor : phase'[a] = IF a \in T THEN "sending" ELSE ph[a]
    BY <1>1
  <2>4. Elems(parked') = {a \in Actor : phase'[a] = "parked"}
    BY <1>6, <2>3 DEF Consistent
  <2>5. \A a \in Actor : phase'[a] \in {"step", "missed", "sending"} => a \in working'
    BY <1>1, <2>3 DEF Consistent
  <2>6. stepped' \subseteq {a \in working' : phase'[a] = "sending"}
    BY <1>1, <1>2, <1>7, <2>3 DEF Consistent
  <2> QED  BY <1>6, <2>1, <2>2, <2>4, <2>5, <2>6 DEF Consistent
<1>9. working' \cup Elems(parked') = w \cup Elems(parked)
  BY <1>1, <1>5, <1>6
<1>10. parked' # <<>> => Cardinality(working') >= limit
  <2>1. w \cap T = {}  BY <1>2, <1>5
  <2>2. Cardinality(w \cap T) = 0  BY <2>1, FS_EmptySet
  <2>3. Cardinality(working') = Cardinality(w) + k
    <3>1. Cardinality(w \cup T) = Cardinality(w) + Cardinality(T) - Cardinality(w \cap T)
      BY <1>3, <1>5, FS_Union
    <3> QED  BY <3>1, <2>2, <1>1, <1>3, <1>4, <1>5
  <2>4. parked' # <<>> => Len(parked') > 0  BY <1>6, EmptySeq
  <2> QED  BY <2>3, <2>4, <1>3, <1>4, <1>6
<1>11. Cardinality(stepped') <= limit
  <2>1. st \cap T = {}  BY <1>2, <1>5
  <2>2. Cardinality(st \cap T) = 0  BY <2>1, FS_EmptySet
  <2>3. Cardinality(stepped') = Cardinality(st) + k
    <3>1. Cardinality(st \cup T) = Cardinality(st) + Cardinality(T) - Cardinality(st \cap T)
      BY <1>3, <1>5, FS_Union
    <3> QED  BY <3>1, <2>2, <1>1, <1>3, <1>4, <1>5
  <2> QED  BY <2>3, <1>3, <1>4
<1> QED  BY <1>8, <1>9, <1>10, <1>11 DEF Parked

-----------------------------------------------------------------------------
(* What the scheduler's steps mean to the gate.                            *)

(* A pump makes nobody's ask in flight and ends nobody's.                  *)
LEMMA PumpKeepsInFlight ==
  ASSUME NEW q, NEW c, NEW k, NEW limit, PumpAll(q, c, k, limit),
         \A a \in Actor : q[a] # <<>> => Head(q[a]) \notin dispatched,
         dispatched \subseteq Ask, dispatched' = dispatched
  PROVE  InFlight' = {a \in Actor : c[a] \in dispatched}
<1>1. PICK P \in SUBSET Pumpable(q, c) :
        current' = [a \in Actor |-> IF a \in P THEN Head(q[a]) ELSE c[a]]
  BY DEF PumpAll
<1>2. \A a \in P : c[a] \notin dispatched /\ Head(q[a]) \notin dispatched
  BY DEF Pumpable
<1>3. \A a \in Actor : current'[a] \in dispatched <=> c[a] \in dispatched
  BY <1>1, <1>2
<1> QED  BY <1>3 DEF InFlight

LEMMA QueuedNotDispatched ==
  ASSUME IInv, OrderInv, run = "running", NEW a \in Actor, queue[a] # <<>>
  PROVE  Head(queue[a]) \notin dispatched
<1>1. queue[a] \in Seq(Ask)  BY OrderTypes DEF IInv, SchedInv
<1>2. Head(queue[a]) = queue[a][1] /\ 1 \in 1..Len(queue[a])
  BY <1>1, HeadTailProperties, EmptySeq
<1> QED  BY <1>2 DEF OrderInv, InOrder, Ordered, QueueIsRest

(* An ask that settles is in flight no longer, and no other changes. *)
LEMMA SettleInFlight ==
  ASSUME IInv, OrderInv, run = "running", NEW n \in Ask, NEW answer, SettleNode(n, answer),
         Held(n), dispatched' = dispatched
  PROVE  InFlight' = InFlight \ {ActorOf[n]}
<1> DEFINE c == [current EXCEPT ![ActorOf[n]] = NoAsk]
<1>1. PumpAll(queue, c, ActiveWithout(n), cap)  BY DEF SettleNode, FinishLiveNode
<1>2. dispatched \subseteq Ask /\ \A x \in Actor : c[x] = IF x = ActorOf[n] THEN NoAsk ELSE current[x]
  BY DEF IInv, SchedInv, TypeOK
<1> HIDE DEF c
<1>3. InFlight' = {a \in Actor : c[a] \in dispatched}
  BY <1>1, <1>2, QueuedNotDispatched, PumpKeepsInFlight
<1> QED  BY <1>2, <1>3 DEF InFlight

LEMMA AdmitInFlight ==
  ASSUME IInv, OrderInv, NEW n \in Ask, AdmitAsk(n)
  PROVE  InFlight' = InFlight
<1> DEFINE q == [queue EXCEPT ![ActorOf[n]] = Append(@, n)]
<1>1. /\ PumpAll(q, current, active, cap) /\ run = "running"
      /\ dispatched' = dispatched /\ dispatched \subseteq Ask
  BY DEF AdmitAsk, IInv, SchedInv, TypeOK
<1>2. n \notin dispatched  BY DEF AdmitAsk, IInv, NodeInv, PromisesAreLive
<1>3. \A a \in Actor : q[a] = IF a = ActorOf[n] THEN Append(queue[a], n) ELSE queue[a]
  BY DEF IInv, SchedInv, TypeOK
<1>4. ASSUME NEW a \in Actor, q[a] # <<>>  PROVE Head(q[a]) \notin dispatched
  <2>1. queue[a] \in Seq(Ask)  BY OrderTypes DEF IInv, SchedInv
  <2>2. CASE a # ActorOf[n]
    BY <2>2, <1>1, <1>3, <1>4, QueuedNotDispatched
  <2>3. CASE a = ActorOf[n] /\ queue[a] = <<>>
    <3>1. Head(q[a]) = n
      <4> HIDE DEF q
      <4>1. q[a] = Append(queue[a], n)  BY <2>3, <1>3
      <4>2. q[a] \in Seq(Ask) /\ q[a][1] = n
        BY <4>1, <2>1, <2>3, AppendProperties, EmptySeq
      <4> QED  BY <4>2, <1>4, HeadTailProperties
    <3> QED  BY <3>1, <1>2
  <2>4. CASE a = ActorOf[n] /\ queue[a] # <<>>
    <3>1. Head(q[a]) = Head(queue[a])
      <4> HIDE DEF q
      <4>1. q[a] = Append(queue[a], n)  BY <2>4, <1>3
      <4>2. q[a] \in Seq(Ask) /\ q[a][1] = queue[a][1]
        BY <4>1, <2>1, <2>4, AppendProperties, EmptySeq
      <4> QED  BY <4>2, <2>1, <2>4, <1>4, HeadTailProperties
    <3> QED  BY <3>1, <2>4, <1>1, QueuedNotDispatched
  <2> QED  BY <2>2, <2>3, <2>4
<1> HIDE DEF q
<1> QED  BY <1>1, <1>4, PumpKeepsInFlight DEF InFlight

LEMMA RetuneInFlight ==
  ASSUME IInv, OrderInv, NEW c \in Caps, SetMaxConcurrency(c)
  PROVE  InFlight' = InFlight
<1>1. run = "running" /\ dispatched' = dispatched /\ dispatched \subseteq Ask
  BY DEF SetMaxConcurrency, nodeVars, IInv, SchedInv, TypeOK
<1>2. CASE c > cap
  <2>1. PumpAll(queue, current, active, c)  BY <1>2 DEF SetMaxConcurrency
  <2> QED  BY <1>1, <2>1, QueuedNotDispatched, PumpKeepsInFlight DEF InFlight
<1>3. CASE ~(c > cap)
  BY <1>1, <1>3 DEF SetMaxConcurrency, actorVars, InFlight
<1> QED  BY <1>2, <1>3

(* A report speaks of the current ask of an actor in a running run.        *)
LEMMA ReportSettles ==
  ASSUME IInv, OrderInv, NEW n \in Ask, Settles(n)
  PROVE  /\ run = "running" /\ run' = run /\ cap' = cap
         /\ InFlight' = InFlight \ {ActorOf[n]}
         /\ ActorOf[n] \in InFlight
<1>1. n \in live /\ n \in dispatched
  BY DEF Settles, SubmitAccepted, SubmitExhausted, TurnAnswers, TurnWithoutResult,
         AskFailed, Reported, Over, IInv, NodeInv, TurnsMatchLive
<1>2. run = "running"
  BY <1>1 DEF IInv, NodeInv, LiveOnlyWhileRunning
<1>3. /\ \E answer \in {"ok", "failed"} : SettleNode(n, answer)
      /\ run' = run /\ cap' = cap /\ dispatched' = dispatched
  BY DEF Settles, SubmitAccepted, SubmitExhausted, TurnAnswers, TurnWithoutResult,
         AskFailed, runVars
<1>4. Held(n)  BY <1>1, <1>2, InFlightIsHeld DEF IInv, SchedInv
<1>5. ActorOf[n] \in InFlight  BY <1>1, <1>4 DEF Held, InFlight
<1> QED  BY <1>2, <1>3, <1>4, <1>5, SettleInFlight

-----------------------------------------------------------------------------
(* The steps.                                                              *)

LEMMA SetLimitStep ==
  ASSUME AllInv, NEW c \in Caps, Retune(c)
  PROVE  GateInv'
<1>1. /\ cap' = c /\ run = "running" /\ run' = run /\ cap \in Nat /\ c \in Nat
      /\ InFlight' = InFlight
  BY RetuneInFlight, CapsAreNat
  DEF Retune, SetMaxConcurrency, AllInv, IInv, SchedInv
<1> DEFINE st == IF c < cap THEN {} ELSE stepped
<1>2. Unpark(working, c, phase, st)  BY DEF Retune, SetLimit
<1>3. Consistent(working, parked, phase, st)
  BY DEF AllInv, GateInv, Consistent
<1>4. Cardinality(st) <= c
  <2>1. Cardinality({}) = 0  BY FS_EmptySet
  <2>2. stepped \subseteq working /\ working \subseteq Actor
    BY DEF AllInv, GateInv, Consistent
  <2>3. Cardinality(stepped) <= cap /\ Cardinality(stepped) \in Nat
    BY <2>2, SeatsFinite DEF AllInv, GateInv, CapBitesAtNextRequest
  <2> QED  BY <2>1, <2>3, <1>1
<1> HIDE DEF st
<1>5. /\ Consistent(working', parked', phase', stepped')
      /\ working' \cup Parked' = working \cup Parked
      /\ parked' # <<>> => Cardinality(working') >= c
      /\ Cardinality(stepped') <= c
  BY <1>1, <1>2, <1>3, <1>4, UnparkSeats
<1>6. Heard'  BY <1>1, <1>5 DEF AllInv, GateInv, Heard
<1> QED  BY <1>1, <1>5, <1>6 DEF GateInv, ParkedMeansFull, CapBitesAtNextRequest

LEMMA ReportStep ==
  ASSUME AllInv, NEW n \in Ask, Report(n)
  PROVE  GateInv'
<1> DEFINE a == ActorOf[n]
           w == working \ {a}
           ph == [phase EXCEPT ![a] = "none"]
           st == stepped \ {a}
<1>1. /\ run = "running" /\ run' = run /\ cap' = cap
      /\ InFlight' = InFlight \ {a}
  BY ReportSettles DEF Report, AllInv
<1>2. /\ Consistent(working, parked, phase, stepped) /\ a \in Actor /\ phase[a] = "step"
      /\ working \cup Parked = InFlight
  BY <1>1 DEF AllInv, GateInv, Heard, Report, Reports
<1>3. a \in working /\ a \notin Parked /\ a \notin stepped
  BY <1>2 DEF Consistent, Parked
<1>4. Unpark(w, cap, ph, st)
  BY <1>3 DEF Report, AskSettled
<1>5. \A x \in Actor : ph[x] = IF x = a THEN "none" ELSE phase[x]
  BY <1>2 DEF Consistent
<1>6. Consistent(w, parked, ph, st)
  <2>1. ph \in [Actor -> Phases]  BY <1>2 DEF Consistent, Phases
  <2> HIDE DEF a, ph
  <2>2. Elems(parked) = {x \in Actor : ph[x] = "parked"}
    BY <1>2, <1>3, <1>5 DEF Consistent, Parked
  <2>3. \A x \in Actor : ph[x] \in {"step", "missed", "sending"} => x \in w
    BY <1>2, <1>5 DEF Consistent
  <2>4. st \subseteq {x \in w : ph[x] = "sending"}
    BY <1>2, <1>5 DEF Consistent
  <2> QED  BY <1>2, <2>1, <2>2, <2>3, <2>4 DEF Consistent
<1>7. st = stepped  BY <1>3
<1>8. cap \in Nat /\ Cardinality(st) <= cap
  BY <1>7, CapsAreNat DEF AllInv, GateInv, CapBitesAtNextRequest, IInv, SchedInv
<1> HIDE DEF a, w, ph, st
<1>9. /\ Consistent(working', parked', phase', stepped')
      /\ working' \cup Parked' = w \cup Parked
      /\ parked' # <<>> => Cardinality(working') >= cap
      /\ Cardinality(stepped') <= cap
  BY <1>4, <1>6, <1>8, UnparkSeats
<1>10. w \cup Parked = InFlight'
  BY <1>1, <1>2, <1>3 DEF w
<1>11. Heard'  BY <1>1, <1>9, <1>10 DEF Heard
<1> QED  BY <1>1, <1>9, <1>11 DEF GateInv, ParkedMeansFull, CapBitesAtNextRequest

LEMMA StartGateStep ==
  ASSUME AllInv, NEW n \in Ask, Start(n)
  PROVE  GateInv'
<1> DEFINE a == ActorOf[n]
<1>1. /\ run = "running" /\ run' = run /\ cap' = cap /\ current[a] = n
      /\ n \notin dispatched /\ dispatched' = dispatched \cup {n} /\ current' = current
  BY DEF Start, StartAsk, Awaiting, Held, runVars, actorVars
<1>2. /\ Consistent(working, parked, phase, stepped) /\ a \in Actor
      /\ working \cup Parked = InFlight
  BY <1>1 DEF AllInv, GateInv, Heard
<1>3. a \notin working /\ a \notin Parked
  BY <1>1, <1>2 DEF InFlight
<1>4. /\ working' = working \cup {a} /\ parked' = parked /\ stepped' = stepped
      /\ phase' = [phase EXCEPT ![a] = "step"]
  BY <1>3 DEF Start, AskStarted
<1>5. InFlight' = InFlight \cup {a}
  <2>1. \A x \in Actor : current[x] = n => x = a
    <3> SUFFICES ASSUME NEW x \in Actor, current[x] = n, x # a  PROVE FALSE  OBVIOUS
    <3>1. n \notin Elems(admitted[x])
      BY NotOthers DEF AllInv, OrderInv
    <3>2. Ordered(admitted[x], queue[x], current[x], live, dispatched)
      BY <1>1 DEF AllInv, OrderInv, InOrder
    <3>3. admitted[x] \in Seq(Ask) /\ queue[x] \in Seq(Ask)
      BY OrderTypes DEF AllInv, IInv, SchedInv
    <3>4. Begun(admitted[x], queue[x]) \in DOMAIN admitted[x]
      BY <3>2, <3>3, Places DEF Ordered, CurrentIsLast
    <3>5. n = admitted[x][Begun(admitted[x], queue[x])]
      BY <3>2 DEF Ordered, CurrentIsLast
    <3> QED  BY <3>1, <3>4, <3>5 DEF Elems
  <2> QED  BY <2>1, <1>1, <1>2 DEF InFlight
<1>6. \A x \in Actor : phase'[x] = IF x = a THEN "step" ELSE phase[x]
  BY <1>2, <1>4 DEF Consistent
<1> HIDE DEF a
<1>7. Consistent(working', parked', phase', stepped')
  <2>1. phase' \in [Actor -> Phases]  BY <1>2, <1>4 DEF Consistent, Phases
  <2>2. Elems(parked) = {x \in Actor : phase'[x] = "parked"}
    BY <1>2, <1>3, <1>6 DEF Consistent, Parked
  <2>3. \A x \in Actor : phase'[x] \in {"step", "missed", "sending"} => x \in working'
    BY <1>2, <1>4, <1>6 DEF Consistent
  <2>4. stepped \subseteq {x \in working' : phase'[x] = "sending"}
    BY <1>2, <1>3, <1>4, <1>6 DEF Consistent
  <2>5. working' \cap Elems(parked) = {} /\ working' \subseteq Actor
    BY <1>2, <1>3, <1>4 DEF Consistent, Parked
  <2> QED  BY <1>2, <1>4, <2>1, <2>2, <2>3, <2>4, <2>5 DEF Consistent
<1>8. Cardinality(working) <= Cardinality(working') /\ Cardinality(working) \in Nat
      /\ Cardinality(working') \in Nat
  BY <1>2, <1>4, <1>7, SeatsFinite, FS_Subset DEF Consistent
<1>9. ParkedMeansFull'
  BY <1>1, <1>4, <1>8, CapsAreNat
  DEF AllInv, GateInv, ParkedMeansFull, IInv, SchedInv
<1>10. CapBitesAtNextRequest'
  BY <1>1, <1>4 DEF AllInv, GateInv, CapBitesAtNextRequest
<1>11. Heard'
  BY <1>1, <1>2, <1>4, <1>5 DEF Heard, Parked
<1> QED  BY <1>7, <1>9, <1>10, <1>11 DEF GateInv

(* The end of the run empties the gate. *)
LEMMA OverGateStep ==
  ASSUME AllInv, run' # "running", cap' = cap, parked' = <<>>, working' \subseteq Actor,
         TurnsAborted
  PROVE  GateInv'
<1>1. \A a \in Actor : phase'[a] = "none"  BY DEF TurnsAborted
<1>2. phase' \in [Actor -> Phases] /\ stepped' = {}  BY DEF TurnsAborted, Phases
<1>3. Elems(parked') = {} /\ Once(parked') /\ parked' \in Seq(Actor)
  BY EmptyOnce, EmptySeq
<1>4. Consistent(working', parked', phase', stepped')
  BY <1>1, <1>2, <1>3 DEF Consistent
<1>5. cap \in Nat /\ Cardinality({}) = 0
  BY CapsAreNat, FS_EmptySet DEF AllInv, IInv, SchedInv
<1> QED  BY <1>1, <1>2, <1>4, <1>5 DEF GateInv, ParkedMeansFull, CapBitesAtNextRequest, Heard

(* Nothing the gate hears of. *)
LEMMA UnheardGateStep ==
  ASSUME AllInv, UNCHANGED gate, run' = run, cap' = cap, run = "running" => InFlight' = InFlight
  PROVE  GateInv'
BY DEF AllInv, GateInv, ParkedMeansFull, CapBitesAtNextRequest, Heard, gate, Parked, Consistent

LEMMA UnheardStep ==
  ASSUME AllInv, Unheard
  PROVE  GateInv'
<1>g. UNCHANGED gate  BY DEF Unheard
<1>1. CASE CreateActor
  BY <1>1, <1>g, UnheardGateStep DEF CreateActor, actorVars, nodeVars, InFlight
<1>2. ASSUME NEW n \in Ask, AdmitAsk(n)  PROVE GateInv'
  BY <1>2, <1>g, AdmitInFlight, UnheardGateStep DEF AllInv, AdmitAsk, runVars
<1>3. ASSUME NEW n \in Ask, AskAfterSettled(n)  PROVE GateInv'
  BY <1>3, <1>g, UnheardGateStep DEF AskAfterSettled, runVars
<1>4. ASSUME NEW n \in Ask, SessionFailed(n)  PROVE GateInv'
  <2>1. /\ run = "running" /\ SettleNode(n, "failed") /\ Held(n) /\ dispatched' = dispatched
        /\ run' = run /\ cap' = cap /\ n \notin dispatched
    BY <1>4 DEF SessionFailed, Awaiting, runVars
  <2>2. InFlight' = InFlight \ {ActorOf[n]}
    BY <2>1, SettleInFlight DEF AllInv
  <2>3. ActorOf[n] \notin InFlight  BY <2>1 DEF Held, InFlight
  <2> QED  BY <1>g, <2>1, <2>2, <2>3, UnheardGateStep
<1>5. ASSUME NEW a \in Actor, AnySession(a)  PROVE GateInv'
  BY <1>5, <1>g, UnheardGateStep
  DEF AnySession, CreateActorSession, runVars, nodeVars, InFlight
<1>6. ASSUME NEW n \in Ask, AskStats(n)  PROVE GateInv'
  BY <1>6, <1>g, UnheardGateStep DEF AskStats, runVars, actorVars, InFlight
<1> QED  BY <1>1, <1>2, <1>3, <1>4, <1>5, <1>6 DEF Unheard

-----------------------------------------------------------------------------
(* A turn.                                                                 *)

(* The phase of one actor changes and its seat does not. *)
LEMMA PhaseStep ==
  ASSUME AllInv, NEW a \in working, phase[a] # "none", NEW e \in {"step", "missed", "sending"},
         UNCHANGED <<vars, working, parked>>, phase' = [phase EXCEPT ![a] = e],
         \/ stepped' = stepped /\ a \notin stepped
         \/ stepped' = stepped \ {a}
         \/ stepped' = stepped \cup {a} /\ e = "sending" /\ Cardinality(working) <= cap
  PROVE  GateInv'
<1>1. Consistent(working, parked, phase, stepped) /\ a \in Actor
  BY DEF AllInv, GateInv, Consistent
<1>2. \A x \in Actor : phase'[x] = IF x = a THEN e ELSE phase[x]
  BY <1>1 DEF Consistent
<1>3. Consistent(working', parked', phase', stepped')
  <2>1. phase' \in [Actor -> Phases]  BY <1>1 DEF Consistent, Phases
  <2>2. a \notin Elems(parked)  BY <1>1 DEF Consistent
  <2>3. Elems(parked) = {x \in Actor : phase'[x] = "parked"}
    BY <1>1, <1>2, <2>2 DEF Consistent
  <2>4. \A x \in Actor : phase'[x] \in {"step", "missed", "sending"} => x \in working
    BY <1>1, <1>2 DEF Consistent
  <2>5. stepped' \subseteq {x \in working : phase'[x] = "sending"}
    BY <1>1, <1>2 DEF Consistent
  <2> QED  BY <1>1, <2>1, <2>3, <2>4, <2>5 DEF Consistent
<1>4. UNCHANGED <<run, cap, current, dispatched>>
  BY DEF vars, runVars, actorVars, nodeVars
<1>5. /\ cap \in Nat /\ Cardinality(stepped) <= cap
      /\ stepped \subseteq working /\ working \subseteq Actor
  BY <1>1, CapsAreNat DEF AllInv, GateInv, CapBitesAtNextRequest, IInv, SchedInv, Consistent
<1>6. Cardinality(stepped') <= cap
  <2>1. CASE stepped' \subseteq stepped
    <3>1. Cardinality(stepped') <= Cardinality(stepped)
      BY <2>1, <1>5, SeatsFinite, FS_Subset
    <3> QED  BY <3>1, <2>1, <1>5, SeatsFinite
  <2>2. CASE stepped' \subseteq working /\ Cardinality(working) <= cap
    <3>1. Cardinality(stepped') <= Cardinality(working)
      BY <2>2, <1>5, SeatsFinite, FS_Subset
    <3> QED  BY <3>1, <2>2, <1>5, SeatsFinite
  <2> QED  BY <2>1, <2>2, <1>5
<1>7. Heard'
  <2>1. run = "running"  BY <1>1 DEF AllInv, GateInv, Heard
  <2> QED  BY <2>1, <1>4 DEF AllInv, GateInv, Heard, Parked, InFlight
<1> QED
  BY <1>3, <1>4, <1>6, <1>7
  DEF AllInv, GateInv, ParkedMeansFull, CapBitesAtNextRequest

LEMMA RequestStep ==
  ASSUME AllInv, NEW a \in Actor,
         Request(a) \/ Miss(a) \/ Acquire(a) \/ RequestEnds(a)
  PROVE  GateInv'
<1>1. Consistent(working, parked, phase, stepped)
  BY DEF AllInv, GateInv
<1>2. phase[a] \in {"step", "missed", "sending"}
  BY DEF Request, Miss, Acquire, RequestEnds
<1>3. a \in working /\ phase[a] # "none"  BY <1>1, <1>2 DEF Consistent
<1>4. phase[a] # "sending" => a \notin stepped  BY <1>1 DEF Consistent
<1>5. ~Blocked(a) => Cardinality(working) <= cap
  <2>1. Cardinality(working) \in Nat /\ cap \in Nat
    BY <1>1, SeatsFinite, CapsAreNat DEF Consistent, AllInv, IInv, SchedInv
  <2> QED  BY <2>1, <1>3 DEF Blocked
<1>6. CASE Request(a) \/ Acquire(a)
  BY <1>3, <1>5, <1>6, PhaseStep DEF Request, Acquire
<1>7. CASE Miss(a)
  BY <1>3, <1>4, <1>7, PhaseStep DEF Miss
<1>8. CASE RequestEnds(a)
  BY <1>3, <1>8, PhaseStep DEF RequestEnds
<1> QED  BY <1>6, <1>7, <1>8

(* Who has to wait is last in the FIFO, and leaves its seat to nobody: the *)
(* cap was exceeded before, so it is reached still.                        *)
LEMMA ParkStep ==
  ASSUME AllInv, NEW a \in Actor, Park(a)
  PROVE  GateInv'
<1>1. /\ phase[a] = "missed" /\ a \in working /\ Cardinality(working) > cap
      /\ working' = working \ {a} /\ parked' = Append(parked, a)
      /\ phase' = [phase EXCEPT ![a] = "parked"] /\ stepped' = stepped
  BY DEF Park, Blocked
<1>2. UNCHANGED <<run, cap, current, dispatched>>
  BY DEF Park, vars, runVars, actorVars, nodeVars
<1>3. /\ Consistent(working, parked, phase, stepped) /\ run = "running"
      /\ working \cup Parked = InFlight
  BY <1>1 DEF AllInv, GateInv, Heard
<1>4. a \notin Elems(parked) /\ a \notin stepped
  BY <1>1, <1>3 DEF Consistent
<1>5. /\ Append(parked, a) \in Seq(Actor) /\ Once(Append(parked, a))
      /\ Elems(Append(parked, a)) = Elems(parked) \cup {a}
  BY <1>3, <1>4, AppendOnce DEF Consistent
<1>6. \A x \in Actor : phase'[x] = IF x = a THEN "parked" ELSE phase[x]
  BY <1>1, <1>3 DEF Consistent
<1>7. Consistent(working', parked', phase', stepped')
  <2>1. phase' \in [Actor -> Phases]  BY <1>1, <1>3 DEF Consistent, Phases
  <2>2. Elems(parked') = {x \in Actor : phase'[x] = "parked"}
    BY <1>1, <1>3, <1>5, <1>6 DEF Consistent
  <2>3. \A x \in Actor : phase'[x] \in {"step", "missed", "sending"} => x \in working'
    BY <1>1, <1>3, <1>6 DEF Consistent
  <2>4. stepped' \subseteq {x \in working' : phase'[x] = "sending"}
    BY <1>1, <1>3, <1>4, <1>6 DEF Consistent
  <2>5. working' \cap Elems(parked') = {} /\ working' \subseteq Actor
    BY <1>1, <1>3, <1>5 DEF Consistent
  <2> QED  BY <1>1, <1>5, <2>1, <2>2, <2>3, <2>4, <2>5 DEF Consistent
<1>8. Cardinality(working') >= cap
  <2>1. /\ IsFiniteSet(working) /\ Cardinality(working) \in Nat /\ cap \in Nat
    BY <1>3, SeatsFinite, CapsAreNat DEF Consistent, AllInv, IInv, SchedInv
  <2>2. Cardinality(working \ {a}) = Cardinality(working) - 1
    BY <2>1, <1>1, FS_RemoveElement
  <2> QED  BY <2>1, <2>2, <1>1
<1>9. Heard'
  BY <1>1, <1>2, <1>3, <1>5 DEF Heard, Parked, InFlight
<1> QED
  BY <1>1, <1>2, <1>7, <1>8, <1>9
  DEF AllInv, GateInv, ParkedMeansFull, CapBitesAtNextRequest

(* An aborted request takes its seat back, also beyond the cap. *)
LEMMA AbortedStep ==
  ASSUME AllInv, NEW a \in Actor, RequestAborted(a)
  PROVE  GateInv'
<1>1. /\ phase[a] \in {"missed", "parked"}
      /\ working' = working \cup {a} /\ parked' = Without(parked, a)
      /\ phase' = [phase EXCEPT ![a] = "step"] /\ stepped' = stepped
  BY DEF RequestAborted
<1>2. UNCHANGED <<run, cap, current, dispatched>>
  BY DEF RequestAborted, vars, runVars, actorVars, nodeVars
<1>3. /\ Consistent(working, parked, phase, stepped) /\ run = "running"
      /\ working \cup Parked = InFlight
  BY <1>1 DEF AllInv, GateInv, Heard
<1>4. a \in working \cup Elems(parked) /\ a \notin stepped
  BY <1>1, <1>3 DEF Consistent
<1>5. /\ parked' \in Seq(Actor) /\ Once(parked')
      /\ Elems(parked') = Elems(parked) \ {a}
  <2>1. CASE a \in Elems(parked)
    BY <2>1, <1>1, <1>3, WithoutOnce DEF Consistent
  <2>2. CASE a \notin Elems(parked)
    <3>1. parked' = parked  BY <2>2, <1>1, <1>3, WithoutAbsent DEF Consistent
    <3> QED  BY <3>1, <2>2, <1>3 DEF Consistent
  <2> QED  BY <2>1, <2>2
<1>6. \A x \in Actor : phase'[x] = IF x = a THEN "step" ELSE phase[x]
  BY <1>1, <1>3 DEF Consistent
<1>7. Consistent(working', parked', phase', stepped')
  <2>1. phase' \in [Actor -> Phases]  BY <1>1, <1>3 DEF Consistent, Phases
  <2>2. Elems(parked') = {x \in Actor : phase'[x] = "parked"}
    BY <1>3, <1>5, <1>6 DEF Consistent
  <2>3. \A x \in Actor : phase'[x] \in {"step", "missed", "sending"} => x \in working'
    BY <1>1, <1>3, <1>6 DEF Consistent
  <2>4. stepped' \subseteq {x \in working' : phase'[x] = "sending"}
    BY <1>1, <1>3, <1>4, <1>6 DEF Consistent
  <2>5. working' \cap Elems(parked') = {} /\ working' \subseteq Actor
    BY <1>1, <1>3, <1>5 DEF Consistent
  <2> QED  BY <1>1, <1>5, <2>1, <2>2, <2>3, <2>4, <2>5 DEF Consistent
<1>8. parked' # <<>> => Cardinality(working') >= cap
  <2>1. parked' # <<>> => parked # <<>>
    BY <1>3, <1>5, NonemptyElems DEF Consistent
  <2>2. Cardinality(working) <= Cardinality(working')
    BY <1>1, <1>7, SeatsFinite, FS_Subset DEF Consistent
  <2>3. Cardinality(working) \in Nat /\ Cardinality(working') \in Nat /\ cap \in Nat
    BY <1>3, <1>7, SeatsFinite, CapsAreNat DEF Consistent, AllInv, IInv, SchedInv
  <2> QED  BY <2>1, <2>2, <2>3 DEF AllInv, GateInv, ParkedMeansFull
<1>9. Heard'
  <2>1. working' \cup Elems(parked') = working \cup Elems(parked)
    BY <1>1, <1>4, <1>5
  <2> QED  BY <2>1, <1>2, <1>3 DEF Heard, Parked, InFlight
<1> QED
  BY <1>1, <1>2, <1>7, <1>8, <1>9
  DEF AllInv, GateInv, ParkedMeansFull, CapBitesAtNextRequest

-----------------------------------------------------------------------------
LEMMA GateStep ==
  ASSUME AllInv, [GatedNext]_gatedVars
  PROVE  GateInv'
<1>1. CASE Unheard  BY <1>1, UnheardStep
<1>2. ASSUME NEW n \in Ask, Start(n)  PROVE GateInv'
  BY <1>2, StartGateStep
<1>3. ASSUME NEW n \in Ask, Report(n)  PROVE GateInv'
  BY <1>3, ReportStep
<1>4. ASSUME NEW n \in Ask, GoesOn(n)  PROVE GateInv'
  BY <1>4, UnheardGateStep
  DEF GoesOn, SubmitRejected, TurnNudged, runVars, actorVars, InFlight
<1>5. ASSUME NEW c \in Caps, Retune(c)  PROVE GateInv'
  BY <1>5, SetLimitStep
<1>6. CASE Ends
  <2>1. run' # "running" /\ cap' = cap
    BY <1>6 DEF Ends, Complete, Stop, EndRun, SettleRun
  <2> QED  BY <2>1, <1>6, OverGateStep DEF Ends, AllSettled
<1>7. CASE Fails
  <2>1. run' # "running" /\ cap' = cap
    BY <1>7 DEF Fails, FailRun, AskUnknownActor, EndRun, SettleRun
  <2>2. working' \subseteq Actor
    BY <1>7 DEF Fails, AllAborted, AllInv, GateInv, Consistent, Parked
  <2> QED  BY <2>1, <2>2, <1>7, OverGateStep DEF Fails, AllAborted
<1>8. ASSUME NEW a \in Actor, Turn(a)  PROVE GateInv'
  BY <1>8, RequestStep, ParkStep DEF Turn
<1>9. ASSUME NEW a \in Actor, RequestAborted(a)  PROVE GateInv'
  BY <1>9, AbortedStep
<1>10. CASE UNCHANGED gatedVars
  BY <1>10, UnheardGateStep DEF gatedVars, gate, vars, runVars, actorVars, nodeVars, InFlight
<1> QED
  BY <1>1, <1>2, <1>3, <1>4, <1>5, <1>6, <1>7, <1>8, <1>9, <1>10 DEF GatedNext

LEMMA GateInit == GatedInit => GateInv
<1> SUFFICES ASSUME GatedInit PROVE GateInv  OBVIOUS
<1>1. /\ working = {} /\ parked = <<>> /\ stepped = {}
      /\ phase = [a \in Actor |-> "none"]
      /\ run = "running" /\ dispatched = {} /\ cap \in Nat
  BY DEF GatedInit, Init
<1>2. Consistent(working, parked, phase, stepped)
  BY <1>1, EmptyOnce, EmptySeq DEF Consistent, Phases
<1>3. Cardinality({}) = 0  BY FS_EmptySet
<1>4. Heard  BY <1>1, EmptyOnce DEF Heard, Parked, InFlight
<1> QED  BY <1>1, <1>2, <1>3, <1>4 DEF GateInv, ParkedMeansFull, CapBitesAtNextRequest

THEOREM GateInvariant == GatedSpec => []AllInv
<1>1. GatedInit => AllInv
  BY GateInit, InitIInv, OrderInit DEF GatedInit, AllInv
<1>2. AllInv /\ [GatedNext]_gatedVars => AllInv'
  BY SchedulerStep, StepIInv, OrderStep, GateStep DEF AllInv
<1> QED  BY <1>1, <1>2, PTL DEF GatedSpec

(* The gate's variables keep their types, and only an actor with a seat    *)
(* has a request under way (workflow-seat-gate.ts).                        *)
THEOREM GateTypeCorrect == GatedSpec => []GateTypeOK
<1>1. AllInv => GateTypeOK
  BY DEF AllInv, GateInv, Consistent, GateTypeOK, Phases
<1> QED  BY <1>1, GateInvariant, PTL

(* The gate, which counts on its own what askStarted and askSettled tell   *)
(* it, always has exactly the asks in flight, each once.                   *)
THEOREM SeatsAgree == GatedSpec => []SeatsMatchAsks
<1>1. AllInv => SeatsMatchAsks
  <2> SUFFICES ASSUME AllInv, run = "running"
               PROVE  /\ working \cup Parked = InFlight
                      /\ working \cap Parked = {}
                      /\ Cardinality(Parked) = Len(parked)
                      /\ Parked = {a \in Actor : phase[a] = "parked"}
    BY DEF SeatsMatchAsks, InFlight
  <2>1. Cardinality(Elems(parked)) = Len(parked)
    BY OnceLen DEF AllInv, GateInv, Consistent
  <2> QED  BY <2>1 DEF AllInv, GateInv, Consistent, Heard, Parked
<1> QED  BY <1>1, GateInvariant, PTL

(* unpark leaves nobody in the FIFO next to a free seat, whoever settles,  *)
(* aborts or retunes.                                                      *)
THEOREM NobodyWaitsForNothing == GatedSpec => []ParkedMeansFull
<1>1. AllInv => ParkedMeansFull  BY DEF AllInv, GateInv
<1> QED  BY <1>1, GateInvariant, PTL

(* While somebody is parked the scheduler has more asks active than the    *)
(* cap allows, so pumpAll dispatches nobody past the FIFO.                 *)
THEOREM FifoIsNotOvertaken == GatedSpec => []NobodyOvertakes
<1>1. AllInv => NobodyOvertakes
  <2> SUFFICES ASSUME AllInv, run = "running", parked # <<>>  PROVE active > cap
    BY DEF NobodyOvertakes
  <2>1. /\ Consistent(working, parked, phase, stepped)
        /\ working \cup Elems(parked) = InFlight
        /\ Cardinality(working) >= cap
        /\ active = Cardinality(Busy)
    BY DEF AllInv, GateInv, Heard, ParkedMeansFull, IInv, SchedInv, ActiveCountsBusy, Parked
  <2>2. InFlight \subseteq Busy /\ Busy \subseteq Actor
    BY DEF InFlight, Busy, AllInv, IInv, SchedInv, TypeOK
  <2>3. PICK a \in Elems(parked) : a \notin working /\ a \in Actor
    BY <2>1, NonemptyElems DEF Consistent
  <2>4. Cardinality(working \cup {a}) = Cardinality(working) + 1
    BY <2>1, <2>3, SeatsFinite, FS_AddElement DEF Consistent
  <2>5. Cardinality(working \cup {a}) <= Cardinality(Busy)
    BY <2>1, <2>2, <2>3, SeatsFinite, FS_Subset
  <2>6. Cardinality(working) \in Nat /\ Cardinality(Busy) \in Nat /\ cap \in Nat
    BY <2>1, <2>2, SeatsFinite, CapsAreNat DEF Consistent, AllInv, IInv, SchedInv
  <2> QED  BY <2>1, <2>4, <2>5, <2>6
<1> QED  BY <1>1, GateInvariant, PTL

(* Of the requests let through since the cap was last lowered, never more  *)
(* than the cap are in flight: needsSeat holds back the rest.              *)
THEOREM LoweredCapBites == GatedSpec => []CapBitesAtNextRequest
<1>1. AllInv => CapBitesAtNextRequest  BY DEF AllInv, GateInv
<1> QED  BY <1>1, GateInvariant, PTL
=============================================================================
