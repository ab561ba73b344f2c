------------------------- MODULE AskSchedulerProofs -------------------------
(***************************************************************************)
(* Theorems about AskScheduler, for any asks, actors, caps and budgets.    *)
(*                                                                         *)
(* The argument has two halves that hardly meet.  NodeInv relates what the *)
(* script, the journal and the driver know of each ask.  The scheduling    *)
(* half is about activeAsks, the actors' current asks and the queues; all  *)
(* that changes them goes through PumpAll, so the counting is done once,   *)
(* in PumpCounts, and each action only has to say what it pumps.           *)
(*                                                                         *)
(* On the two stand the events of each ask (StoryInv), the order in which  *)
(* an actor takes its asks (OrderInv) and the refinement of AskContract.   *)
(***************************************************************************)
EXTENDS AskScheduler, OnceSequencesProofs

USE SchedulerAssumption

(* The actors that hold an ask when their current asks are c. *)
Holding(c) == {a \in Actor : c[a] # NoAsk}

QueueType   == [Actor -> Seq(Ask)]
CurrentType == [Actor -> Ask \cup {NoAsk}]

(* What pumping establishes, whatever queues, current asks and count it    *)
(* starts from, as long as the count is right.                             *)
Pumped(c, limit) ==
  /\ queue' \in QueueType
  /\ current' \in CurrentType
  /\ session' \in [Actor -> SessionState]
  /\ active' \in Nat
  /\ active' = Cardinality(Busy')
  /\ Pumpable(queue, current)' = {} \/ active' >= limit
  /\ (\E a \in Actor : current'[a] \notin {NoAsk, c[a]}) => active' <= limit

LEMMA ActorsFinite == IsFiniteSet(Actor) /\ Actor \subseteq Nat
BY FS_Interval DEF Actor

LEMMA HoldingFinite ==
  ASSUME NEW c
  PROVE  IsFiniteSet(Holding(c)) /\ Cardinality(Holding(c)) \in Nat
<1>1. Holding(c) \subseteq Actor  BY DEF Holding
<1> QED  BY <1>1, ActorsFinite, FS_Subset, FS_CardinalityType

(* Pumping keeps the count of the busy actors exact, leaves nobody waiting *)
(* who could run, and never starts an ask beyond the limit.                *)
LEMMA PumpCounts ==
  ASSUME NEW q \in QueueType, NEW c \in CurrentType, NEW k \in Nat, NEW limit \in Nat,
         session \in [Actor -> SessionState],
         k = Cardinality(Holding(c)),
         PumpAll(q, c, k, limit)
  PROVE  Pumped(c, limit)
<1> DEFINE R == Pumpable(q, c)
<1>1. PICK P \in SUBSET R :
        /\ Cardinality(P) = Room(q, c, k, limit)
        /\ \A a \in P : \A b \in R \ P : a < b
        /\ queue' = [a \in Actor |-> IF a \in P THEN Tail(q[a]) ELSE q[a]]
        /\ current' = [a \in Actor |-> IF a \in P THEN Head(q[a]) ELSE c[a]]
        /\ session' = [a \in Actor |-> IF a \in P /\ session[a] = "none"
                                       THEN "creating" ELSE session[a]]
        /\ active' = k + Cardinality(P)
  BY DEF PumpAll
<1> R \subseteq Actor /\ P \subseteq Actor  BY DEF Pumpable
<1>2. /\ IsFiniteSet(R) /\ Cardinality(R) \in Nat
      /\ IsFiniteSet(P) /\ Cardinality(P) \in Nat
      /\ Cardinality(P) = Cardinality(R) => P = R
  BY ActorsFinite, FS_Subset, FS_CardinalityType
<1>3. \A a \in P : /\ c[a] = NoAsk
                   /\ Head(q[a]) \in Ask
                   /\ Tail(q[a]) \in Seq(Ask)
  BY DEF Pumpable, QueueType
<1>4. queue' \in QueueType /\ current' \in CurrentType /\ session' \in [Actor -> SessionState]
  BY <1>1, <1>3 DEF QueueType, CurrentType, SessionState
<1>5. Busy' = Holding(c) \cup P
  BY <1>1, <1>3 DEF Busy, Holding
<1>6. active' = Cardinality(Busy')
  <2>1. Holding(c) \cap P = {}  BY <1>3 DEF Holding
  <2>2. Cardinality(Holding(c) \cup P) = Cardinality(Holding(c)) + Cardinality(P)
    <3>1. Cardinality(Holding(c) \cap P) = 0  BY <2>1, FS_EmptySet
    <3>2. IsFiniteSet(Holding(c)) /\ Cardinality(Holding(c)) \in Nat  BY HoldingFinite
    <3>3. Cardinality(Holding(c) \cup P) =
            Cardinality(Holding(c)) + Cardinality(P) - Cardinality(Holding(c) \cap P)
      BY <3>2, <1>2, FS_Union
    <3> QED  BY <3>1, <3>2, <3>3, <1>2
  <2> QED  BY <2>2, <1>1, <1>5
<1>7. (\E a \in Actor : current'[a] \notin {NoAsk, c[a]}) => active' <= limit
  <2>1. SUFFICES ASSUME NEW a \in Actor, current'[a] \notin {NoAsk, c[a]}  PROVE active' <= limit
    OBVIOUS
  <2>2. a \in P  BY <1>1, <2>1
  <2>3. Cardinality(P) # 0  BY <1>2, <2>2, FS_EmptySet
  <2> QED  BY <1>1, <1>2, <2>3 DEF Room
<1>8. Pumpable(queue, current)' = {} \/ active' >= limit
  <2>1. CASE Cardinality(P) = Cardinality(R)
    <3>1. P = R  BY <2>1, <1>2
    <3>2. \A a \in Actor : current'[a] = NoAsk => queue'[a] = <<>>
      BY <1>1, <1>3, <3>1 DEF Pumpable
    <3> QED  BY <3>2 DEF Pumpable
  <2>2. CASE Cardinality(P) # Cardinality(R)
    BY <2>2, <1>1, <1>2 DEF Room
  <2> QED  BY <2>1, <2>2
<1>9. active' \in Nat  BY <1>1, <1>2
<1> QED  BY <1>4, <1>6, <1>7, <1>8, <1>9 DEF Pumped

-----------------------------------------------------------------------------
(* The scheduling half of the invariant.                                   *)

(* live is emptied with the end of the run and only asks admitted while it *)
(* runs enter it.  Without this, a late report of the driver could still   *)
(* settle an ask and pump the queues of a run that is over.                *)
LiveOnlyWhileRunning == run # "running" => live = {}

SchedInv == TypeOK /\ LiveOnlyWhileRunning /\ ActiveCountsBusy /\ WorkConserving

SchedType ==
  /\ queue \in QueueType
  /\ current \in CurrentType
  /\ session \in [Actor -> SessionState]
  /\ active \in Nat

CapStep ==
  run' = "running" /\ (\E a \in Actor : current'[a] \notin {NoAsk, current[a]})
    => active' <= cap'

(* The current asks once n has left its actor. *)
CurrentWithout(n) ==
  IF Held(n) THEN [current EXCEPT ![ActorOf[n]] = NoAsk] ELSE current

LEMMA CapsAreNat == TypeOK => cap \in Nat /\ cap > 0
BY DEF TypeOK

(* Settling an ask frees its actor and its place together.                 *)
LEMMA SettlePumps ==
  ASSUME TypeOK, ActiveCountsBusy, run = "running",
         NEW n \in Ask, NEW answer, SettleNode(n, answer)
  PROVE  Pumped(CurrentWithout(n), cap)
<1> DEFINE a == ActorOf[n]
           c == CurrentWithout(n)
<1> USE DEF CurrentWithout
<1>1. a \in Actor  OBVIOUS
<1>2. /\ queue \in QueueType /\ c \in CurrentType
      /\ session \in [Actor -> SessionState] /\ active \in Nat
  BY DEF TypeOK, QueueType, CurrentType
<1>3. Busy = Holding(current) /\ active = Cardinality(Holding(current))
  BY DEF Busy, Holding, ActiveCountsBusy
<1>4. ActiveWithout(n) = Cardinality(Holding(c)) /\ ActiveWithout(n) <= active
  <2>1. CASE Held(n)
    <3>1. Holding(c) = Holding(current) \ {a}
      BY <2>1, <1>1 DEF Holding, Held, TypeOK
    <3>2. a \in Holding(current)
      BY <2>1, <1>1 DEF Holding, Held
    <3>3. IsFiniteSet(Holding(current)) /\ Cardinality(Holding(current)) \in Nat
      BY HoldingFinite
    <3>4. Cardinality(Holding(current) \ {a}) = Cardinality(Holding(current)) - 1
      BY <3>2, <3>3, FS_RemoveElement
    <3> HIDE DEF c
    <3>5. ActiveWithout(n) = active - 1  BY <2>1 DEF ActiveWithout
    <3> QED  BY <1>3, <3>1, <3>3, <3>4, <3>5
  <2>2. CASE ~Held(n)
    BY <2>2, <1>2, <1>3 DEF ActiveWithout
  <2> QED  BY <2>1, <2>2
<1>5. ActiveWithout(n) \in Nat  BY <1>4, HoldingFinite
<1>6. PumpAll(queue, c, ActiveWithout(n), cap)  BY DEF SettleNode, FinishLiveNode
<1>7. cap \in Nat  BY CapsAreNat
<1> HIDE DEF CurrentWithout
<1> QED  BY <1>2, <1>4, <1>5, <1>6, <1>7, PumpCounts

(* A pump is all a scheduling step may do to queues, actors and the count.  *)
LEMMA PumpedIsGood ==
  ASSUME NEW c, cap' \in Nat, Pumped(c, cap'),
         \A a \in Actor : c[a] \in {NoAsk, current[a]}
  PROVE  SchedType' /\ ActiveCountsBusy' /\ WorkConserving' /\ CapStep
BY DEF Pumped, SchedType, ActiveCountsBusy, WorkConserving, CapStep

LEMMA UnpumpedIsGood ==
  ASSUME SchedInv, cap \in Nat,
         UNCHANGED <<queue, current, active>>, cap' = cap, run' = run,
         session' \in [Actor -> SessionState]
  PROVE  SchedType' /\ ActiveCountsBusy' /\ WorkConserving' /\ CapStep
BY DEF SchedInv, TypeOK, SchedType, ActiveCountsBusy, WorkConserving, CapStep,
       Busy, Pumpable, QueueType, CurrentType

(* Once the run is over the counts no longer matter. *)
LEMMA OverIsGood ==
  ASSUME TypeOK, run' # "running", UNCHANGED <<queue, current, session>>, active' = 0
  PROVE  SchedType' /\ ActiveCountsBusy' /\ WorkConserving' /\ CapStep
BY DEF TypeOK, SchedType, ActiveCountsBusy, WorkConserving, CapStep, QueueType, CurrentType

LEMMA SchedStep ==
  ASSUME SchedInv, [Next]_vars
  PROVE  SchedType' /\ ActiveCountsBusy' /\ WorkConserving' /\ CapStep
<1> USE DEF SchedInv
<1> DEFINE Good == SchedType' /\ ActiveCountsBusy' /\ WorkConserving' /\ CapStep
<1>t. /\ cap \in Nat /\ active \in Nat
      /\ queue \in QueueType /\ current \in CurrentType
      /\ session \in [Actor -> SessionState]
  BY CapsAreNat DEF TypeOK, QueueType, CurrentType
<1>b. run = "running" => active = Cardinality(Holding(current))
  BY DEF ActiveCountsBusy, Busy, Holding
<1>settle. ASSUME NEW n \in Ask, NEW answer, SettleNode(n, answer), n \in live, cap' = cap
           PROVE  Good
  <2>1. run = "running"  BY <1>settle DEF LiveOnlyWhileRunning
  <2>2. Pumped(CurrentWithout(n), cap)
    BY <1>settle, <2>1, SettlePumps
  <2>3. \A a \in Actor : CurrentWithout(n)[a] \in {NoAsk, current[a]}
    BY <1>t DEF CurrentWithout, CurrentType
  <2> QED  BY <1>settle, <2>2, <2>3, <1>t, PumpedIsGood
<1>over. ASSUME NEW status \in {"completed", "stopped", "errored"}, NEW e, SettleRun(status, e),
                UNCHANGED <<queue, current, session>>
         PROVE  Good
  BY <1>over, OverIsGood DEF SettleRun
<1>1. CASE CreateActor
  BY <1>1, <1>t, UnpumpedIsGood DEF CreateActor, actorVars
<1>2. ASSUME NEW n \in Ask, AdmitAsk(n)  PROVE Good
  <2> DEFINE q == [queue EXCEPT ![ActorOf[n]] = Append(@, n)]
  <2>1. q \in QueueType  BY <1>t DEF QueueType
  <2>2. PumpAll(q, current, active, cap) /\ cap' = cap /\ run = "running"
    BY <1>2 DEF AdmitAsk, runVars
  <2> HIDE DEF q
  <2>3. Pumped(current, cap)
    BY <1>t, <1>b, <2>1, <2>2, PumpCounts
  <2> QED  BY <1>t, <2>2, <2>3, PumpedIsGood
<1>3. ASSUME NEW n \in Ask, AskUnknownActor(n)  PROVE Good
  BY <1>3, <1>over DEF AskUnknownActor
<1>4. ASSUME NEW n \in Ask, AskAfterSettled(n)  PROVE Good
  BY <1>4, <1>t, UnpumpedIsGood DEF AskAfterSettled, actorVars, runVars
<1>5. ASSUME NEW n \in Ask, Dispatch(n)  PROVE Good
  <2>1. CASE StartAsk(n)
    BY <2>1, <1>t, UnpumpedIsGood DEF StartAsk, actorVars, runVars
  <2>2. CASE SessionFailed(n)
    BY <2>2, <1>settle DEF SessionFailed, Awaiting, runVars
  <2> QED  BY <1>5, <2>1, <2>2 DEF Dispatch
<1>6. ASSUME NEW n \in Ask, Submit(n)  PROVE Good
  <2>1. CASE SubmitRejected(n)
    BY <2>1, <1>t, UnpumpedIsGood DEF SubmitRejected, actorVars, runVars
  <2>2. CASE SubmitAccepted(n) \/ SubmitExhausted(n)
    BY <2>2, <1>settle DEF SubmitAccepted, SubmitExhausted, runVars
  <2> QED  BY <1>6, <2>1, <2>2 DEF Submit
<1>7. ASSUME NEW n \in Ask, TurnEnded(n)  PROVE Good
  <2>1. CASE TurnNudged(n)
    BY <2>1, <1>t, UnpumpedIsGood DEF TurnNudged, actorVars, runVars
  <2>2. CASE TurnAnswers(n) \/ TurnWithoutResult(n)
    BY <2>2, <1>settle DEF TurnAnswers, TurnWithoutResult, runVars
  <2> QED  BY <1>7, <2>1, <2>2 DEF TurnEnded
<1>8. ASSUME NEW n \in Ask, AskFailed(n)  PROVE Good
  BY <1>8, <1>settle DEF AskFailed, runVars
<1>9. ASSUME NEW x \in Actor, AnySession(x)  PROVE Good
  <2>1. session' \in [Actor -> SessionState]
    BY <1>9, <1>t DEF AnySession, CreateActorSession, SessionState
  <2> QED  BY <1>9, <2>1, <1>t, UnpumpedIsGood DEF AnySession, CreateActorSession, runVars
<1>10. ASSUME NEW c \in Caps, SetMaxConcurrency(c)  PROVE Good
  <2>1. c \in Nat /\ cap' = c /\ run = "running" /\ run' = run
    BY <1>10 DEF SetMaxConcurrency
  <2>2. CASE c > cap
    <3>1. PumpAll(queue, current, active, c)  BY <1>10, <2>2 DEF SetMaxConcurrency
    <3>2. Pumped(current, c)  BY <1>t, <1>b, <2>1, <3>1, PumpCounts
    <3> QED  BY <1>t, <2>1, <3>2, PumpedIsGood
  <2>3. CASE ~(c > cap)
    BY <1>10, <1>t, <2>1, <2>3
    DEF SetMaxConcurrency, actorVars, SchedType, ActiveCountsBusy, WorkConserving,
        CapStep, Busy, Pumpable
  <2> QED  BY <2>2, <2>3
<1>11. CASE Complete \/ Stop \/ FailRun
  BY <1>11, <1>over DEF Complete, Stop, FailRun, EndRun
<1>12. CASE UNCHANGED vars
  BY <1>12, <1>t, UnpumpedIsGood DEF vars, runVars, actorVars
<1>13. ASSUME NEW n \in Ask, AskStats(n)  PROVE Good
  BY <1>13, <1>t, UnpumpedIsGood DEF AskStats, runVars, actorVars
<1> QED
  BY <1>1, <1>2, <1>3, <1>4, <1>5, <1>6, <1>7, <1>8, <1>9, <1>10, <1>11, <1>12, <1>13
  DEF Next

-----------------------------------------------------------------------------
(* The half about each ask.                                                *)

(* An open promise is a live node and conversely; and nothing is handed to *)
(* the driver before it was asked for, so a fresh ask has no turn yet.     *)
PromisesAreLive ==
  \A n \in Ask : /\ n \in live <=> promise[n] = "pending"
                 /\ n \in dispatched => promise[n] # "none"

(* The row of an ask carries nothing that the run did not spend. *)
CostedIsSpent == costed \subseteq spent

NodeInv ==
  /\ LiveOnlyWhileRunning /\ PromisesAreLive /\ TurnsMatchLive
  /\ JournalMatchesScript /\ CostedIsSpent

NodeType ==
  /\ run \in RunStatus
  /\ cap \in Caps
  /\ registered \in 0..NumActors
  /\ admitted \in [Actor -> Seq(Ask)]
  /\ live \subseteq Ask
  /\ dispatched \subseteq Ask
  /\ repairs \in [Ask -> 0..REPAIR_ATTEMPTS]
  /\ nudges \in [Ask -> 0..NUDGE_ATTEMPTS]
  /\ promise \in [Ask -> {"none", "pending", "ok", "failed", "cancelled", "refused"}]
  /\ row \in [Ask -> {"none", "running", "completed", "failed"}]
  /\ log \in [Ask -> Seq(AskEvent)]
  /\ costed \subseteq Ask
  /\ turn \in [Ask -> {"none", "open", "closed"}]
  /\ actorRow \in [Actor -> {"none", "created", "session"}]
  /\ spent \subseteq Ask
  /\ shown \subseteq Ask

LEMMA TypeSplit == TypeOK <=> SchedType /\ NodeType
BY DEF TypeOK, SchedType, NodeType, QueueType, CurrentType

LEMMA NoteType ==
  ASSUME log \in [Ask -> Seq(AskEvent)], NEW n \in Ask, NEW e \in AskEvent, Note(n, e)
  PROVE  log' \in [Ask -> Seq(AskEvent)]
<1>1. Append(log[n], e) \in Seq(AskEvent)  OBVIOUS
<1> QED  BY <1>1 DEF Note

(* Typing of what the end of a run and of an ask leave behind. *)
LEMMA SettleRunType ==
  ASSUME NodeType, NEW status \in {"completed", "stopped", "errored"}, NEW e,
         SettleRun(status, e)
  PROVE  /\ run' \in RunStatus /\ live' \subseteq Ask
         /\ log' \in [Ask -> Seq(AskEvent)]
         /\ turn' \in [Ask -> {"none", "open", "closed"}]
<1>1. \A n \in Ask : Append(log[n], "cancelled") \in Seq(AskEvent)
  BY DEF NodeType, AskEvent
<1> QED  BY <1>1 DEF NodeType, SettleRun, RunStatus, TurnsCancelled

LEMMA SettleNodeType ==
  ASSUME NodeType, NEW n \in Ask, NEW answer \in {"ok", "failed"}, SettleNode(n, answer)
  PROVE  /\ live' \subseteq Ask
         /\ log' \in [Ask -> Seq(AskEvent)]
         /\ row' \in [Ask -> {"none", "running", "completed", "failed"}]
         /\ promise' \in [Ask -> {"none", "pending", "ok", "failed", "cancelled", "refused"}]
         /\ costed' \subseteq Ask
<1>1. answer \in AskEvent /\ Note(n, answer)  BY DEF AskEvent, SettleNode
<1>2. log' \in [Ask -> Seq(AskEvent)]  BY <1>1, NoteType DEF NodeType
<1> QED  BY <1>2 DEF NodeType, SettleNode, CostedWith

LEMMA NodeTypeStep ==
  ASSUME NodeType, [Next]_vars
  PROVE  NodeType'
<1> USE DEF NodeType
<1>1. CASE CreateActor
  <2>1. registered + 1 \in Actor  BY <1>1 DEF CreateActor, Actor
  <2>2. actorRow' \in [Actor -> {"none", "created", "session"}]
    BY <1>1, <2>1 DEF CreateActor
  <2>3. registered' \in 0..NumActors  BY <1>1 DEF CreateActor
  <2> QED  BY <1>1, <2>2, <2>3 DEF CreateActor, nodeVars
<1>2. ASSUME NEW n \in Ask, AdmitAsk(n)  PROVE NodeType'
  <2>1. log' \in [Ask -> Seq(AskEvent)]
    BY <1>2, NoteType DEF AdmitAsk, AskEvent
  <2>2. Append(admitted[ActorOf[n]], n) \in Seq(Ask)  OBVIOUS
  <2> QED  BY <1>2, <2>1, <2>2 DEF AdmitAsk, runVars, books
<1>3. ASSUME NEW n \in Ask, AskUnknownActor(n)  PROVE NodeType'
  BY <1>3, SettleRunType DEF AskUnknownActor, Rejected, books
<1>4. ASSUME NEW n \in Ask, AskAfterSettled(n)  PROVE NodeType'
  BY <1>4 DEF AskAfterSettled, runVars, books
<1>5. ASSUME NEW n \in Ask, Dispatch(n)  PROVE NodeType'
  <2>1. CASE StartAsk(n)
    <3>1. log' \in [Ask -> Seq(AskEvent)]
      BY <2>1, NoteType DEF StartAsk, AskEvent
    <3> QED  BY <2>1, <3>1 DEF StartAsk, runVars, books
  <2>2. CASE SessionFailed(n)
    BY <2>2, SettleNodeType DEF SessionFailed, runVars, books
  <2> QED  BY <1>5, <2>1, <2>2 DEF Dispatch
<1>6. ASSUME NEW n \in Ask, Submit(n)  PROVE NodeType'
  <2>1. CASE SubmitRejected(n)
    <3>1. log' \in [Ask -> Seq(AskEvent)]
      BY <2>1, NoteType DEF SubmitRejected, AskEvent
    <3>2. repairs[n] - 1 \in 0..REPAIR_ATTEMPTS
      BY <2>1 DEF SubmitRejected
    <3>3. repairs' \in [Ask -> 0..REPAIR_ATTEMPTS]
      BY <2>1, <3>2 DEF SubmitRejected
    <3> QED  BY <2>1, <3>1, <3>3 DEF SubmitRejected, runVars, books
  <2>2. CASE SubmitAccepted(n) \/ SubmitExhausted(n)
    BY <2>2, SettleNodeType DEF SubmitAccepted, SubmitExhausted, runVars, books
  <2> QED  BY <1>6, <2>1, <2>2 DEF Submit
<1>7. ASSUME NEW n \in Ask, TurnEnded(n)  PROVE NodeType'
  <2>1. CASE TurnNudged(n)
    <3>1. log' \in [Ask -> Seq(AskEvent)]
      BY <2>1, NoteType DEF TurnNudged, Over, AskEvent
    <3>2. nudges[n] - 1 \in 0..NUDGE_ATTEMPTS
      BY <2>1 DEF TurnNudged
    <3>3. nudges' \in [Ask -> 0..NUDGE_ATTEMPTS]
      BY <2>1, <3>2 DEF TurnNudged
    <3> QED  BY <2>1, <3>1, <3>3 DEF TurnNudged, Over, runVars, books
  <2>2. CASE TurnAnswers(n) \/ TurnWithoutResult(n)
    BY <2>2, SettleNodeType DEF TurnAnswers, TurnWithoutResult, runVars, books
  <2> QED  BY <1>7, <2>1, <2>2 DEF TurnEnded
<1>8. ASSUME NEW n \in Ask, AskFailed(n)  PROVE NodeType'
  BY <1>8, SettleNodeType DEF AskFailed, Over, runVars, books
<1>9. ASSUME NEW x \in Actor, AnySession(x)  PROVE NodeType'
  BY <1>9 DEF AnySession, CreateActorSession, runVars, books, nodeVars
<1>10. ASSUME NEW c \in Caps, SetMaxConcurrency(c)  PROVE NodeType'
  BY <1>10 DEF SetMaxConcurrency, nodeVars, books
<1>11. CASE Complete \/ Stop \/ FailRun
  BY <1>11, SettleRunType DEF Complete, Stop, FailRun, EndRun, Rejected, books
<1>12. CASE UNCHANGED vars
  BY <1>12 DEF vars, runVars, nodeVars, books
<1>13. ASSUME NEW n \in Ask, AskStats(n)  PROVE NodeType'
  BY <1>13 DEF AskStats, Reported, runVars, books, actorVars
<1> HIDE DEF NodeType
<1> QED
  BY <1>1, <1>2, <1>3, <1>4, <1>5, <1>6, <1>7, <1>8, <1>9, <1>10, <1>11, <1>12, <1>13
  DEF Next

LEMMA NodeStep ==
  ASSUME NodeType, NodeInv, [Next]_vars
  PROVE  NodeInv'
<1> USE DEF NodeType, NodeInv, LiveOnlyWhileRunning, PromisesAreLive, TurnsMatchLive,
            JournalMatchesScript, CostedIsSpent
(* The end of an ask moves promise, row and liveness together. *)
<1>settle. ASSUME NEW n \in Ask, NEW answer \in {"ok", "failed"}, SettleNode(n, answer),
                  n \in live, UNCHANGED <<run, dispatched, spent>>,
                  turn' = [turn EXCEPT ![n] = "closed"]
           PROVE  NodeInv'
  <2>1. /\ live' = live \ {n}
        /\ row' = [row EXCEPT ![n] = IF answer = "ok" THEN "completed" ELSE "failed"]
        /\ promise' = [promise EXCEPT ![n] = answer]
        /\ costed' = CostedWith(n)
    BY <1>settle DEF SettleNode
  <2>2. LiveOnlyWhileRunning'  BY <1>settle, <2>1
  <2>3. PromisesAreLive'  BY <1>settle, <2>1
  <2>4. TurnsMatchLive'  BY <1>settle, <2>1
  <2>5. JournalMatchesScript' /\ CostedIsSpent'  BY <1>settle, <2>1 DEF CostedWith
  <2> QED  BY <2>2, <2>3, <2>4, <2>5
<1>over. ASSUME NEW status \in {"completed", "stopped", "errored"}, NEW e, SettleRun(status, e),
                UNCHANGED <<dispatched, row, costed, spent>>,
                \/ promise' = Rejected("cancelled")
                \/ \E n \in Ask : /\ promise[n] = "none"
                                  /\ promise' = [Rejected("cancelled") EXCEPT ![n] = "refused"]
         PROVE  NodeInv'
  <2>1. run' # "running" /\ live' = {} /\ turn' = TurnsCancelled
    BY <1>over DEF SettleRun
  <2>2. \A m \in Ask : turn'[m] # "open"
    BY <2>1 DEF TurnsCancelled
  <2>3. \A m \in Ask : \/ promise'[m] = promise[m] /\ promise[m] # "pending"
                       \/ promise'[m] = "cancelled" /\ promise[m] = "pending"
                       \/ promise'[m] = "refused" /\ promise[m] = "none"
    <3> DEFINE r == Rejected("cancelled")
    <3>1. /\ DOMAIN r = Ask
          /\ \A m \in Ask : r[m] = IF m \in live THEN "cancelled" ELSE promise[m]
          /\ \A m \in Ask : m \in live <=> promise[m] = "pending"
      BY DEF Rejected
    <3> HIDE DEF r, NodeType, NodeInv, PromisesAreLive, TurnsMatchLive, JournalMatchesScript
    <3>2. CASE promise' = r
      BY <3>1, <3>2
    <3>3. CASE promise' # r
      <4>1. PICK n \in Ask : promise[n] = "none" /\ promise' = [r EXCEPT ![n] = "refused"]
        BY <1>over, <3>3 DEF r
      <4>2. \A m \in Ask : promise'[m] = IF m = n THEN "refused" ELSE r[m]
        BY <3>1, <4>1
      <4> QED  BY <3>1, <4>1, <4>2
    <3> QED  BY <3>2, <3>3
  <2>4. LiveOnlyWhileRunning' /\ PromisesAreLive' /\ TurnsMatchLive'
    <3>1. \A m \in Ask : promise'[m] # "pending"  BY <2>3
    <3>2. \A m \in Ask : m \in dispatched' => promise'[m] # "none"  BY <1>over, <2>3
    <3> QED  BY <2>1, <2>2, <3>1, <3>2
  <2>5. JournalMatchesScript' /\ CostedIsSpent'
    BY <1>over, <2>3
  <2> QED  BY <2>4, <2>5
<1>1. CASE CreateActor
  BY <1>1 DEF CreateActor, nodeVars
<1>2. ASSUME NEW n \in Ask, AdmitAsk(n)  PROVE NodeInv'
  BY <1>2 DEF AdmitAsk, runVars, books
<1>3. ASSUME NEW n \in Ask, AskUnknownActor(n)  PROVE NodeInv'
  BY <1>3, <1>over DEF AskUnknownActor, books
<1>4. ASSUME NEW n \in Ask, AskAfterSettled(n)  PROVE NodeInv'
  BY <1>4 DEF AskAfterSettled, runVars, books
<1>5. ASSUME NEW n \in Ask, Dispatch(n)  PROVE NodeInv'
  <2>1. CASE StartAsk(n)
    BY <2>1 DEF StartAsk, Awaiting, runVars, books
  <2>2. CASE SessionFailed(n)
    <3>1. /\ run' = run /\ run = "running" /\ dispatched' = dispatched /\ turn' = turn
          /\ n \in live /\ n \notin dispatched /\ live' = live \ {n}
          /\ row' = [row EXCEPT ![n] = "failed"]
          /\ promise' = [promise EXCEPT ![n] = "failed"]
          /\ costed' = CostedWith(n) /\ spent' = spent
      BY <2>2 DEF SessionFailed, SettleNode, Awaiting, runVars, books
    <3>2. LiveOnlyWhileRunning'  BY <3>1
    <3>3. PromisesAreLive'  BY <3>1
    <3>4. TurnsMatchLive'  BY <3>1
    <3>5. JournalMatchesScript' /\ CostedIsSpent'  BY <3>1 DEF CostedWith
    <3> QED  BY <3>2, <3>3, <3>4, <3>5
  <2> QED  BY <1>5, <2>1, <2>2 DEF Dispatch
<1>6. ASSUME NEW n \in Ask, Submit(n)  PROVE NodeInv'
  <2>1. CASE SubmitRejected(n)
    BY <2>1 DEF SubmitRejected, runVars, books
  <2>2. CASE SubmitAccepted(n) \/ SubmitExhausted(n)
    BY <2>2, <1>settle DEF SubmitAccepted, SubmitExhausted, runVars, books
  <2> QED  BY <1>6, <2>1, <2>2 DEF Submit
<1>7. ASSUME NEW n \in Ask, TurnEnded(n)  PROVE NodeInv'
  <2>1. CASE TurnNudged(n)
    BY <2>1 DEF TurnNudged, Over, runVars, books
  <2>2. CASE TurnAnswers(n) \/ TurnWithoutResult(n)
    BY <2>2, <1>settle DEF TurnAnswers, TurnWithoutResult, runVars, books
  <2> QED  BY <1>7, <2>1, <2>2 DEF TurnEnded
<1>8. ASSUME NEW n \in Ask, AskFailed(n)  PROVE NodeInv'
  BY <1>8, <1>settle DEF AskFailed, Over, runVars, books
<1>9. ASSUME NEW x \in Actor, AnySession(x)  PROVE NodeInv'
  BY <1>9 DEF AnySession, CreateActorSession, runVars, books, nodeVars
<1>10. ASSUME NEW c \in Caps, SetMaxConcurrency(c)  PROVE NodeInv'
  BY <1>10 DEF SetMaxConcurrency, nodeVars, books
<1>11. CASE Complete \/ Stop \/ FailRun
  BY <1>11, <1>over DEF Complete, Stop, FailRun, EndRun, books
<1>12. CASE UNCHANGED vars
  BY <1>12 DEF vars, runVars, nodeVars, books
<1>13. ASSUME NEW n \in Ask, AskStats(n)  PROVE NodeInv'
  BY <1>13 DEF AskStats, Reported, runVars, books, actorVars
<1> HIDE DEF NodeInv
<1> QED
  BY <1>1, <1>2, <1>3, <1>4, <1>5, <1>6, <1>7, <1>8, <1>9, <1>10, <1>11, <1>12, <1>13
  DEF Next

-----------------------------------------------------------------------------
(* Together.                                                               *)

IInv == SchedInv /\ NodeInv

LEMMA InitIInv == Init => IInv
<1> SUFFICES ASSUME Init PROVE IInv  OBVIOUS
<1> USE DEF Init
<1>1. TypeOK
  BY DEF TypeOK, RunStatus, SessionState
<1>2. Busy = {}  BY DEF Busy
<1>3. ActiveCountsBusy /\ WorkConserving
  BY <1>2, FS_EmptySet DEF ActiveCountsBusy, WorkConserving, Pumpable
<1>4. NodeInv
  BY DEF NodeInv, LiveOnlyWhileRunning, PromisesAreLive, TurnsMatchLive, JournalMatchesScript,
         CostedIsSpent
<1> QED  BY <1>1, <1>3, <1>4 DEF IInv, SchedInv, NodeInv

LEMMA StepIInv == IInv /\ [Next]_vars => IInv' /\ CapStep
<1> SUFFICES ASSUME IInv, [Next]_vars PROVE IInv' /\ CapStep  OBVIOUS
<1>1. SchedType' /\ ActiveCountsBusy' /\ WorkConserving' /\ CapStep
  BY SchedStep DEF IInv
<1>2. NodeType  BY TypeSplit DEF IInv, SchedInv
<1>3. NodeType' /\ NodeInv'
  BY <1>2, NodeTypeStep, NodeStep DEF IInv
<1>4. TypeOK'
  BY <1>1, <1>3 DEF TypeOK, SchedType, NodeType, QueueType, CurrentType
<1> QED  BY <1>1, <1>3, <1>4 DEF IInv, SchedInv, NodeInv, LiveOnlyWhileRunning

THEOREM InductiveInvariant == Spec => []IInv
<1> QED  BY InitIInv, StepIInv, PTL DEF Spec

(* Every variable keeps its type; in particular neither budget is ever     *)
(* overdrawn and activeAsks never drops below zero, whatever the driver    *)
(* reports and in whatever order (scheduler.ts, scheduler-submit.ts).      *)
THEOREM TypeCorrect == Spec => []TypeOK
<1>1. IInv => TypeOK  BY DEF IInv, SchedInv
<1> QED  BY <1>1, InductiveInvariant, PTL

(* activeAsks counts the actors that hold an ask, for any number of actors. *)
THEOREM ActiveExact == Spec => []ActiveCountsBusy
<1>1. IInv => ActiveCountsBusy  BY DEF IInv, SchedInv
<1> QED  BY <1>1, InductiveInvariant, PTL

(* No ask waits behind a free actor while the cap has room: the rescans in *)
(* admitAsk, finishLiveNode and setMaxConcurrency are enough.              *)
THEOREM NoLostWakeup == Spec => []WorkConserving
<1>1. IInv => WorkConserving  BY DEF IInv, SchedInv
<1> QED  BY <1>1, InductiveInvariant, PTL

(* A turn of the driver is open exactly while its ask is in flight.        *)
THEOREM NoOrphanTurns == Spec => []TurnsMatchLive
<1>1. IInv => TurnsMatchLive  BY DEF IInv, NodeInv
<1> QED  BY <1>1, InductiveInvariant, PTL

(* What the script was answered is what the journal says.                  *)
THEOREM JournalAgrees == Spec => []JournalMatchesScript
<1>1. IInv => JournalMatchesScript  BY DEF IInv, NodeInv
<1> QED  BY <1>1, InductiveInvariant, PTL

(* No pump starts an ask beyond the cap it read.                           *)
THEOREM NeverBeyondCap == Spec => CapRespected
<1>1. IInv /\ [Next]_vars => [CapStep]_vars
  BY StepIInv
<1> QED  BY <1>1, InductiveInvariant, PTL DEF Spec, CapRespected, CapStep

(* Actors are created, with their row, before anything is asked of them;   *)
(* so a session that becomes ready finds a row without an id.              *)
BookedInv ==
  \A a \in Actor :
    /\ a <= registered => actorRow[a] # "none"
    /\ a > registered => queue[a] = <<>> /\ session[a] = "none"
    /\ session[a] # "ready" => actorRow[a] # "session"

LEMMA PumpBooked ==
  ASSUME TypeOK, BookedInv, NEW q \in QueueType, NEW c, NEW k, NEW limit,
         PumpAll(q, c, k, limit), UNCHANGED <<registered, actorRow>>,
         \A a \in Actor : a > registered => q[a] = <<>>
  PROVE  BookedInv'
<1>1. PICK P \in SUBSET Pumpable(q, c) :
        /\ queue' = [a \in Actor |-> IF a \in P THEN Tail(q[a]) ELSE q[a]]
        /\ session' = [a \in Actor |-> IF a \in P /\ session[a] = "none"
                                       THEN "creating" ELSE session[a]]
  BY DEF PumpAll
<1>2. \A a \in P : a \in Actor /\ q[a] # <<>>  BY DEF Pumpable
<1> QED  BY <1>1, <1>2 DEF BookedInv, TypeOK, Actor

LEMMA BookedStep ==
  ASSUME TypeOK, BookedInv, [Next]_vars
  PROVE  BookedInv'
<1>q. queue \in QueueType /\ \A a \in Actor : a > registered => queue[a] = <<>>
  BY DEF TypeOK, QueueType, BookedInv
<1>quiet. ASSUME UNCHANGED <<registered, actorRow, queue, session>>  PROVE BookedInv'
  BY <1>quiet DEF BookedInv
<1>settle. ASSUME NEW n \in Ask, NEW answer, SettleNode(n, answer),
                  UNCHANGED <<registered, actorRow>>
           PROVE  BookedInv'
  BY <1>settle, <1>q, PumpBooked DEF SettleNode, FinishLiveNode
<1>1. CASE CreateActor
  <2>1. registered + 1 \in Actor /\ registered \in Nat
    BY <1>1 DEF CreateActor, TypeOK, Actor
  <2>2. /\ registered' = registered + 1 /\ UNCHANGED <<queue, session>>
        /\ \A a \in Actor : actorRow'[a] = IF a = registered + 1 THEN "created" ELSE actorRow[a]
    BY <1>1, <2>1 DEF CreateActor, actorVars, TypeOK
  <2>3. \A a \in Actor : a \in Nat  BY DEF Actor
  <2> QED  BY <2>1, <2>2, <2>3 DEF BookedInv
<1>2. ASSUME NEW n \in Ask, AdmitAsk(n)  PROVE BookedInv'
  <2> DEFINE q == [queue EXCEPT ![ActorOf[n]] = Append(@, n)]
  <2>1. q \in QueueType  BY <1>q DEF QueueType
  <2>2. ActorOf[n] \in Actor /\ ActorOf[n] <= registered  BY <1>2 DEF AdmitAsk
  <2>3. \A a \in Actor : a > registered => q[a] = <<>>
    <3>1. \A a \in Actor : a \in Nat /\ registered \in Nat  BY DEF TypeOK, Actor
    <3>2. \A a \in Actor : a # ActorOf[n] => q[a] = queue[a]  BY <1>q DEF QueueType
    <3> HIDE DEF q
    <3> QED  BY <1>q, <2>2, <3>1, <3>2
  <2>4. PumpAll(q, current, active, cap) /\ UNCHANGED <<registered, actorRow>>
    BY <1>2 DEF AdmitAsk, runVars, books
  <2> HIDE DEF q
  <2> QED  BY <2>1, <2>3, <2>4, PumpBooked
<1>3. ASSUME NEW n \in Ask, AskUnknownActor(n) \/ AskAfterSettled(n)  PROVE BookedInv'
  BY <1>3, <1>quiet DEF AskUnknownActor, AskAfterSettled, runVars, actorVars, books
<1>4. ASSUME NEW n \in Ask, Dispatch(n)  PROVE BookedInv'
  <2>1. CASE StartAsk(n)
    BY <2>1, <1>quiet DEF StartAsk, runVars, actorVars, books
  <2>2. CASE SessionFailed(n)
    BY <2>2, <1>settle DEF SessionFailed, runVars, books
  <2> QED  BY <1>4, <2>1, <2>2 DEF Dispatch
<1>5. ASSUME NEW n \in Ask, Submit(n)  PROVE BookedInv'
  <2>1. CASE SubmitRejected(n)
    BY <2>1, <1>quiet DEF SubmitRejected, runVars, actorVars, books
  <2>2. CASE SubmitAccepted(n) \/ SubmitExhausted(n)
    BY <2>2, <1>settle DEF SubmitAccepted, SubmitExhausted, runVars, books
  <2> QED  BY <1>5, <2>1, <2>2 DEF Submit
<1>6. ASSUME NEW n \in Ask, TurnEnded(n)  PROVE BookedInv'
  <2>1. CASE TurnNudged(n)
    BY <2>1, <1>quiet DEF TurnNudged, runVars, actorVars, books
  <2>2. CASE TurnAnswers(n) \/ TurnWithoutResult(n)
    BY <2>2, <1>settle DEF TurnAnswers, TurnWithoutResult, runVars, books
  <2> QED  BY <1>6, <2>1, <2>2 DEF TurnEnded
<1>7. ASSUME NEW n \in Ask, AskFailed(n)  PROVE BookedInv'
  BY <1>7, <1>settle DEF AskFailed, runVars, books
<1>8. ASSUME NEW n \in Ask, AskStats(n)  PROVE BookedInv'
  BY <1>8, <1>quiet DEF AskStats, runVars, actorVars
<1>9. ASSUME NEW x \in Actor, AnySession(x)  PROVE BookedInv'
  <2>1. PICK result \in {"ready", "failed"} : CreateActorSession(x, result)
    BY <1>9 DEF AnySession
  <2> QED  BY <2>1 DEF CreateActorSession, BookedInv, TypeOK, runVars, Actor
<1>10. ASSUME NEW c \in Caps, SetMaxConcurrency(c)  PROVE BookedInv'
  <2>1. CASE c > cap
    BY <1>10, <1>q, <2>1, PumpBooked DEF SetMaxConcurrency, books
  <2>2. CASE ~(c > cap)
    BY <1>10, <1>quiet, <2>2 DEF SetMaxConcurrency, actorVars, books
  <2> QED  BY <2>1, <2>2
<1>11. CASE Complete \/ Stop \/ FailRun
  BY <1>11, <1>quiet DEF Complete, Stop, FailRun, EndRun, books
<1>12. CASE UNCHANGED vars
  BY <1>12, <1>quiet DEF vars, runVars, actorVars, books
<1> QED
  BY <1>1, <1>2, <1>3, <1>4, <1>5, <1>6, <1>7, <1>8, <1>9, <1>10, <1>11, <1>12 DEF Next

THEOREM BookedInvariant == Spec => [](IInv /\ BookedInv)
<1>1. Init => IInv /\ BookedInv
  BY InitIInv DEF Init, BookedInv
<1>2. (IInv /\ BookedInv) /\ [Next]_vars => (IInv /\ BookedInv)'
  BY StepIInv, BookedStep DEF IInv, SchedInv
<1> QED  BY <1>1, <1>2, PTL DEF Spec

(* What may happen to a run that is over. *)
OnlyBooked ==
  /\ UNCHANGED <<run, cap, registered, row, log, shown, live, turn>>
  /\ spent \subseteq spent' /\ costed \subseteq costed'
  /\ \A a \in Actor : \/ actorRow'[a] = actorRow[a]
                      \/ actorRow[a] = "created" /\ actorRow'[a] = "session"
LEMMA SettledIsFinal ==
  ASSUME IInv, BookedInv, [Next]_vars, run # "running"
  PROVE  OnlyBooked
<1>1. live = {} /\ \A n \in Ask : turn[n] # "open"
  BY DEF IInv, NodeInv, LiveOnlyWhileRunning, TurnsMatchLive
<1> USE <1>1 DEF OnlyBooked
<1>2. CASE CreateActor \/ Complete \/ Stop \/ FailRun
  BY <1>2 DEF CreateActor, Complete, Stop, FailRun, EndRun, SettleRun
<1>3. ASSUME NEW n \in Ask, AdmitAsk(n) \/ AskUnknownActor(n) \/ AskAfterSettled(n)
      PROVE  OnlyBooked
  BY <1>3 DEF AdmitAsk, AskUnknownActor, AskAfterSettled, SettleRun, runVars, books
<1>4. ASSUME NEW n \in Ask, Dispatch(n) \/ Submit(n) \/ TurnEnded(n) \/ AskFailed(n)
      PROVE  OnlyBooked
  BY <1>4 DEF Dispatch, StartAsk, SessionFailed, Submit, SubmitAccepted, SubmitRejected,
              SubmitExhausted, TurnEnded, TurnAnswers, TurnNudged, TurnWithoutResult, AskFailed
<1>5. ASSUME NEW a \in Actor, AnySession(a)  PROVE OnlyBooked
  <2>1. PICK result \in {"ready", "failed"} : CreateActorSession(a, result)
    BY <1>5 DEF AnySession
  <2>2. UNCHANGED <<run, cap, registered, row, log, shown, live, turn, spent, costed>>
    BY <2>1 DEF CreateActorSession, runVars, nodeVars
  <2>3. actorRow[a] = "created"
    <3>1. /\ a \in Nat /\ registered \in Nat
          /\ actorRow[a] \in {"none", "created", "session"}
      BY DEF IInv, SchedInv, TypeOK, Actor
    <3>2. session[a] = "creating"  BY <2>1 DEF CreateActorSession
    <3>3. a <= registered  BY <3>1, <3>2 DEF BookedInv
    <3> QED  BY <3>1, <3>2, <3>3 DEF BookedInv
  <2>4. \A b \in Actor : \/ actorRow'[b] = actorRow[b]
                         \/ actorRow[b] = "created" /\ actorRow'[b] = "session"
    BY <2>1, <2>3 DEF CreateActorSession, IInv, SchedInv, TypeOK
  <2> QED  BY <2>2, <2>4
<1>6. ASSUME NEW c \in Caps, SetMaxConcurrency(c)  PROVE OnlyBooked
  BY <1>6 DEF SetMaxConcurrency
<1>7. CASE UNCHANGED vars
  BY <1>7 DEF vars, runVars, nodeVars, books
<1>8. ASSUME NEW n \in Ask, AskStats(n)  PROVE OnlyBooked
  BY <1>8 DEF AskStats, runVars
<1> QED  BY <1>2, <1>3, <1>4, <1>5, <1>6, <1>7, <1>8 DEF Next

THEOREM SettledStaysSettled == Spec => NothingAfterSettled
<1>1. IInv /\ BookedInv /\ [Next]_vars => [run # "running" => OnlyBooked]_vars
  BY SettledIsFinal
<1> QED  BY <1>1, BookedInvariant, PTL DEF Spec, NothingAfterSettled, OnlyBooked

-----------------------------------------------------------------------------
(* The scheduler implements the contract with the script.                  *)

LEMMA ContractStep ==
  ASSUME IInv, [Next]_vars
  PROVE  [Contract!Next]_(Contract!contractVars)
<1> DEFINE Goal == [Contract!Next]_(Contract!contractVars)
<1> USE DEF Contract!contractVars, Contract!Next
<1>t. /\ promise \in [Ask -> {"none", "pending", "ok", "failed", "cancelled", "refused"}]
      /\ \A n \in Ask : n \in live <=> promise[n] = "pending"
      /\ run # "running" => live = {}
  BY DEF IInv, SchedInv, TypeOK, NodeInv, PromisesAreLive, LiveOnlyWhileRunning
<1>reply. ASSUME NEW n \in Ask, NEW answer \in {"ok", "failed"}, SettleNode(n, answer),
                 n \in live, run' = run
          PROVE  Goal
  <2>1. Contract!Reply(n, answer)
    BY <1>reply, <1>t DEF SettleNode, Contract!Reply
  <2> QED  BY <2>1 DEF Contract!Answer
<1>over. ASSUME NEW status \in {"completed", "stopped", "errored"}, NEW e, SettleRun(status, e),
                promise' = Rejected("cancelled")
         PROVE  Goal
  <2>1. Contract!Settle(status, {})
    BY <1>over, <1>t DEF SettleRun, Rejected, Contract!Settle
  <2>2. {} \in SUBSET Ask /\ status \in Contract!RunStatus \ {"running"}
    BY DEF Contract!RunStatus
  <2> QED  BY <2>1, <2>2
<1>1. CASE CreateActor
  BY <1>1 DEF CreateActor, nodeVars
<1>2. ASSUME NEW n \in Ask, AdmitAsk(n)  PROVE Goal
  <2>1. Contract!Call(n)  BY <1>2 DEF AdmitAsk, runVars, Contract!Call
  <2> QED  BY <2>1
<1>3. ASSUME NEW n \in Ask, AskUnknownActor(n)  PROVE Goal
  <2>1. Contract!Settle("errored", {n})
    BY <1>3, <1>t DEF AskUnknownActor, SettleRun, Rejected, Contract!Settle
  <2>2. {n} \in SUBSET Ask /\ "errored" \in Contract!RunStatus \ {"running"}
    BY DEF Contract!RunStatus
  <2> QED  BY <2>1, <2>2
<1>4. ASSUME NEW n \in Ask, AskAfterSettled(n)  PROVE Goal
  <2>1. Contract!Refuse(n)  BY <1>4 DEF AskAfterSettled, runVars, Contract!Refuse
  <2> QED  BY <2>1
<1>5. ASSUME NEW n \in Ask, Dispatch(n)  PROVE Goal
  <2>1. CASE StartAsk(n)
    BY <2>1 DEF StartAsk, runVars
  <2>2. CASE SessionFailed(n)
    BY <2>2, <1>reply DEF SessionFailed, Awaiting, runVars
  <2> QED  BY <1>5, <2>1, <2>2 DEF Dispatch
<1>6. ASSUME NEW n \in Ask, Submit(n)  PROVE Goal
  <2>1. CASE SubmitRejected(n)
    BY <2>1 DEF SubmitRejected, runVars
  <2>2. CASE SubmitAccepted(n) \/ SubmitExhausted(n)
    BY <2>2, <1>reply DEF SubmitAccepted, SubmitExhausted, runVars
  <2> QED  BY <1>6, <2>1, <2>2 DEF Submit
<1>7. ASSUME NEW n \in Ask, TurnEnded(n)  PROVE Goal
  <2>1. CASE TurnNudged(n)
    BY <2>1 DEF TurnNudged, runVars
  <2>2. CASE TurnAnswers(n) \/ TurnWithoutResult(n)
    BY <2>2, <1>reply DEF TurnAnswers, TurnWithoutResult, runVars
  <2> QED  BY <1>7, <2>1, <2>2 DEF TurnEnded
<1>8. ASSUME NEW n \in Ask, AskFailed(n)  PROVE Goal
  BY <1>8, <1>reply DEF AskFailed, runVars
<1>9. ASSUME NEW x \in Actor, AnySession(x)  PROVE Goal
  BY <1>9 DEF AnySession, CreateActorSession, runVars, nodeVars
<1>10. ASSUME NEW c \in Caps, SetMaxConcurrency(c)  PROVE Goal
  BY <1>10 DEF SetMaxConcurrency, nodeVars
<1>11. CASE Complete \/ Stop \/ FailRun
  BY <1>11, <1>over DEF Complete, Stop, FailRun, EndRun
<1>12. CASE UNCHANGED vars
  BY <1>12 DEF vars, runVars, nodeVars
<1>13. ASSUME NEW n \in Ask, AskStats(n)  PROVE Goal
  BY <1>13 DEF AskStats, runVars
<1> QED
  BY <1>1, <1>2, <1>3, <1>4, <1>5, <1>6, <1>7, <1>8, <1>9, <1>10, <1>11, <1>12, <1>13
  DEF Next

(* What the engine promises to a script holds of the scheduler, for any    *)
(* number of asks and actors: one answer per ask, none before the call and *)
(* none left open by the end of the run.                                   *)
THEOREM SchedulerImplementsContract == Spec => ImplementsContract
<1>1. Init => Contract!Init
  BY DEF Init, Contract!Init
<1>2. IInv /\ [Next]_vars => [Contract!Next]_(Contract!contractVars)
  BY ContractStep
<1> QED  BY <1>1, <1>2, InductiveInvariant, PTL DEF Spec, ImplementsContract, Contract!Spec

-----------------------------------------------------------------------------
(* The events of an ask.  A step does one of six things to the story of an *)
(* ask (StoryMove); which of them is read off the action, and what each    *)
(* means for the story is then a matter of one sequence.                   *)

(* The story of one ask so far: l are its events, alive says that it has   *)
(* not settled, started that it was handed to the driver, status is the    *)
(* run's.                                                                  *)
StoryTold(l, alive, started, status) ==
  /\ Len(l) >= 1 /\ l[1] = "queued"
  /\ started => Len(l) >= 2 /\ l[2] = "dispatched"
  /\ \A i \in 1..Len(l) : l[i] = "dispatched" => i = 2
  /\ ~started => \A i \in 1..Len(l) : l[i] \notin {"dispatched", "repairing", "nudged"}
  /\ alive /\ ~started => Len(l) = 1
  /\ \A i \in 1..Len(l) : l[i] \in Settled => i = Len(l) /\ ~alive
  /\ ~alive /\ status # "errored" => l[Len(l)] \in Settled

(* An ask has events from its admission on, and they tell its story.       *)
StoryInv ==
  \A n \in Ask :
    /\ log[n] = <<>> <=> promise[n] \in {"none", "refused"}
    /\ log[n] # <<>> => StoryTold(log[n], n \in live, n \in dispatched, run)

(* What a step can do to the story of one ask n.                           *)
SameLive(n)  == n \in live' <=> n \in live
SameStart(n) == n \in dispatched' <=> n \in dispatched
Unasked(n)   == promise[n] \in {"none", "refused"}

Untouched(n) ==
  /\ log'[n] = log[n] /\ SameLive(n) /\ SameStart(n) /\ Unasked(n)' = Unasked(n)
  /\ run' = run \/ (run = "running" /\ n \notin live)

Dropped(n) ==
  /\ log'[n] = log[n] /\ n \in live /\ n \notin live' /\ SameStart(n)
  /\ run' = "errored" /\ Unasked(n)' = Unasked(n)

StoryBegins(n) ==
  /\ promise[n] = "none" /\ ~Unasked(n)' /\ n \in live' /\ SameStart(n)
  /\ log'[n] = Append(log[n], "queued")

HandedOver(n) ==
  /\ n \in live /\ n \in live' /\ n \notin dispatched /\ n \in dispatched'
  /\ log'[n] = Append(log[n], "dispatched") /\ Unasked(n)' = Unasked(n)

TriedAgain(n) ==
  /\ n \in live /\ n \in live' /\ n \in dispatched /\ n \in dispatched'
  /\ \E e \in {"repairing", "nudged"} : log'[n] = Append(log[n], e)
  /\ Unasked(n)' = Unasked(n)

StoryEnds(n) ==
  /\ n \in live /\ n \notin live' /\ SameStart(n)
  /\ \E e \in Settled : log'[n] = Append(log[n], e)
  /\ Unasked(n)' = Unasked(n)

StoryMove(n) ==
  \/ Untouched(n) \/ Dropped(n)
  \/ StoryBegins(n) \/ HandedOver(n) \/ TriedAgain(n) \/ StoryEnds(n)

LEMMA AppendedEvent ==
  ASSUME NEW l \in Seq(AskEvent), NEW e \in AskEvent, NEW m, m = Append(l, e)
  PROVE  /\ Len(l) \in Nat /\ Len(m) = Len(l) + 1
         /\ \A i \in 1..Len(l) : m[i] = l[i]
         /\ m[Len(l) + 1] = e
         /\ m # <<>>
         /\ l # <<>> => Len(l) >= 1
         /\ l = <<>> => Len(l) = 0
BY AppendProperties, EmptySeq

LEMMA StoryGoesOn ==
  ASSUME TypeOK, PromisesAreLive, StoryInv, NEW n \in Ask, StoryMove(n)
  PROVE  /\ log'[n] = <<>> <=> Unasked(n)'
         /\ log'[n] # <<>> => StoryTold(log[n], n \in live, n \in dispatched, run)'
<1> DEFINE l == log[n]
           m == log'[n]
<1>0. l \in Seq(AskEvent) /\ Len(l) \in Nat  BY DEF TypeOK
<1>1. l = <<>> <=> Unasked(n)  BY DEF StoryInv, Unasked
<1>2. l # <<>> => StoryTold(l, n \in live, n \in dispatched, run)  BY DEF StoryInv
<1>3. /\ n \in live => ~Unasked(n)
      /\ promise[n] = "none" => Unasked(n) /\ n \notin live /\ n \notin dispatched
  BY DEF PromisesAreLive, Unasked
<1>4. {"queued", "dispatched", "repairing", "nudged"} \cup Settled = AskEvent
  BY DEF AskEvent, Settled
<1>5. CASE Untouched(n)
  BY <1>5, <1>1, <1>2 DEF Untouched, SameLive, SameStart, StoryTold
<1>6. CASE Dropped(n)
  BY <1>6, <1>1, <1>2 DEF Dropped, SameStart, StoryTold
<1>7. CASE StoryBegins(n)
  <2>1. l = <<>> /\ n \notin dispatched' /\ n \in live'
    BY <1>7, <1>1, <1>3 DEF StoryBegins, SameStart
  <2>2. Len(m) = 1 /\ m[1] = "queued" /\ m # <<>>
    BY <1>7, <1>0, <1>4, <2>1, AppendedEvent DEF StoryBegins
  <2> QED  BY <1>7, <2>1, <2>2 DEF StoryBegins, StoryTold, Settled
<1>8. CASE HandedOver(n)
  <2>1. l # <<>> /\ StoryTold(l, TRUE, FALSE, run)
    BY <1>8, <1>1, <1>2, <1>3 DEF HandedOver, StoryTold
  <2>2. Len(l) = 1 /\ l[1] = "queued"  BY <2>1 DEF StoryTold
  <2>3. Len(m) = 2 /\ m[1] = "queued" /\ m[2] = "dispatched" /\ m # <<>>
    BY <1>8, <1>0, <1>4, <2>2, AppendedEvent DEF HandedOver
  <2>4. StoryTold(m, TRUE, TRUE, run')  BY <2>3 DEF StoryTold, Settled
  <2> QED  BY <1>8, <1>1, <2>1, <2>3, <2>4 DEF HandedOver, StoryTold
<1>9. CASE TriedAgain(n)
  <2>1. l # <<>> /\ StoryTold(l, TRUE, TRUE, run)
    BY <1>9, <1>1, <1>2, <1>3 DEF TriedAgain, StoryTold
  <2>2. PICK e \in {"repairing", "nudged"} : m = Append(l, e)  BY <1>9 DEF TriedAgain
  <2>3. /\ Len(m) = Len(l) + 1 /\ m[Len(l) + 1] = e /\ m # <<>>
        /\ \A i \in 1..Len(l) : m[i] = l[i]
    <3>1. e \in AskEvent  BY <1>4
    <3> HIDE DEF l, m
    <3> QED  BY <1>0, <2>2, <3>1, AppendedEvent
  <2>4. StoryTold(m, TRUE, TRUE, run')
    <3> HIDE DEF l, m
    <3>1. \A i \in 1..Len(m) : i \in 1..Len(l) \/ i = Len(l) + 1  BY <1>0, <2>3
    <3>2. 1 \in 1..Len(l) /\ 2 \in 1..Len(l)  BY <1>0, <2>1 DEF StoryTold
    <3> QED  BY <1>0, <2>1, <2>3, <3>1, <3>2 DEF StoryTold, Settled
  <2> QED  BY <1>9, <1>1, <2>1, <2>3, <2>4 DEF TriedAgain, StoryTold
<1>10. CASE StoryEnds(n)
  <2>1. l # <<>> /\ StoryTold(l, TRUE, n \in dispatched, run)
    BY <1>10, <1>1, <1>2, <1>3 DEF StoryEnds, StoryTold
  <2>2. PICK e \in Settled : m = Append(l, e)  BY <1>10 DEF StoryEnds
  <2>3. /\ Len(m) = Len(l) + 1 /\ m[Len(l) + 1] = e /\ m # <<>>
        /\ \A i \in 1..Len(l) : m[i] = l[i]
    BY <1>0, <1>4, <2>2, AppendedEvent
  <2>4. StoryTold(m, FALSE, n \in dispatched, run')
    <3> HIDE DEF l, m
    <3>1. \A i \in 1..Len(m) : i \in 1..Len(l) \/ i = Len(l) + 1  BY <1>0, <2>3
    <3>2. 1 \in 1..Len(l) /\ Len(l) + 1 >= 1  BY <1>0, <2>1 DEF StoryTold
    <3>3. n \in dispatched => 2 \in 1..Len(l)  BY <1>0, <2>1 DEF StoryTold
    <3> QED  BY <1>0, <2>1, <2>3, <3>1, <3>2, <3>3 DEF StoryTold, Settled
  <2> QED  BY <1>10, <1>1, <2>1, <2>3, <2>4 DEF StoryEnds, StoryTold, SameStart
<1> QED  BY <1>5, <1>6, <1>7, <1>8, <1>9, <1>10 DEF StoryMove

LEMMA EachStoryMove ==
  ASSUME TypeOK, NodeInv, [Next]_vars, NEW m \in Ask
  PROVE  StoryMove(m)
<1>t. /\ log \in [Ask -> Seq(AskEvent)]
      /\ promise \in [Ask -> {"none", "pending", "ok", "failed", "cancelled", "refused"}]
      /\ \A n \in Ask : turn[n] = "open" => n \in dispatched
  BY DEF TypeOK, NodeInv, TurnsMatchLive
<1>live. /\ \A n \in live : run = "running" /\ promise[n] = "pending"
         /\ \A n \in Ask : n \in live <=> promise[n] = "pending"
         /\ live \subseteq Ask
  BY DEF TypeOK, NodeInv, LiveOnlyWhileRunning, PromisesAreLive
<1>un. UNCHANGED <<log, live, dispatched, promise, run>> => StoryMove(m)
  BY DEF StoryMove, Untouched, SameLive, SameStart, Unasked
(* A step that only adds an event to n leaves the others alone. *)
<1>note. ASSUME NEW n \in Ask, NEW e, Note(n, e), run' = run, SameLive(m), SameStart(m), m # n,
                Unasked(m)' = Unasked(m)
         PROVE  StoryMove(m)
  BY <1>note, <1>t DEF StoryMove, Untouched, Note
<1>settle. ASSUME NEW n \in Ask, NEW answer \in {"ok", "failed"}, SettleNode(n, answer),
                  n \in live, UNCHANGED <<run, dispatched>>
           PROVE  StoryMove(m)
  <2>1. /\ Note(n, answer) /\ live' = live \ {n}
        /\ promise' = [promise EXCEPT ![n] = answer]
    BY <1>settle DEF SettleNode
  <2>2. CASE m = n
    <3>1. log'[n] = Append(log[n], answer) /\ answer \in Settled
      BY <2>1, <1>settle, <1>t DEF Note, Settled
    <3>2. Unasked(n)' = Unasked(n)
      BY <2>1, <1>settle, <1>t, <1>live DEF Unasked
    <3>3. n \notin live' /\ SameStart(n)  BY <2>1, <1>settle DEF SameStart
    <3> QED  BY <2>2, <3>1, <3>2, <3>3, <1>settle DEF StoryMove, StoryEnds
  <2>3. CASE m # n
    BY <2>1, <2>3, <1>settle, <1>t, <1>note DEF SameLive, SameStart, Unasked
  <2> QED  BY <2>2, <2>3
<1>over. ASSUME NEW status \in {"completed", "stopped", "errored"}, NEW e \in BOOLEAN,
                SettleRun(status, e), dispatched' = dispatched, e \/ status = "errored",
                m \notin live => Unasked(m)' = Unasked(m),
                m \in live => ~Unasked(m)'
         PROVE  StoryMove(m)
  <2>1. /\ run = "running" /\ run' = status /\ live' = {}
        /\ log' = [n \in Ask |-> IF n \in live /\ e
                                 THEN Append(log[n], "cancelled") ELSE log[n]]
    BY <1>over DEF SettleRun
  <2>2. m \in live => Unasked(m) = FALSE  BY <1>live DEF Unasked
  <2>3. CASE m \notin live
    BY <2>1, <2>3, <1>over DEF StoryMove, Untouched, SameLive, SameStart
  <2>4. CASE m \in live /\ e
    BY <2>1, <2>2, <2>4, <1>over DEF StoryMove, StoryEnds, SameStart, Settled, Unasked
  <2>5. CASE m \in live /\ ~e
    BY <2>1, <2>2, <2>5, <1>over DEF StoryMove, Dropped, SameStart, Unasked
  <2> QED  BY <2>3, <2>4, <2>5
<1>1. CASE CreateActor
  BY <1>1, <1>un DEF CreateActor, nodeVars
<1>2. ASSUME NEW n \in Ask, AdmitAsk(n)  PROVE StoryMove(m)
  <2>1. /\ Note(n, "queued") /\ live' = live \cup {n} /\ promise[n] = "none"
        /\ promise' = [promise EXCEPT ![n] = "pending"] /\ UNCHANGED <<run, dispatched>>
    BY <1>2 DEF AdmitAsk, runVars
  <2>2. CASE m = n
    BY <2>1, <2>2, <1>t DEF StoryMove, StoryBegins, Note, SameStart, Unasked
  <2>3. CASE m # n
    BY <2>1, <2>3, <1>2, <1>t, <1>note DEF SameLive, SameStart, Unasked
  <2> QED  BY <2>2, <2>3
<1>3. ASSUME NEW n \in Ask, AskUnknownActor(n)  PROVE StoryMove(m)
  <2>1. /\ SettleRun("errored", FALSE) /\ dispatched' = dispatched /\ promise[n] = "none"
        /\ promise' = [Rejected("cancelled") EXCEPT ![n] = "refused"]
    BY <1>3 DEF AskUnknownActor
  <2>2. promise'[m] = IF m = n THEN "refused"
                      ELSE IF m \in live THEN "cancelled" ELSE promise[m]
    BY <2>1 DEF Rejected
  <2>3. m = n => m \notin live  BY <2>1, <1>live
  <2>4. /\ m \notin live => Unasked(m)' = Unasked(m)
        /\ m \in live => ~Unasked(m)'
    BY <2>1, <2>2, <2>3 DEF Unasked
  <2> QED  BY <2>1, <2>4, <1>over
<1>4. ASSUME NEW n \in Ask, AskAfterSettled(n)  PROVE StoryMove(m)
  BY <1>4, <1>t DEF AskAfterSettled, runVars, StoryMove, Untouched, SameLive, SameStart, Unasked
<1>5. ASSUME NEW n \in Ask, Dispatch(n)  PROVE StoryMove(m)
  <2>1. CASE StartAsk(n)
    <3>1. /\ Note(n, "dispatched") /\ dispatched' = dispatched \cup {n}
          /\ n \notin dispatched /\ n \in live /\ UNCHANGED <<run, live, promise>>
      BY <2>1 DEF StartAsk, Awaiting, runVars
    <3>2. CASE m = n
      BY <3>1, <3>2, <1>t DEF StoryMove, HandedOver, Note, Unasked
    <3>3. CASE m # n
      BY <3>1, <3>3, <1>5, <1>note DEF SameLive, SameStart, Unasked
    <3> QED  BY <3>2, <3>3
  <2>2. CASE SessionFailed(n)
    BY <2>2, <1>settle DEF SessionFailed, Awaiting, runVars
  <2> QED  BY <1>5, <2>1, <2>2 DEF Dispatch
<1>tried. ASSUME NEW n \in live, n \in dispatched, NEW e \in {"repairing", "nudged"}, Note(n, e),
                 UNCHANGED <<run, live, dispatched, promise>>
          PROVE  StoryMove(m)
  <2>1. CASE m = n
    BY <2>1, <1>tried, <1>t DEF StoryMove, TriedAgain, Note, Unasked
  <2>2. CASE m # n
    BY <2>2, <1>tried, <1>live, <1>note DEF SameLive, SameStart, Unasked
  <2> QED  BY <2>1, <2>2
<1>6. ASSUME NEW n \in Ask, Submit(n)  PROVE StoryMove(m)
  <2>1. CASE SubmitRejected(n)
    BY <2>1, <1>tried DEF SubmitRejected, Reported, runVars
  <2>2. CASE SubmitAccepted(n) \/ SubmitExhausted(n)
    BY <2>2, <1>settle DEF SubmitAccepted, SubmitExhausted, runVars
  <2> QED  BY <1>6, <2>1, <2>2 DEF Submit
<1>7. ASSUME NEW n \in Ask, TurnEnded(n)  PROVE StoryMove(m)
  <2>1. CASE TurnNudged(n)
    BY <2>1, <1>t, <1>tried DEF TurnNudged, Over, runVars
  <2>2. CASE TurnAnswers(n) \/ TurnWithoutResult(n)
    BY <2>2, <1>settle DEF TurnAnswers, TurnWithoutResult, runVars
  <2> QED  BY <1>7, <2>1, <2>2 DEF TurnEnded
<1>8. ASSUME NEW n \in Ask, AskFailed(n)  PROVE StoryMove(m)
  BY <1>8, <1>settle DEF AskFailed, runVars
<1>9. ASSUME NEW x \in Actor, AnySession(x)  PROVE StoryMove(m)
  BY <1>9, <1>un DEF AnySession, CreateActorSession, runVars, nodeVars
<1>10. ASSUME NEW c \in Caps, SetMaxConcurrency(c)  PROVE StoryMove(m)
  BY <1>10, <1>un DEF SetMaxConcurrency, nodeVars
<1>11. CASE Complete \/ Stop \/ FailRun
  <2>1. PICK status \in {"completed", "stopped", "errored"}, e \in BOOLEAN :
          EndRun(status, e) /\ (e \/ status = "errored")
    BY <1>11 DEF Complete, Stop, FailRun
  <2>2. /\ SettleRun(status, e) /\ promise' = Rejected("cancelled")
        /\ dispatched' = dispatched
    BY <2>1 DEF EndRun
  <2>3. promise'[m] = IF m \in live THEN "cancelled" ELSE promise[m]
    BY <2>2 DEF Rejected
  <2>4. /\ m \notin live => Unasked(m)' = Unasked(m)
        /\ m \in live => ~Unasked(m)'
    BY <2>3 DEF Unasked
  <2> QED  BY <2>1, <2>2, <2>4, <1>over
<1>12. CASE UNCHANGED vars
  BY <1>12, <1>un DEF vars, runVars, nodeVars
<1>13. ASSUME NEW n \in Ask, AskStats(n)  PROVE StoryMove(m)
  BY <1>13, <1>un DEF AskStats, runVars
<1> QED
  BY <1>1, <1>2, <1>3, <1>4, <1>5, <1>6, <1>7, <1>8, <1>9, <1>10, <1>11, <1>12, <1>13
  DEF Next

LEMMA StoryStep ==
  ASSUME IInv, StoryInv, [Next]_vars
  PROVE  StoryInv'
<1> SUFFICES ASSUME NEW n \in Ask
             PROVE  /\ log'[n] = <<>> <=> Unasked(n)'
                    /\ log'[n] # <<>> => StoryTold(log[n], n \in live, n \in dispatched, run)'
  BY DEF StoryInv, Unasked
<1>1. TypeOK /\ NodeInv /\ PromisesAreLive  BY DEF IInv, SchedInv, NodeInv
<1>2. StoryMove(n)  BY <1>1, EachStoryMove
<1> QED  BY <1>1, <1>2, StoryGoesOn

(* The events of an ask are those of one dispatch: whatever the driver     *)
(* reports and whenever the run ends, the journal shows an ask queued,     *)
(* handed over at most once, tried again only after that, and ended at     *)
(* most once with nothing behind it; and every ask of a run that completed *)
(* or was stopped has its end.                                             *)
THEOREM EventsAreOneStory == Spec => []EventsTellOneStory
<1>1. Init => IInv /\ StoryInv
  BY InitIInv DEF Init, StoryInv
<1>2. (IInv /\ StoryInv) /\ [Next]_vars => (IInv /\ StoryInv)'
  BY StepIInv, StoryStep
<1>3. IInv /\ StoryInv => EventsTellOneStory
  <2> SUFFICES ASSUME IInv, StoryInv, NEW n \in Ask, log[n] # <<>>
               PROVE  LET l == log[n]
                      IN /\ l[1] = "queued"
                         /\ \A i \in DOMAIN l : l[i] = "dispatched" => i = 2
                         /\ \A i \in DOMAIN l :
                              l[i] \in {"repairing", "nudged"} => l[2] = "dispatched"
                         /\ \A i \in DOMAIN l : l[i] \in Settled => i = Len(l)
                         /\ run \in {"completed", "stopped"} => l[Len(l)] \in Settled
    BY DEF EventsTellOneStory
  <2>1. StoryTold(log[n], n \in live, n \in dispatched, run)  BY DEF StoryInv
  <2>2. DOMAIN log[n] = 1..Len(log[n])  BY DEF IInv, SchedInv, TypeOK
  <2>3. run \in {"completed", "stopped"} => n \notin live /\ run # "errored"
    BY DEF IInv, SchedInv, LiveOnlyWhileRunning
  <2> QED  BY <2>1, <2>2, <2>3 DEF StoryTold
<1> QED  BY <1>1, <1>2, <1>3, PTL DEF Spec

-----------------------------------------------------------------------------
(* The order of an actor's asks.  They fall into those that are over, at   *)
(* most one that it executes, and those in its queue.  Ordered says so of  *)
(* one actor; a step adds an ask at the end, moves the boundary by one, or *)
(* takes away the ask at the boundary.  The last is where the order could  *)
(* break: only the current ask of an actor may settle, which needs that no *)
(* ask in a queue has been handed to the driver.                           *)

(* One actor: s has been admitted to it, q is its queue, c its current ask; *)
(* L are the live nodes and D those handed to the driver.                   *)
Begun(s, q) == Len(s) - Len(q)

QueueIsRest(s, q, L, D) ==
  \A i \in 1..Len(q) : q[i] = s[Begun(s, q) + i] /\ q[i] \in L /\ q[i] \notin D

BegunAreOver(s, q, c, L) ==
  \A i \in 1..Begun(s, q) : s[i] \in L <=> (i = Begun(s, q) /\ c = s[i])

CurrentIsLast(s, q, c) ==
  c # NoAsk => Begun(s, q) >= 1 /\ c = s[Begun(s, q)]

Ordered(s, q, c, L, D) ==
  /\ Len(q) <= Len(s)
  /\ QueueIsRest(s, q, L, D)
  /\ BegunAreOver(s, q, c, L)
  /\ CurrentIsLast(s, q, c)

(* Every ask is admitted once, to its own actor, and before it is live.     *)
Admissions ==
  /\ \A a \in Actor :
       /\ Once(admitted[a])
       /\ \A i \in DOMAIN admitted[a] :
            ActorOf[admitted[a][i]] = a /\ promise[admitted[a][i]] # "none"
  /\ \A n \in live : n \in Elems(admitted[ActorOf[n]])

InOrder ==
  run = "running" =>
    \A a \in Actor : Ordered(admitted[a], queue[a], current[a], live, dispatched)

OrderInv == Admissions /\ InOrder

-----------------------------------------------------------------------------
(* One actor.                                                              *)

LEMMA Places ==
  ASSUME NEW s \in Seq(Ask), NEW q \in Seq(Ask), Len(q) <= Len(s)
  PROVE  /\ Len(s) \in Nat /\ Len(q) \in Nat /\ Begun(s, q) \in Nat
         /\ DOMAIN s = 1..Len(s) /\ DOMAIN q = 1..Len(q)
         /\ Begun(s, q) <= Len(s) /\ Begun(s, q) + Len(q) = Len(s)
         /\ \A i \in 1..Len(s) : s[i] \in Ask
         /\ \A i \in 1..Len(q) : Begun(s, q) + i \in 1..Len(s)
         /\ \A i \in 1..Begun(s, q) : i \in 1..Len(s)
<1>1. /\ Len(s) \in Nat /\ Len(q) \in Nat
      /\ DOMAIN s = 1..Len(s) /\ DOMAIN q = 1..Len(q)
  BY LenProperties
<1>2. \A i \in 1..Len(s) : s[i] \in Ask  BY ElementOfSeq
<1> QED  BY <1>1, <1>2 DEF Begun

(* The current ask is not in the queue. *)
LEMMA CurrentNotQueued ==
  ASSUME NEW s \in Seq(Ask), NEW q \in Seq(Ask), NEW n \in Ask, NEW L, NEW D,
         Once(s), Ordered(s, q, n, L, D)
  PROVE  \A i \in 1..Len(q) : q[i] # n
<1> SUFFICES ASSUME NEW i \in 1..Len(q), q[i] = n  PROVE FALSE  OBVIOUS
<1> DEFINE b == Begun(s, q)
<1>1. Len(q) <= Len(s)  BY DEF Ordered
<1>2. b >= 1 /\ n = s[b]  BY DEF Ordered, CurrentIsLast
<1>3. q[i] = s[b + i]  BY DEF Ordered, QueueIsRest
<1>4. b \in Nat /\ b \in DOMAIN s /\ b + i \in DOMAIN s  BY <1>1, <1>2, Places
<1> HIDE DEF b
<1>5. b + i = b  BY <1>2, <1>3, <1>4 DEF Once
<1> QED  BY <1>4, <1>5

(* The head of the queue becomes current. *)
LEMMA TakeOrdered ==
  ASSUME NEW s \in Seq(Ask), NEW q \in Seq(Ask), q # <<>>, NEW L, NEW D,
         Ordered(s, q, NoAsk, L, D)
  PROVE  Ordered(s, Tail(q), Head(q), L, D)
<1> DEFINE t == Tail(q)
           b == Begun(s, q)
<1>1. /\ t \in Seq(Ask) /\ Len(t) = Len(q) - 1 /\ Head(q) = q[1]
      /\ \A i \in 1..Len(t) : t[i] = q[i + 1]
  BY HeadTailProperties
<1>2. Len(q) <= Len(s)  BY DEF Ordered
<1>3. /\ Len(q) \in Nat \ {0} /\ Len(s) \in Nat /\ b \in Nat
      /\ \A i \in 1..b : s[i] \in Ask
  BY <1>2, EmptySeq, Places
<1>4. \A i \in 1..Len(q) : q[i] = s[b + i] /\ q[i] \in L /\ q[i] \notin D
  BY DEF Ordered, QueueIsRest
<1>5. \A i \in 1..b : s[i] \notin L
  BY <1>3 DEF Ordered, BegunAreOver
<1>6. Begun(s, t) = b + 1 /\ Len(t) <= Len(s)
  BY <1>1, <1>2, <1>3 DEF Begun
<1> HIDE DEF t, b
<1>7. QueueIsRest(s, t, L, D)
  <2> SUFFICES ASSUME NEW i \in 1..Len(t)
               PROVE  t[i] = s[b + 1 + i] /\ t[i] \in L /\ t[i] \notin D
    BY <1>6 DEF QueueIsRest
  <2>1. i + 1 \in 1..Len(q) /\ b + (i + 1) = b + 1 + i  BY <1>1, <1>3
  <2>2. t[i] = q[i + 1]  BY <1>1
  <2> QED  BY <2>1, <2>2, <1>4
<1>8. Head(q) = s[b + 1] /\ Head(q) \in L  BY <1>1, <1>3, <1>4
<1>9. BegunAreOver(s, t, Head(q), L)
  BY <1>3, <1>5, <1>6, <1>8 DEF BegunAreOver
<1>10. CurrentIsLast(s, t, Head(q))
  BY <1>3, <1>6, <1>8 DEF CurrentIsLast
<1>11. Ordered(s, t, Head(q), L, D)
  BY <1>6, <1>7, <1>9, <1>10 DEF Ordered
<1> QED  BY <1>11 DEF t

(* The current ask settles. *)
LEMMA SettleOrdered ==
  ASSUME NEW s \in Seq(Ask), NEW q \in Seq(Ask), NEW n \in Ask, NEW L, NEW D,
         Once(s), Ordered(s, q, n, L, D)
  PROVE  Ordered(s, q, NoAsk, L \ {n}, D)
<1>1. QueueIsRest(s, q, L \ {n}, D)
  <2>1. \A i \in 1..Len(q) : q[i] # n  BY CurrentNotQueued
  <2>2. QueueIsRest(s, q, L, D)  BY DEF Ordered
  <2> QED  BY <2>1, <2>2 DEF QueueIsRest
<1>2. BegunAreOver(s, q, NoAsk, L \ {n})
  <2> SUFFICES ASSUME NEW i \in 1..Begun(s, q)  PROVE s[i] \notin L \ {n} /\ NoAsk # s[i]
    BY DEF BegunAreOver
  <2>1. s[i] \in L => n = s[i]  BY DEF Ordered, BegunAreOver
  <2>2. s[i] \in Ask  BY Places DEF Ordered
  <2> QED  BY <2>1, <2>2
<1> QED  BY <1>1, <1>2 DEF Ordered, CurrentIsLast

(* An ask of another actor comes, goes or is started. *)
LEMMA OtherOrdered ==
  ASSUME NEW s \in Seq(Ask), NEW q \in Seq(Ask), NEW c, NEW n, NEW L, NEW D,
         n \notin Elems(s), Ordered(s, q, c, L, D)
  PROVE  /\ Ordered(s, q, c, L \cup {n}, D)
         /\ Ordered(s, q, c, L \ {n}, D)
         /\ Ordered(s, q, c, L, D \cup {n})
<1>1. Len(q) <= Len(s)  BY DEF Ordered
<1>2. \A i \in 1..Len(s) : s[i] # n  BY <1>1, Places DEF Elems
<1>3. \A i \in 1..Begun(s, q) : s[i] # n  BY <1>1, <1>2, Places
<1>4. \A i \in 1..Len(q) : q[i] # n
  <2> SUFFICES ASSUME NEW i \in 1..Len(q)  PROVE q[i] # n  OBVIOUS
  <2>1. q[i] = s[Begun(s, q) + i]  BY DEF Ordered, QueueIsRest
  <2>2. Begun(s, q) + i \in 1..Len(s)  BY <1>1, Places
  <2> QED  BY <2>1, <2>2, <1>2
<1>5. /\ QueueIsRest(s, q, L \cup {n}, D)
      /\ QueueIsRest(s, q, L \ {n}, D)
      /\ QueueIsRest(s, q, L, D \cup {n})
  BY <1>4 DEF Ordered, QueueIsRest
<1>6. BegunAreOver(s, q, c, L \cup {n}) /\ BegunAreOver(s, q, c, L \ {n})
  BY <1>3 DEF Ordered, BegunAreOver
<1> QED  BY <1>5, <1>6 DEF Ordered

(* A fresh ask joins the queue. *)
LEMMA AdmitOrdered ==
  ASSUME NEW s \in Seq(Ask), NEW q \in Seq(Ask), NEW c, NEW n \in Ask, NEW L, NEW D,
         n \notin Elems(s), n \notin D, Ordered(s, q, c, L, D)
  PROVE  Ordered(Append(s, n), Append(q, n), c, L \cup {n}, D)
<1> DEFINE b == Begun(s, q)
           t == Append(s, n)
           r == Append(q, n)
           M == L \cup {n}
<1>1. /\ Len(t) = Len(s) + 1 /\ \A i \in 1..Len(s) : t[i] = s[i]
      /\ t[Len(s) + 1] = n
  BY AppendProperties
<1>2. /\ Len(r) = Len(q) + 1 /\ \A i \in 1..Len(q) : r[i] = q[i]
      /\ r[Len(q) + 1] = n
  BY AppendProperties
<1>3. Ordered(s, q, c, M, D)  BY OtherOrdered
<1>4. Len(q) <= Len(s)  BY DEF Ordered
<1>5. /\ Len(s) \in Nat /\ Len(q) \in Nat /\ b \in Nat /\ b <= Len(s) /\ b + Len(q) = Len(s)
      /\ \A i \in 1..Len(q) : b + i \in 1..Len(s)
      /\ \A i \in 1..b : i \in 1..Len(s)
  BY <1>4, Places
<1>5a. Len(s) \in Nat /\ Len(q) \in Nat /\ b \in Nat /\ b + Len(q) = Len(s)
  BY <1>5
<1>6. Begun(t, r) = b /\ Len(r) <= Len(t)
  <2>1. Len(t) = Len(s) + 1 /\ Len(r) = Len(q) + 1  BY <1>1, <1>2
  <2> HIDE DEF t, r
  <2> QED  BY <2>1, <1>4, <1>5a DEF Begun
<1>7. n \in M  OBVIOUS
<1> HIDE DEF t, r, b, M
<1>8. QueueIsRest(t, r, M, D)
  <2> SUFFICES ASSUME NEW i \in 1..Len(r)
               PROVE  r[i] = t[b + i] /\ r[i] \in M /\ r[i] \notin D
    BY <1>6 DEF QueueIsRest
  <2>1. CASE i \in 1..Len(q)
    <3>1. q[i] = s[b + i] /\ q[i] \in M /\ q[i] \notin D
      BY <2>1, <1>3 DEF Ordered, QueueIsRest, b
    <3> QED  BY <2>1, <3>1, <1>1, <1>2, <1>5
  <2>2. CASE i = Len(q) + 1
    <3>1. b + (Len(q) + 1) = Len(s) + 1  BY <1>5a
    <3>2. b + i = Len(s) + 1  BY <2>2, <3>1
    <3> QED  BY <2>2, <3>2, <1>1, <1>2, <1>7
  <2>3. i \in 1..Len(q) \/ i = Len(q) + 1  BY <1>2, <1>5
  <2> QED  BY <2>1, <2>2, <2>3
<1>9. \A i \in 1..b : t[i] = s[i]  BY <1>1, <1>5
<1>10. BegunAreOver(t, r, c, M)
  BY <1>3, <1>6, <1>9 DEF Ordered, BegunAreOver, b
<1>11. CurrentIsLast(t, r, c)
  <2>1. b >= 1 => t[b] = s[b]  BY <1>5, <1>9
  <2> QED  BY <2>1, <1>3, <1>6 DEF Ordered, CurrentIsLast, b
<1>12. Ordered(t, r, c, M, D)  BY <1>6, <1>8, <1>10, <1>11 DEF Ordered
<1> QED  BY <1>12 DEF t, r, M

(* The current ask is handed to the driver. *)
LEMMA StartOrdered ==
  ASSUME NEW s \in Seq(Ask), NEW q \in Seq(Ask), NEW n \in Ask, NEW L, NEW D,
         Once(s), Ordered(s, q, n, L, D)
  PROVE  Ordered(s, q, n, L, D \cup {n})
<1>1. QueueIsRest(s, q, L, D \cup {n})
  <2>1. \A i \in 1..Len(q) : q[i] # n  BY CurrentNotQueued
  <2>2. QueueIsRest(s, q, L, D)  BY DEF Ordered
  <2> QED  BY <2>1, <2>2 DEF QueueIsRest
<1> QED  BY <1>1 DEF Ordered

-----------------------------------------------------------------------------
(* All of them.                                                            *)

(* Pumping hands an actor at most the head of its queue, and only when it  *)
(* has no current ask.                                                     *)
LEMMA PumpOrdered ==
  ASSUME NEW q \in QueueType, NEW c \in CurrentType, NEW k, NEW limit, PumpAll(q, c, k, limit),
         NEW a \in Actor, NEW s \in Seq(Ask), NEW L, NEW D, Ordered(s, q[a], c[a], L, D)
  PROVE  Ordered(s, queue'[a], current'[a], L, D)
<1>1. PICK P \in SUBSET Pumpable(q, c) :
        /\ queue' = [x \in Actor |-> IF x \in P THEN Tail(q[x]) ELSE q[x]]
        /\ current' = [x \in Actor |-> IF x \in P THEN Head(q[x]) ELSE c[x]]
  BY DEF PumpAll
<1>2. CASE a \in P
  <2>1. q[a] \in Seq(Ask) /\ q[a] # <<>> /\ c[a] = NoAsk
    BY <1>2 DEF Pumpable, QueueType
  <2>2. queue'[a] = Tail(q[a]) /\ current'[a] = Head(q[a])  BY <1>1, <1>2
  <2> QED  BY <2>1, <2>2, TakeOrdered
<1>3. CASE a \notin P
  <2>1. queue'[a] = q[a] /\ current'[a] = c[a]  BY <1>1, <1>3
  <2> QED  BY <2>1
<1> QED  BY <1>2, <1>3

LEMMA OrderTypes ==
  ASSUME TypeOK
  PROVE  /\ queue \in QueueType /\ current \in CurrentType
         /\ \A a \in Actor : admitted[a] \in Seq(Ask) /\ queue[a] \in Seq(Ask)
         /\ live \subseteq Ask
         /\ \A n \in Ask : ActorOf[n] \in Actor
BY DEF TypeOK, QueueType, CurrentType

(* No ask is admitted to two actors. *)
LEMMA NotOthers ==
  ASSUME Admissions, NEW n \in Ask, NEW a \in Actor, a # ActorOf[n]
  PROVE  n \notin Elems(admitted[a])
BY DEF Admissions, Elems

(* An ask that was handed to the driver and is not settled is its actor's  *)
(* current ask: a report of the driver frees the actor it speaks of.       *)
LEMMA InFlightIsHeld ==
  ASSUME TypeOK, OrderInv, run = "running", NEW n \in live \cap dispatched
  PROVE  Held(n)
<1> DEFINE a == ActorOf[n]
           s == admitted[a]
           q == queue[a]
           b == Begun(s, q)
<1>1. n \in Ask /\ a \in Actor /\ s \in Seq(Ask) /\ q \in Seq(Ask)
  BY OrderTypes
<1>2. Ordered(s, q, current[a], live, dispatched)
  BY <1>1 DEF OrderInv, InOrder
<1>3. Len(q) <= Len(s)  BY <1>2 DEF Ordered
<1>4. PICK i \in DOMAIN s : s[i] = n
  BY DEF OrderInv, Admissions, Elems
<1>5. /\ DOMAIN s = 1..Len(s) /\ Len(s) \in Nat /\ Len(q) \in Nat /\ b \in Nat
      /\ b + Len(q) = Len(s)
  BY <1>1, <1>3, Places
<1>6. /\ \A j \in 1..Len(q) : q[j] = s[b + j] /\ q[j] \notin dispatched
      /\ \A j \in 1..b : s[j] \in live => current[a] = s[j]
  BY <1>2 DEF Ordered, QueueIsRest, BegunAreOver
<1> HIDE DEF s, q, b
<1>7. i <= b
  <2> SUFFICES ASSUME ~(i <= b)  PROVE FALSE  OBVIOUS
  <2>1. i - b \in 1..Len(q) /\ b + (i - b) = i  BY <1>4, <1>5
  <2>2. q[i - b] = n  BY <2>1, <1>4, <1>6
  <2> QED  BY <2>1, <2>2, <1>6
<1>8. i \in 1..b  BY <1>4, <1>5, <1>7
<1> QED  BY <1>4, <1>6, <1>8 DEF Held

-----------------------------------------------------------------------------
(* The steps.                                                              *)

LEMMA SameAdmissions ==
  ASSUME TypeOK, Admissions, admitted' = admitted, live' \subseteq live,
         \A n \in Ask : promise[n] # "none" => promise'[n] # "none"
  PROVE  Admissions'
<1>1. \A a \in Actor : \A i \in DOMAIN admitted[a] : admitted[a][i] \in Ask
  BY OrderTypes, ElementOfSeq, LenProperties
<1> QED  BY <1>1 DEF Admissions

(* Admission is the one way an ask becomes live, and a fresh ask is in     *)
(* nobody's sequence yet.                                                  *)
LEMMA FreshAdmission ==
  ASSUME TypeOK, Admissions, NEW n \in Ask, AdmitAsk(n)
  PROVE  Admissions' /\ \A a \in Actor : n \notin Elems(admitted[a])
<1> DEFINE a == ActorOf[n]
           s == admitted[a]
<1>1. a \in Actor /\ s \in Seq(Ask)  BY OrderTypes
<1>2. /\ promise[n] = "none" /\ live' = live \cup {n}
      /\ \A b \in Actor : admitted'[b] = IF b = a THEN Append(s, n) ELSE admitted[b]
      /\ \A m \in Ask : promise'[m] = IF m = n THEN "pending" ELSE promise[m]
  BY DEF AdmitAsk, TypeOK
<1>3. \A b \in Actor : n \notin Elems(admitted[b])
  BY <1>2 DEF Admissions, Elems
<1>4. /\ Elems(Append(s, n)) = Elems(s) \cup {n}
      /\ Once(Append(s, n)) /\ Append(s, n) \in Seq(Ask)
  BY <1>1, <1>3, AppendOnce DEF Admissions
<1>5. \A b \in Actor : \A m \in Elems(admitted[b]) :
        m \in Ask /\ ActorOf[m] = b /\ promise[m] # "none"
  BY OrderTypes, ElementOfSeq, LenProperties DEF Admissions, Elems
<1> HIDE DEF s, a
<1>6. \A b \in Actor : Once(admitted'[b])
  BY <1>2, <1>4 DEF Admissions
<1>7. \A b \in Actor : Elems(admitted'[b]) = IF b = a THEN Elems(s) \cup {n} ELSE Elems(admitted[b])
  BY <1>2, <1>4
<1>8. \A b \in Actor : \A m \in Elems(admitted'[b]) : ActorOf[m] = b /\ promise'[m] # "none"
  BY <1>1, <1>2, <1>5, <1>7 DEF a, s
<1>9. \A b \in Actor : \A i \in DOMAIN admitted'[b] :
        ActorOf[admitted'[b][i]] = b /\ promise'[admitted'[b][i]] # "none"
  BY <1>8 DEF Elems
<1>10. \A m \in live' : m \in Elems(admitted'[ActorOf[m]])
  BY <1>1, <1>2, <1>7, OrderTypes DEF Admissions, a, s
<1> QED  BY <1>3, <1>6, <1>9, <1>10 DEF Admissions

LEMMA SameOrder ==
  ASSUME InOrder, UNCHANGED <<run, admitted, queue, current, live, dispatched>>
  PROVE  InOrder'
BY DEF InOrder

LEMMA SettleStep ==
  ASSUME TypeOK, OrderInv, run = "running", NEW n \in Ask, NEW answer \in {"ok", "failed"},
         SettleNode(n, answer), Held(n), UNCHANGED <<run, admitted, dispatched>>
  PROVE  OrderInv'
<1> DEFINE a == ActorOf[n]
           c == [current EXCEPT ![a] = NoAsk]
<1>1. /\ live' = live \ {n}
      /\ promise' = [promise EXCEPT ![n] = answer]
      /\ PumpAll(queue, c, ActiveWithout(n), cap)
  BY DEF SettleNode, FinishLiveNode
<1>2. Admissions'
  <2>1. \A m \in Ask : promise[m] # "none" => promise'[m] # "none"
    BY <1>1 DEF TypeOK
  <2> QED  BY <1>1, <2>1, SameAdmissions DEF OrderInv
<1>3. queue \in QueueType /\ c \in CurrentType /\ a \in Actor
  BY OrderTypes DEF CurrentType
<1>4. \A x \in Actor : c[x] = IF x = a THEN NoAsk ELSE current[x]
  BY OrderTypes DEF CurrentType
<1>5. current[a] = n  BY DEF Held
<1> HIDE DEF c, a
<1>6. ASSUME NEW x \in Actor
      PROVE  Ordered(admitted[x], queue[x], c[x], live \ {n}, dispatched)
  <2>1. /\ admitted[x] \in Seq(Ask) /\ queue[x] \in Seq(Ask)
        /\ Ordered(admitted[x], queue[x], current[x], live, dispatched)
        /\ Once(admitted[x])
    BY OrderTypes DEF OrderInv, InOrder, Admissions
  <2>2. CASE x = a
    BY <2>1, <2>2, <1>4, <1>5, SettleOrdered
  <2>3. CASE x # a
    <3>1. n \notin Elems(admitted[x])  BY <2>3, NotOthers DEF OrderInv, a
    <3> QED  BY <2>1, <2>3, <3>1, <1>4, OtherOrdered
  <2> QED  BY <2>2, <2>3
<1>7. InOrder'
  <2> SUFFICES ASSUME NEW x \in Actor
               PROVE  Ordered(admitted[x], queue'[x], current'[x], live \ {n}, dispatched)
    BY <1>1 DEF InOrder
  <2> QED  BY <1>1, <1>3, <1>6, PumpOrdered, OrderTypes
<1> QED  BY <1>2, <1>7 DEF OrderInv

LEMMA AdmitStep ==
  ASSUME TypeOK, PromisesAreLive, OrderInv, NEW n \in Ask, AdmitAsk(n)
  PROVE  OrderInv'
<1> DEFINE a == ActorOf[n]
           q == [queue EXCEPT ![a] = Append(@, n)]
<1>1. /\ PumpAll(q, current, active, cap)
      /\ run = "running" /\ dispatched' = dispatched /\ live' = live \cup {n}
      /\ \A x \in Actor : admitted'[x] = IF x = a THEN Append(admitted[a], n) ELSE admitted[x]
  BY DEF AdmitAsk, TypeOK
<1>2. n \notin dispatched  BY DEF AdmitAsk, PromisesAreLive
<1>3. Admissions' /\ \A x \in Actor : n \notin Elems(admitted[x])
  BY FreshAdmission DEF OrderInv
<1>4. /\ q \in QueueType /\ current \in CurrentType /\ a \in Actor
      /\ \A x \in Actor : q[x] = IF x = a THEN Append(queue[a], n) ELSE queue[x]
  BY OrderTypes DEF QueueType
<1> HIDE DEF q, a
<1>5. ASSUME NEW x \in Actor
      PROVE  /\ admitted'[x] \in Seq(Ask)
             /\ Ordered(admitted'[x], q[x], current[x], live', dispatched)
  <2>1. /\ admitted[x] \in Seq(Ask) /\ queue[x] \in Seq(Ask)
        /\ Ordered(admitted[x], queue[x], current[x], live, dispatched)
    BY <1>1, OrderTypes DEF OrderInv, InOrder
  <2>2. CASE x = a
    <3>1. Ordered(Append(admitted[x], n), Append(queue[x], n), current[x],
                  live \cup {n}, dispatched)
      BY <2>1, <1>2, <1>3, AdmitOrdered
    <3>2. Append(admitted[x], n) \in Seq(Ask)  BY <2>1, AppendProperties
    <3> QED  BY <2>2, <3>1, <3>2, <1>1, <1>4
  <2>3. CASE x # a
    BY <2>1, <2>3, <1>1, <1>3, <1>4, OtherOrdered
  <2> QED  BY <2>2, <2>3
<1>6. InOrder'
  <2> SUFFICES ASSUME NEW x \in Actor
               PROVE  Ordered(admitted'[x], queue'[x], current'[x], live', dispatched)
    BY <1>1 DEF InOrder
  <2> QED  BY <1>1, <1>4, <1>5, PumpOrdered
<1> QED  BY <1>3, <1>6 DEF OrderInv

LEMMA StartStep ==
  ASSUME TypeOK, OrderInv, NEW n \in Ask, StartAsk(n)
  PROVE  OrderInv'
<1>1. /\ run = "running" /\ Held(n) /\ dispatched' = dispatched \cup {n}
      /\ UNCHANGED <<admitted, queue, current, live, promise>>
  BY DEF StartAsk, Awaiting, actorVars
<1>2. Admissions'  BY <1>1, SameAdmissions DEF OrderInv
<1>3. InOrder'
  <2> SUFFICES ASSUME NEW x \in Actor
               PROVE  Ordered(admitted[x], queue[x], current[x], live, dispatched \cup {n})
    BY <1>1 DEF InOrder
  <2>1. /\ admitted[x] \in Seq(Ask) /\ queue[x] \in Seq(Ask)
        /\ Ordered(admitted[x], queue[x], current[x], live, dispatched)
        /\ Once(admitted[x])
    BY <1>1, OrderTypes DEF OrderInv, InOrder, Admissions
  <2>2. CASE x = ActorOf[n]
    BY <2>1, <2>2, <1>1, StartOrdered DEF Held
  <2>3. CASE x # ActorOf[n]
    <3>1. n \notin Elems(admitted[x])  BY <2>3, NotOthers DEF OrderInv
    <3> QED  BY <2>1, <3>1, OtherOrdered
  <2> QED  BY <2>2, <2>3
<1> QED  BY <1>2, <1>3 DEF OrderInv

LEMMA RetuneStep ==
  ASSUME TypeOK, OrderInv, NEW c \in Caps, SetMaxConcurrency(c)
  PROVE  OrderInv'
<1>1. UNCHANGED <<run, admitted, live, dispatched, promise>> /\ run = "running"
  BY DEF SetMaxConcurrency, nodeVars
<1>2. Admissions'  BY <1>1, SameAdmissions DEF OrderInv
<1>3. CASE c > cap
  <2>1. PumpAll(queue, current, active, c)  BY <1>3 DEF SetMaxConcurrency
  <2> SUFFICES ASSUME NEW x \in Actor
               PROVE  Ordered(admitted[x], queue'[x], current'[x], live, dispatched)
    BY <1>1, <1>2 DEF OrderInv, InOrder
  <2>2. Ordered(admitted[x], queue[x], current[x], live, dispatched)
    BY <1>1 DEF OrderInv, InOrder
  <2> QED  BY <2>1, <2>2, PumpOrdered, OrderTypes
<1>4. CASE ~(c > cap)
  <2>1. UNCHANGED <<queue, current>>  BY <1>4 DEF SetMaxConcurrency, actorVars
  <2> QED  BY <1>1, <1>2, <2>1, SameOrder DEF OrderInv
<1> QED  BY <1>3, <1>4

LEMMA OrderStep ==
  ASSUME IInv, OrderInv, [Next]_vars
  PROVE  OrderInv'
<1>t. /\ TypeOK /\ PromisesAreLive /\ LiveOnlyWhileRunning
      /\ \A n \in Ask : turn[n] = "open" => n \in dispatched
  BY DEF IInv, SchedInv, NodeInv, TurnsMatchLive
<1>quiet. ASSUME UNCHANGED <<run, admitted, queue, current, live, dispatched, promise>>
          PROVE  OrderInv'
  BY <1>t, <1>quiet, SameAdmissions, SameOrder DEF OrderInv
<1>report. ASSUME NEW n \in Ask, NEW answer \in {"ok", "failed"}, SettleNode(n, answer),
                  n \in live, n \in dispatched, UNCHANGED <<run, admitted, dispatched>>
           PROVE  OrderInv'
  <2>1. run = "running"  BY <1>t, <1>report DEF LiveOnlyWhileRunning
  <2> QED  BY <1>t, <1>report, <2>1, InFlightIsHeld, SettleStep
<1>over. ASSUME run' # "running", admitted' = admitted, live' = {},
                \A m \in Ask : promise[m] # "none" => promise'[m] # "none"
         PROVE  OrderInv'
  BY <1>t, <1>over, SameAdmissions DEF OrderInv, InOrder
<1>1. CASE CreateActor
  BY <1>1, <1>quiet DEF CreateActor, actorVars, nodeVars
<1>2. ASSUME NEW n \in Ask, AdmitAsk(n)  PROVE OrderInv'
  BY <1>2, <1>t, AdmitStep
<1>3. ASSUME NEW n \in Ask, AskUnknownActor(n)  PROVE OrderInv'
  BY <1>3, <1>t, <1>over DEF AskUnknownActor, SettleRun, Rejected, TypeOK
<1>4. ASSUME NEW n \in Ask, AskAfterSettled(n)  PROVE OrderInv'
  <2>1. run # "running" /\ UNCHANGED <<run, admitted, live>>
    BY <1>4 DEF AskAfterSettled, runVars
  <2>2. \A m \in Ask : promise[m] # "none" => promise'[m] # "none"
    BY <1>4, <1>t DEF AskAfterSettled, TypeOK
  <2> QED  BY <2>1, <2>2, <1>t, <1>over DEF LiveOnlyWhileRunning
<1>5. ASSUME NEW n \in Ask, Dispatch(n)  PROVE OrderInv'
  <2>1. CASE StartAsk(n)
    BY <2>1, <1>t, StartStep
  <2>2. CASE SessionFailed(n)
    BY <2>2, <1>t, SettleStep DEF SessionFailed, Awaiting, runVars
  <2> QED  BY <1>5, <2>1, <2>2 DEF Dispatch
<1>6. ASSUME NEW n \in Ask, Submit(n)  PROVE OrderInv'
  <2>1. CASE SubmitRejected(n)
    BY <2>1, <1>quiet DEF SubmitRejected, actorVars, runVars
  <2>2. CASE SubmitAccepted(n) \/ SubmitExhausted(n)
    BY <2>2, <1>report DEF SubmitAccepted, SubmitExhausted, Reported, runVars
  <2> QED  BY <1>6, <2>1, <2>2 DEF Submit
<1>7. ASSUME NEW n \in Ask, TurnEnded(n)  PROVE OrderInv'
  <2>1. CASE TurnNudged(n)
    BY <2>1, <1>quiet DEF TurnNudged, actorVars, runVars
  <2>2. CASE TurnAnswers(n) \/ TurnWithoutResult(n)
    BY <2>2, <1>t, <1>report DEF TurnAnswers, TurnWithoutResult, Over, runVars
  <2> QED  BY <1>7, <2>1, <2>2 DEF TurnEnded
<1>8. ASSUME NEW n \in Ask, AskFailed(n)  PROVE OrderInv'
  BY <1>8, <1>t, <1>report DEF AskFailed, Over, runVars
<1>9. ASSUME NEW x \in Actor, AnySession(x)  PROVE OrderInv'
  BY <1>9, <1>quiet DEF AnySession, CreateActorSession, runVars, nodeVars
<1>10. ASSUME NEW c \in Caps, SetMaxConcurrency(c)  PROVE OrderInv'
  BY <1>10, <1>t, RetuneStep
<1>11. CASE Complete \/ Stop \/ FailRun
  BY <1>11, <1>t, <1>over DEF Complete, Stop, FailRun, EndRun, SettleRun, Rejected, TypeOK
<1>12. CASE UNCHANGED vars
  BY <1>12, <1>quiet DEF vars, runVars, actorVars, nodeVars
<1>13. ASSUME NEW n \in Ask, AskStats(n)  PROVE OrderInv'
  BY <1>13, <1>quiet DEF AskStats, runVars, actorVars
<1> QED
  BY <1>1, <1>2, <1>3, <1>4, <1>5, <1>6, <1>7, <1>8, <1>9, <1>10, <1>11, <1>12, <1>13
  DEF Next

LEMMA OrderInit == Init => OrderInv
<1> SUFFICES ASSUME Init PROVE OrderInv  OBVIOUS
<1>1. \A a \in Actor : admitted[a] = <<>> /\ queue[a] = <<>> /\ current[a] = NoAsk
  BY DEF Init
<1>2. live = {}  BY DEF Init
<1>3. Len(<<>>) = 0  OBVIOUS
<1>4. Admissions  BY <1>1, <1>2, EmptyOnce DEF Admissions
<1>5. ASSUME NEW L, NEW D  PROVE Ordered(<<>>, <<>>, NoAsk, L, D)
  BY <1>3 DEF Ordered, QueueIsRest, BegunAreOver, CurrentIsLast, Begun
<1>6. InOrder  BY <1>1, <1>5 DEF InOrder
<1> QED  BY <1>4, <1>6 DEF OrderInv

THEOREM OrderInvariant == Spec => [](IInv /\ OrderInv)
<1>1. Init => IInv /\ OrderInv  BY InitIInv, OrderInit
<1>2. (IInv /\ OrderInv) /\ [Next]_vars => (IInv /\ OrderInv)'
  BY StepIInv, OrderStep
<1> QED  BY <1>1, <1>2, PTL DEF Spec

(* An actor takes its asks in the order of their actorSeq, one at a time:  *)
(* pumpActor, admitAsk and finishLiveNode keep the queue the unserved rest *)
(* of what was admitted, whatever the other actors and the cap do.         *)
THEOREM OneAtATimeInOrder == Spec => []SerialActors
<1>1. IInv /\ OrderInv => SerialActors
  <2> SUFFICES ASSUME IInv, OrderInv, run = "running", NEW a \in Actor
               PROVE  LET begun == Len(admitted[a]) - Len(queue[a])
                      IN /\ begun >= 0
                         /\ queue[a] = SubSeq(admitted[a], begun + 1, Len(admitted[a]))
                         /\ \A i \in 1..begun :
                              admitted[a][i] \in live
                                <=> (i = begun /\ current[a] = admitted[a][i])
    BY DEF SerialActors
  <2> DEFINE s == admitted[a]
             q == queue[a]
             b == Begun(s, q)
             r == SubSeq(s, b + 1, Len(s))
  <2>1. s \in Seq(Ask) /\ q \in Seq(Ask)
    BY OrderTypes DEF IInv, SchedInv
  <2>2. Ordered(s, q, current[a], live, dispatched)
    BY DEF OrderInv, InOrder
  <2>3. /\ Len(s) \in Nat /\ Len(q) \in Nat /\ b \in Nat
        /\ b <= Len(s) /\ b + Len(q) = Len(s)
        /\ \A i \in 1..Len(s) : s[i] \in Ask
    BY <2>1, <2>2, Places DEF Ordered
  <2>4. \A i \in 1..Len(q) : q[i] = s[b + i]
    BY <2>2 DEF Ordered, QueueIsRest
  <2>5. \A i \in 1..b : s[i] \in live <=> (i = b /\ current[a] = s[i])
    BY <2>2 DEF Ordered, BegunAreOver
  <2>6. /\ r \in Seq(Ask)
        /\ Len(r) = IF b + 1 <= Len(s) THEN Len(s) - (b + 1) + 1 ELSE 0
        /\ \A i \in 1..(Len(s) - (b + 1) + 1) : r[i] = s[b + 1 + i - 1]
    <3> HIDE DEF s, q, b
    <3>1. \A i \in (b + 1)..Len(s) : s[i] \in Ask  BY <2>3
    <3> QED  BY <2>1, <2>3, <3>1, SubSeqProperties
  <2>7. q = r
    <3> HIDE DEF s, q, b, r
    <3>1. Len(r) = Len(q)  BY <2>3, <2>6
    <3>2. ASSUME NEW i \in 1..Len(q)  PROVE q[i] = r[i]
      <4>1. i \in 1..(Len(s) - (b + 1) + 1) /\ b + 1 + i - 1 = b + i  BY <2>3
      <4> QED  BY <4>1, <2>4, <2>6
    <3> QED  BY <2>1, <2>6, <3>1, <3>2, SeqEqual
  <2>8. b = Len(admitted[a]) - Len(queue[a])  BY DEF Begun
  <2> HIDE DEF b
  <2>9. b >= 0  BY <2>3
  <2> QED  BY <2>5, <2>7, <2>8, <2>9
<1> QED  BY <1>1, OrderInvariant, PTL
=============================================================================
