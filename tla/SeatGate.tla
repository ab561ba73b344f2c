------------------------------ MODULE SeatGate ------------------------------
(***************************************************************************)
(* A run whose concurrency cap is retuned while its subagents work: the    *)
(* scheduler of AskScheduler.tla together with the run's seat gate         *)
(* (workflow-seat-gate.ts) and the driver between them.                    *)
(*                                                                         *)
(* The scheduler looks at the cap when it dispatches an ask; the gate      *)
(* looks at it at each model request.  A subagent above a lowered cap ends *)
(* the request it is in and is then parked in a FIFO before the next one.  *)
(* The two never call each other.  The gate hears from the driver of each  *)
(* ask that starts and settles, and of a retune after the scheduler.       *)
(*                                                                         *)
(* Requests that a running tool makes pass the gate and leave no trace in  *)
(* it; they are left out.  So is the governor behind the gate, except that *)
(* a request may miss its fast path there.                                 *)
(***************************************************************************)
EXTENDS AskScheduler, OnceSequences

VARIABLES
  working,   \* the actors with an ask in flight that are not parked
  parked,    \* the actors that wait for a seat, in order of arrival
  phase,     \* per actor, where its turn is
  stepped    \* the actors whose request was let through since the cap was
             \* last lowered and is still in flight

gate      == <<working, parked, phase, stepped>>
gatedVars == <<vars, gate>>

GateTypeOK ==
  /\ working \subseteq Actor
  /\ parked \in Seq(Actor)
  /\ phase \in [Actor -> {"none", "step", "missed", "parked", "sending"}]
  /\ stepped \subseteq working

GatedInit ==
  /\ Init
  /\ working = {}
  /\ parked = <<>>
  /\ phase = [a \in Actor |-> "none"]
  /\ stepped = {}

-----------------------------------------------------------------------------
(* The gate.                                                               *)

Parked == Elems(parked)

(* Fault: the seat that became free is kept. *)
NoSeats(w, limit) == 0

(* How many of the parked the limit lets go on when those in w work. *)
Seats(w, limit) ==
  LET free == IF Cardinality(w) < limit THEN limit - Cardinality(w) ELSE 0
  IN  IF free < Len(parked) THEN free ELSE Len(parked)

(* unpark: the first of the FIFO take the free seats; their requests go on. *)
Unpark(w, limit, ph, st) ==
  LET k       == Seats(w, limit)
      granted == {parked[i] : i \in 1..k}
  IN /\ working' = w \cup granted
     /\ parked' = SubSeq(parked, k + 1, Len(parked))
     /\ phase' = [a \in Actor |-> IF a \in granted THEN "sending" ELSE ph[a]]
     /\ stepped' = st \cup granted

(* setLimit, after the scheduler has taken over the new cap. *)
SetLimit(c) == Unpark(working, c, phase, IF c < cap THEN {} ELSE stepped)

AskStarted(a) ==
  /\ working' = IF a \in Parked THEN working ELSE working \cup {a}
  /\ phase' = [phase EXCEPT ![a] = "step"]
  /\ UNCHANGED <<parked, stepped>>

(* Fault: the seat of a settled ask is not taken back. *)
AskSettledKeepsSeat(a) == Unpark(working, cap, [phase EXCEPT ![a] = "none"], stepped \ {a})

(* askSettled: who worked gives up the seat; who was parked had none. *)
AskSettled(a) ==
  IF a \in Parked
  THEN /\ parked' = Without(parked, a)
       /\ phase' = [phase EXCEPT ![a] = "none"]
       /\ UNCHANGED <<working, stepped>>
  ELSE Unpark(working \ {a}, cap, [phase EXCEPT ![a] = "none"], stepped \ {a})

(* The end of the run aborts every turn.  Aborted requests return to work; *)
(* the asks are then settled one by one, unless the run failed.            *)
AllSettled == working' = {} /\ parked' = <<>>

AllAborted == working' = working \cup Parked /\ parked' = <<>>

TurnsAborted == phase' = [a \in Actor |-> "none"] /\ stepped' = {}

-----------------------------------------------------------------------------
(* A turn of a subagent: one request after the other, tools in between.    *)

(* Fault: the gate is asked on the fast path only. *)
BlockedOnlyFirst(a) == a \in working /\ Cardinality(working) > cap /\ phase[a] = "step"

(* needsSeat, and there is none. *)
Blocked(a) == a \in working /\ Cardinality(working) > cap

(* tryAcquire: a seat, and a ticket on the fast path. *)
Request(a) ==
  /\ phase[a] = "step"
  /\ ~Blocked(a)
  /\ phase' = [phase EXCEPT ![a] = "sending"]
  /\ stepped' = stepped \cup {a}
  /\ UNCHANGED <<vars, working, parked>>

(* tryAcquire without a seat, or without a ticket. *)
Miss(a) ==
  /\ phase[a] = "step"
  /\ phase' = [phase EXCEPT ![a] = "missed"]
  /\ UNCHANGED <<vars, working, parked, stepped>>

(* Fault: who is parked keeps the seat. *)
AcquireKeepsSeat(a) ==
  /\ phase[a] = "missed"
  /\ Blocked(a)
  /\ working' = working
  /\ parked' = Append(parked, a)
  /\ phase' = [phase EXCEPT ![a] = "parked"]
  /\ UNCHANGED <<vars, stepped>>

(* acquire, after an await: without a seat the actor is parked. *)
Park(a) ==
  /\ phase[a] = "missed"
  /\ Blocked(a)
  /\ working' = working \ {a}
  /\ parked' = Append(parked, a)
  /\ phase' = [phase EXCEPT ![a] = "parked"]
  /\ UNCHANGED <<vars, stepped>>

Acquire(a) ==
  /\ phase[a] = "missed"
  /\ ~Blocked(a)
  /\ phase' = [phase EXCEPT ![a] = "sending"]
  /\ stepped' = stepped \cup {a}
  /\ UNCHANGED <<vars, working, parked>>

RequestEnds(a) ==
  /\ phase[a] = "sending"
  /\ phase' = [phase EXCEPT ![a] = "step"]
  /\ stepped' = stepped \ {a}
  /\ UNCHANGED <<vars, working, parked>>

(* onAbort: the request is given up, the ask goes on. *)
RequestAborted(a) ==
  /\ phase[a] \in {"missed", "parked"}
  /\ working' = working \cup {a}
  /\ parked' = Without(parked, a)
  /\ phase' = [phase EXCEPT ![a] = "step"]
  /\ UNCHANGED <<vars, stepped>>

-----------------------------------------------------------------------------
(* The scheduler, heard by the gate.                                       *)

Start(n) == StartAsk(n) /\ AskStarted(ActorOf[n])

(* A turn reports between two requests: one that waits has nothing to say. *)
Reports(n) == phase[ActorOf[n]] = "step"

Settles(n) ==
  \/ SubmitAccepted(n) \/ SubmitExhausted(n)
  \/ TurnAnswers(n) \/ TurnWithoutResult(n) \/ AskFailed(n)

Report(n) == Reports(n) /\ Settles(n) /\ AskSettled(ActorOf[n])

GoesOn(n) == Reports(n) /\ (SubmitRejected(n) \/ TurnNudged(n)) /\ UNCHANGED gate

(* Fault: the gate does not hear of a new cap. *)
RetuneUnheard(c) == SetMaxConcurrency(c) /\ UNCHANGED gate

Retune(c) == SetMaxConcurrency(c) /\ SetLimit(c)

Ends == (Complete \/ Stop) /\ AllSettled /\ TurnsAborted

Fails == (FailRun \/ \E n \in Ask : AskUnknownActor(n)) /\ AllAborted /\ TurnsAborted

Unheard ==
  /\ \/ CreateActor
     \/ \E n \in Ask : AdmitAsk(n) \/ AskAfterSettled(n) \/ SessionFailed(n) \/ AskStats(n)
     \/ \E a \in Actor : AnySession(a)
  /\ UNCHANGED gate

Turn(a) == Request(a) \/ Miss(a) \/ Park(a) \/ Acquire(a) \/ RequestEnds(a)

GatedNext ==
  \/ Unheard
  \/ \E n \in Ask : Start(n) \/ Report(n) \/ GoesOn(n)
  \/ \E c \in Caps : Retune(c)
  \/ Ends \/ Fails
  \/ \E a \in Actor : Turn(a) \/ RequestAborted(a)

(* The fairness of the scheduler's driver, now that a turn consists of     *)
(* requests: each is made and answered, and a turn that could end again    *)
(* and again does.  Nothing obliges a request to be aborted.               *)
GatedFairness ==
  /\ \A a \in Actor : WF_gatedVars(AnySession(a) /\ UNCHANGED gate)
  /\ \A a \in Actor : WF_gatedVars(Turn(a))
  /\ \A n \in Ask : /\ WF_gatedVars(Start(n) \/ (SessionFailed(n) /\ UNCHANGED gate))
                    /\ SF_gatedVars(Report(n))

GatedSpec == GatedInit /\ [][GatedNext]_gatedVars

GatedFairSpec == GatedSpec /\ GatedFairness
-----------------------------------------------------------------------------
(* What must hold.                                                         *)

(* The gate keeps no account of its own: it must add up what it hears to   *)
(* the asks in flight.  Each actor with a started ask works or is parked,  *)
(* is so once, and nobody else is.                                         *)
SeatsMatchAsks ==
  run = "running" =>
    /\ working \cup Parked = {a \in Actor : current[a] \in dispatched}
    /\ working \cap Parked = {}
    /\ Cardinality(Parked) = Len(parked)
    /\ Parked = {a \in Actor : phase[a] = "parked"}

(* Nobody waits for a seat while one is free.  As the cap is at least one, *)
(* somebody works whenever somebody is parked.                             *)
ParkedMeansFull == parked # <<>> => Cardinality(working) >= cap

(* Gate and scheduler agree without a word: while somebody is parked the   *)
(* scheduler counts more asks than the cap allows, so it dispatches none   *)
(* that would come before them.                                            *)
NobodyOvertakes == run = "running" /\ parked # <<>> => active > cap

(* A lowered cap bites at the next request: of the requests let through    *)
(* since then, never more than the cap are in flight.                      *)
CapBitesAtNextRequest == Cardinality(stepped) <= cap
=============================================================================
