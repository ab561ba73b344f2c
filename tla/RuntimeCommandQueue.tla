------------------------ MODULE RuntimeCommandQueue ------------------------
(***************************************************************************)
(* The turn queue of one agent session (runtime/command-queue.ts and the   *)
(* methods around it).  Prompts, notices of background tasks, messages of  *)
(* subagents and control turns (a settings change that only has to be put  *)
(* on record) wait in one FIFO; a single drain loop runs them one after    *)
(* the other, each as the foreground execution of the session.             *)
(*                                                                         *)
(* Three things reach around the loop.  A running turn absorbs notices and *)
(* messages between two of its model steps.  A promotion (a queued prompt, *)
(* compaction or goal, sent now) takes a lease, stops the foreground,      *)
(* waits for it to end and then starts the one command the lease names: of *)
(* a goal, its first continuation, which a background submits.  A rewind   *)
(* makes everything queued for the abandoned branch stale.                 *)
(*                                                                         *)
(* An action ends where the code suspends.  Everything is enqueued with    *)
(* the same priority.  Left out: the deferred inputs a busy session keeps  *)
(* elsewhere, the goal continuation behind a turn (a continuation that was *)
(* promoted is one turn here), and the suppression of a notice, which      *)
(* drops it as staleness does.  Whether a session plans and whether it has *)
(* an abort controller are not modelled: what the code makes of them when  *)
(* a goal is applied is a choice.                                          *)
(***************************************************************************)
CONSTANTS
  Prompt,     \* the prompts entered for execution when there is room
  Promoted,   \* the queued items that are sent now
  Compact,    \* which of those are compactions
  Goal,       \* and which are goals; the others are prompts
  Note,       \* the notices of background tasks
  Message,    \* the messages of subagents
  Control,    \* the control turns
  NoCmd       \* no command

Branched == Note \cup Message \cup Control
Cmd      == Prompt \cup Promoted \cup Branched

ASSUME CmdAssumption ==
  /\ Compact \subseteq Promoted /\ Goal \subseteq Promoted /\ Compact \cap Goal = {}
  /\ Prompt \cap Promoted = {}
  /\ (Prompt \cup Promoted) \cap Branched = {}
  /\ Note \cap Message = {} /\ Control \cap (Note \cup Message) = {}
  /\ NoCmd \notin Cmd

VARIABLES
  queue,        \* the commands that wait
  ahead,        \* per waiting command, those before it in the FIFO
  stale,        \* the queued ones of a branch that was since abandoned
  batch,        \* what the foreground execution runs
  phase,        \* where the drain loop is suspended
  stopped,      \* the foreground execution was told to stop
  reservation,  \* activeTurnStartReservation: the commands whose turn may start
  activeTurn,   \* the commands whose turn is running
  absorbing,    \* what the running turn is still about to absorb
  lease,        \* foregroundPromotionLease: the command it names
  promo,        \* per promoted command, where its handler, or background, is
  returning,    \* the goals whose handler gives the lease back, although a
                \* background was started that does so too
  fate          \* per command, what became of it

turnVars == <<batch, phase, stopped, reservation, activeTurn>>
fifo == <<queue, ahead, stale>>
handlers == <<promo, returning>>
vars == <<fifo, turnVars, absorbing, lease, handlers, fate>>

Foreground == {"persist", "start", "turn", "record", "over"}
Phase      == Foreground \cup {"off", "top"}

TypeOK ==
  /\ queue \subseteq Cmd
  /\ ahead \in [Cmd -> SUBSET queue]
  /\ stale \subseteq queue \cap Branched
  /\ batch \subseteq Cmd
  /\ phase \in Phase
  /\ stopped \in BOOLEAN
  /\ reservation \subseteq Cmd
  /\ activeTurn \subseteq Cmd
  /\ absorbing \subseteq queue \cap (Note \cup Message)
  /\ lease \in Promoted \cup {NoCmd}
  /\ promo \in [Promoted -> {"new", "preempt", "wait", "ready", "starting", "staying",
                             "background", "submitted", "releasing", "done", "lost"}]
  /\ returning \subseteq Goal
  /\ fate \in [Cmd -> {"new", "queued", "running", "ended"}]

(* A session at rest.  Those gone came before to nothing: a prompt aborted *)
(* when it was admitted, a promotion that gave up, a notice found stale.   *)
AtRest(gone) ==
  /\ queue = {} /\ ahead = [c \in Cmd |-> {}] /\ stale = {}
  /\ batch = {} /\ phase = "off" /\ stopped = FALSE
  /\ reservation = {} /\ activeTurn = {}
  /\ absorbing = {}
  /\ lease = NoCmd
  /\ promo = [p \in Promoted |-> IF p \in gone THEN "done" ELSE "new"] /\ returning = {}
  /\ fate = [c \in Cmd |-> IF c \in gone \ Promoted THEN "ended" ELSE "new"]

Init == AtRest({})

-----------------------------------------------------------------------------
(* The queue.  A queue is given by its set and its order, q and a.         *)

(* The S leave: dequeueNextBatch, removeById. *)
Leave(S, q, a) ==
  /\ queue' = q \ S
  /\ ahead' = [c \in Cmd |-> IF c \in S THEN {} ELSE a[c] \ S]
  /\ stale' = stale \ S

(* Fault: the loop takes the oldest command, lease or not. *)
RunnableLeaseUnseen(q, l) == q # {}

(* dequeueNextRunnableBatch has a command to take: under a lease only the  *)
(* one the lease names.                                                    *)
Runnable(q, l) == IF l = NoCmd THEN q # {} ELSE l \in q

NextCmd(q, a, l) == IF l \in q THEN l ELSE CHOOSE c \in q : a[c] = {}

(* dequeueNextBatch: all the notices leave the queue together with the     *)
(* first of them.                                                          *)
Taken(q, c) == IF c \in Note THEN q \cap Note ELSE {c}

(* Where a command is first suspended: a notice or a message is put on     *)
(* record before its turn, a goal's continuation reads the goal, a prompt  *)
(* goes to its turn at once.                                               *)
FirstPhase(c) ==
  CASE c \in Control -> "record"
    [] c \in Note \cup Message \cup Goal -> "persist"
    [] OTHER -> "start"

(* The drain loop from its head to where it next suspends, when the queue, *)
(* its order, the lease, the start reservation and the fates are q, a, l,  *)
(* r and f: nothing to take; all of it stale (isStaleBranchRuntimeCommand, *)
(* command by command); or beginForegroundExecution and, for a prompt, the *)
(* reservation of its turn (made at admission or here; never refused, see  *)
(* SlotIsOwned).  A cancellation cannot come between the dequeuing and the *)
(* beginning, so there is never one to consume.                            *)
Drain(q, a, l, r, f) ==
  LET c     == NextCmd(q, a, l)
      taken == Taken(q, c)
      fresh == taken \ stale
  IN \/ /\ ~Runnable(q, l)
        /\ queue' = q /\ ahead' = a /\ fate' = f /\ lease' = l
        /\ phase' = "off" /\ reservation' = r
        /\ UNCHANGED <<stale, batch, stopped>>
     \/ /\ Runnable(q, l)
        /\ Leave(taken, q, a)
        /\ lease' = NoCmd
        /\ fate' = [d \in Cmd |-> IF d \in fresh THEN "running"
                                  ELSE IF d \in taken THEN "ended" ELSE f[d]]
        /\ IF fresh = {}
           THEN /\ phase' = "top" /\ reservation' = r
                /\ UNCHANGED <<batch, stopped>>
           ELSE /\ batch' = fresh /\ stopped' = FALSE
                /\ phase' = FirstPhase(c)
                /\ reservation' = IF FirstPhase(c) = "start" THEN fresh ELSE r

(* enqueueRuntimeCommand: append, and start the loop if it is not running. *)
Submit(c, r) ==
  LET q == queue \cup {c}
      a == [ahead EXCEPT ![c] = queue]
      f == [fate EXCEPT ![c] = "queued"]
  IN /\ fate[c] = "new"
     /\ IF phase = "off"
        THEN Drain(q, a, lease, r, f)
        ELSE /\ queue' = q /\ ahead' = a /\ fate' = f /\ reservation' = r
             /\ UNCHANGED <<stale, batch, phase, stopped, lease>>
     /\ UNCHANGED <<activeTurn, absorbing>>

(* hasActiveOrQueuedTurnWork, but for the lease. *)
Working ==
  phase # "off" \/ queue # {} \/ activeTurn # {} \/ reservation # {}

(* A notice, a message or a control turn of the current branch. *)
Enqueue(c) == c \in Branched /\ Submit(c, reservation) /\ UNCHANGED handlers

(* executeTurn, and a goal's continuation. *)
ExecuteTurn(p) == p \in Prompt /\ Submit(p, reservation) /\ UNCHANGED handlers

(* admitPrompt of an idle session (a busy one defers the input). *)
AdmitPrompt(p) ==
  /\ p \in Prompt
  /\ lease = NoCmd /\ ~Working
  /\ Submit(p, {p})
  /\ UNCHANGED handlers

(* Fault: the start stays reserved. *)
AdmitAbortedReserved(p) ==
  /\ p \in Prompt /\ fate[p] = "new"
  /\ lease = NoCmd /\ ~Working
  /\ fate' = [fate EXCEPT ![p] = "ended"] /\ reservation' = {p}
  /\ UNCHANGED <<fifo, batch, phase, stopped, activeTurn, absorbing, lease, handlers>>

(* The same, aborted before it got here: reserved, released and rejected.  *)
AdmitAborted(p) ==
  /\ p \in Prompt /\ fate[p] = "new"
  /\ lease = NoCmd /\ ~Working
  /\ fate' = [fate EXCEPT ![p] = "ended"]
  /\ UNCHANGED <<fifo, turnVars, absorbing, lease, handlers>>

(* abortQueuedCommand, of a prompt still in the queue. *)
CancelQueued(p) ==
  /\ p \in (Prompt \cup Compact \cup Goal) \cap queue
  /\ Leave({p}, queue, ahead)
  /\ reservation' = IF reservation = {p} THEN {} ELSE reservation
  /\ fate' = [fate EXCEPT ![p] = "ended"]
  /\ UNCHANGED <<batch, phase, stopped, activeTurn, absorbing, lease, handlers>>

(* stopActiveForegroundExecution, or the abort of the running prompt. *)
Stop ==
  /\ phase \in Foreground /\ ~stopped
  /\ stopped' = TRUE
  /\ UNCHANGED <<fifo, batch, phase, reservation, activeTurn, absorbing,
                 lease, handlers, fate>>

(* A rewind takes the session to another branch. *)
Rewind ==
  /\ stale' = queue \cap Branched /\ stale' # stale
  /\ UNCHANGED <<queue, ahead, turnVars, absorbing, lease, handlers, fate>>

-----------------------------------------------------------------------------
(* The foreground execution.                                               *)

(* The notices, or the message, are on record, or the goal is still one to *)
(* go on with; their turn is reserved.                                     *)
Persisted ==
  /\ phase = "persist"
  /\ phase' = "start" /\ reservation' = batch
  /\ UNCHANGED <<fifo, batch, stopped, activeTurn, absorbing, lease, handlers, fate>>

(* beginActiveTurn. *)
BeginTurn ==
  /\ phase = "start"
  /\ phase' = "turn" /\ reservation' = {} /\ activeTurn' = batch
  /\ UNCHANGED <<fifo, batch, stopped, absorbing, lease, handlers, fate>>

(* Fault: control turns are passed over like prompts. *)
AbsorbableBeyond == queue \cap (Note \cup Message)

(* What drainPendingRuntimeCommandsForActiveLoop is to take, of the queue  *)
(* as it is: nothing behind a control turn.                                *)
Absorbable == {c \in queue \cap (Note \cup Message) : ahead[c] \cap Control = {}}

AbsorbBegin ==
  /\ phase = "turn" /\ ~stopped /\ absorbing = {}
  /\ Absorbable # {}
  /\ absorbing' = Absorbable
  /\ UNCHANGED <<fifo, turnVars, lease, handlers, fate>>

(* The next of them: a stale one is dropped, the others are put on record  *)
(* and given to the turn.                                                  *)
AbsorbOne ==
  \E c \in absorbing :
     /\ ahead[c] \cap absorbing = {}
     /\ absorbing' = absorbing \ {c}
     /\ Leave({c}, queue, ahead)
     /\ fate' = [fate EXCEPT ![c] = "ended"]
     /\ UNCHANGED <<turnVars, lease, handlers>>

(* Putting it on record fails, and with that the turn.                     *)
AbsorbFails ==
  \E c \in absorbing \ stale :
     /\ ahead[c] \cap absorbing = {}
     /\ absorbing' = {}
     /\ Leave({c}, queue, ahead)
     /\ fate' = [fate EXCEPT ![c] = "ended"]
     /\ phase' = "over" /\ activeTurn' = {}
     /\ UNCHANGED <<batch, stopped, reservation, lease, handlers>>

(* The end of executeTurnCommand, of a turn that began or failed before:   *)
(* releaseTurnStart and finishActiveTurn.                                  *)
EndTurn ==
  /\ phase \in {"start", "turn"} /\ absorbing = {}
  /\ phase' = "over"
  /\ reservation' = IF reservation = batch THEN {} ELSE reservation
  /\ activeTurn' = IF activeTurn = batch THEN {} ELSE activeTurn
  /\ UNCHANGED <<fifo, batch, stopped, absorbing, lease, handlers, fate>>

(* finishForegroundExecution: after the turn, after a control turn was put *)
(* on record, or when that failed.                                         *)
Finish ==
  /\ phase \in {"persist", "record", "over"}
  /\ phase' = "top" /\ batch' = {} /\ stopped' = FALSE
  /\ fate' = [c \in Cmd |-> IF c \in batch THEN "ended" ELSE fate[c]]
  /\ UNCHANGED <<fifo, reservation, activeTurn, absorbing, lease, handlers>>

(* The next round of the loop. *)
Continue ==
  /\ phase = "top"
  /\ Drain(queue, ahead, lease, reservation, fate)
  /\ UNCHANGED <<activeTurn, absorbing, handlers>>

-----------------------------------------------------------------------------
(* The promotions: sendQueuedNow, by hand (after the current command) or   *)
(* by the automatic drain (of an idle session only), and sendText's "now". *)

Go(p, state) == promo' = [promo EXCEPT ![p] = state] /\ UNCHANGED returning

AcquireAfterCurrent(p) ==
  /\ promo[p] = "new" /\ lease = NoCmd
  /\ lease' = p /\ Go(p, "preempt")
  /\ UNCHANGED <<fifo, turnVars, absorbing, fate>>

AcquireIdleOnly(p) ==
  /\ promo[p] = "new" /\ lease = NoCmd /\ ~Working
  /\ lease' = p /\ Go(p, "ready")
  /\ UNCHANGED <<fifo, turnVars, absorbing, fate>>

(* preemptActiveTurnAndWait: stop the foreground ...                       *)
Preempt(p) ==
  /\ promo[p] = "preempt" /\ Go(p, "wait")
  /\ stopped' = (phase \in Foreground)
  /\ UNCHANGED <<fifo, batch, phase, reservation, activeTurn, absorbing, lease, fate>>

(* ... and wait until there is none.                                       *)
SeenIdle(p) ==
  /\ promo[p] = "wait" /\ phase \notin Foreground
  /\ Go(p, "ready")
  /\ UNCHANGED <<fifo, turnVars, absorbing, lease, fate>>

(* admitPrompt with requireIdle: the lease is all there may be.            *)
AdmitPromoted(p) ==
  /\ promo[p] = "ready" /\ p \notin Compact \cup Goal
  /\ ~Working
  /\ Submit(p, {p})
  /\ Go(p, "done")

Rejected(p) ==
  /\ promo[p] = "ready" /\ p \notin Compact \cup Goal
  /\ Working
  /\ Go(p, "releasing")
  /\ UNCHANGED <<fifo, turnVars, absorbing, lease, fate>>

(* goalContinuationWillStart: the session plans, or does not, and that is  *)
(* remembered over the awaits of applyGoalCommand.                         *)
ApplyGoal(p) ==
  /\ promo[p] = "ready" /\ p \in Goal
  /\ Go(p, "starting") \/ Go(p, "staying")
  /\ UNCHANGED <<fifo, turnVars, absorbing, lease, fate>>

(* continueGoalAfterChange, of a session that does not plan now and has no *)
(* abort controller: a background is started.  The handler gives the lease *)
(* back as well if it did not expect one, or if one of its last steps      *)
(* fails.                                                                  *)
GoalContinues(p) ==
  /\ promo[p] \in {"starting", "staying"}
  /\ promo' = [promo EXCEPT ![p] = "background"]
  /\ \/ promo[p] = "starting" /\ returning' = returning
     \/ returning' = returning \cup {p}
  /\ UNCHANGED <<fifo, turnVars, absorbing, lease, fate>>

(* Of one that plans or has a controller: the goal is only stored.  The    *)
(* handler that expected no background gives the lease back ...            *)
GoalStays(p) ==
  /\ promo[p] = "staying"
  /\ Go(p, "releasing")
  /\ UNCHANGED <<fifo, turnVars, absorbing, lease, fate>>

(* ... and the one that did leaves that to a background there is none of.  *)
GoalLoses(p) ==
  /\ promo[p] = "starting"
  /\ Go(p, "lost")
  /\ UNCHANGED <<fifo, turnVars, absorbing, lease, fate>>

(* startManualCompact and the background of a goal: the command is         *)
(* enqueued whatever else is there.                                        *)
SubmitBehind(p) ==
  /\ \/ promo[p] = "ready" /\ p \in Compact
     \/ promo[p] = "background"
  /\ Submit(p, reservation)
  /\ Go(p, "submitted")

BackgroundEnds(p) ==
  /\ \/ promo[p] = "submitted" /\ fate[p] = "ended"
     \/ promo[p] = "background"
  /\ Go(p, "releasing")
  /\ UNCHANGED <<fifo, turnVars, absorbing, lease, fate>>

(* Where a step of the handler fails, or its wait times out. *)
InHandler == {"preempt", "wait", "ready", "starting", "staying"}

(* Fault: a promotion that timed out keeps its lease. *)
GiveUpHolding(p) ==
  /\ promo[p] \in InHandler
  /\ Go(p, "done")
  /\ UNCHANGED <<fifo, turnVars, absorbing, lease, fate>>

(* The finally of sendQueuedNow is reached with the lease. *)
GiveUp(p) ==
  /\ promo[p] \in InHandler
  /\ Go(p, "releasing")
  /\ UNCHANGED <<fifo, turnVars, absorbing, lease, fate>>

(* Fault: what waited behind the lease is left for the next command. *)
GiveBackQuietly(p) ==
  /\ lease' = IF lease = p THEN NoCmd ELSE lease
  /\ UNCHANGED <<fifo, turnVars, absorbing, fate>>

(* releaseForegroundPromotionLease: a lease still held is given back and   *)
(* the loop started.                                                       *)
GiveBack(p) ==
  /\ IF lease = p /\ phase = "off"
     THEN Drain(queue, ahead, NoCmd, reservation, fate)
     ELSE /\ lease' = IF lease = p THEN NoCmd ELSE lease
          /\ UNCHANGED <<fifo, batch, phase, stopped, reservation, fate>>
  /\ UNCHANGED <<activeTurn, absorbing>>

Release(p) == promo[p] = "releasing" /\ GiveBack(p) /\ Go(p, "done")

HandlerReturns(p) ==
  /\ p \in returning
  /\ GiveBack(p)
  /\ returning' = returning \ {p} /\ UNCHANGED promo

-----------------------------------------------------------------------------
Arrive ==
  \/ \E c \in Branched : Enqueue(c)
  \/ \E p \in Prompt : ExecuteTurn(p) \/ AdmitPrompt(p) \/ AdmitAborted(p)
  \/ \E p \in Promoted : AcquireAfterCurrent(p) \/ AcquireIdleOnly(p)

Interfere == Stop \/ Rewind \/ \E p \in Prompt \cup Compact \cup Goal : CancelQueued(p)

Run ==
  \/ Persisted \/ BeginTurn \/ EndTurn \/ Finish \/ Continue
  \/ AbsorbOne \/ AbsorbFails

Promote(p) ==
  \/ Preempt(p) \/ SeenIdle(p) \/ AdmitPromoted(p) \/ Rejected(p)
  \/ ApplyGoal(p) \/ GoalContinues(p) \/ GoalStays(p) \/ GoalLoses(p)
  \/ SubmitBehind(p) \/ BackgroundEnds(p) \/ GiveUp(p) \/ Release(p) \/ HandlerReturns(p)

Next == Arrive \/ Interfere \/ Run \/ AbsorbBegin \/ \E p \in Promoted : Promote(p)

Spec == Init /\ [][Next]_vars

(* Every turn returns or is stopped, every write ends, and the handler of  *)
(* a promotion runs on: its wait has a deadline.                           *)
Fairness == WF_vars(Run) /\ \A p \in Promoted : WF_vars(Promote(p))

FairSpec == Spec /\ Fairness

-----------------------------------------------------------------------------
(* Properties.                                                             *)

(* A reserved or running turn is that of the foreground execution, in the  *)
(* phase that owns it; so nothing is left reserved or active when a        *)
(* command has ended, failed or been cancelled, and reserveTurnStart and   *)
(* beginActiveTurn never find another's turn (the session would then be    *)
(* busy for ever).                                                         *)
SlotIsOwned ==
  /\ reservation = IF phase = "start" THEN batch ELSE {}
  /\ activeTurn = IF phase = "turn" THEN batch ELSE {}

(* A goal's handler left the lease to a background that was not started.   *)
LeaseLost == lease # NoCmd /\ promo[lease] = "lost"

(* While commands wait, the loop is running or a promotion that is still   *)
(* under way holds the lease (and will start the loop when it gives it     *)
(* back), unless a goal lost the lease for ever; no other promotion is     *)
(* ever over with the lease still taken.                                   *)
PendingHasDrainer ==
  queue # {} => \/ phase # "off"
                \/ lease # NoCmd /\ promo[lease] \notin {"new", "done", "lost"}
                \/ LeaseLost

(* From the moment a promotion holds the lease until it gives it back, no  *)
(* other command becomes the foreground, whoever enqueues, cancels, stops  *)
(* or rewinds meanwhile.                                                   *)
LeaseIsRespected ==
  [][lease # NoCmd /\ batch' # batch /\ batch' # {}
       => batch' = {lease} \/ promo[lease] = "releasing" \/ lease \in returning]_vars

(* A turn never absorbs what arrived behind a control turn that still      *)
(* waits, however long it takes to absorb what was before it.              *)
ControlBarsAbsorption ==
  [][phase = "turn" =>
       \A d \in Note \cup Message, c \in Control :
         c \in ahead[d] => d \in queue']_vars

(* What was enqueued is run, absorbed, dropped or cancelled in the end:    *)
(* nothing waits for the next command to come.  Only the lease a goal lost *)
(* keeps it waiting, and then for ever (continueGoalAfterChange decides    *)
(* again what sendQueuedNow had decided before its awaits).                *)
Pending == queue # {} \/ phase # "off"

ComesToRest == Pending ~> ~Pending \/ LeaseLost
=============================================================================
