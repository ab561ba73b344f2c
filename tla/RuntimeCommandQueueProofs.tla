--------------------- MODULE RuntimeCommandQueueProofs ---------------------
(* Proofs about RuntimeCommandQueue: whose the turn is, that the loop is   *)
(* never left standing, what a lease keeps out and what a turn absorbs.    *)
EXTENDS RuntimeCommandQueue, TLAPS

Fate    == {"new", "queued", "running", "ended"}
Holding == InHandler
Outside == Holding \cup {"new", "background"}
Handled == Outside \cup {"submitted", "releasing", "done", "lost"}
Idle    == {"new", "done"}

Typed ==
  /\ queue \subseteq Cmd
  /\ ahead \in [Cmd -> SUBSET Cmd]
  /\ stale \subseteq Branched
  /\ phase \in Phase
  /\ lease \in Promoted \cup {NoCmd}
  /\ promo \in [Promoted -> Handled] /\ returning \subseteq Goal
  /\ fate \in [Cmd -> Fate]

(* The fate of a command says where it is, and only waiting ones are ahead *)
(* of anything.                                                            *)
FateTells ==
  /\ \A c \in queue : fate[c] = "queued"
  /\ \A c \in batch \cap Cmd : fate[c] = "running"
  /\ \A d \in Cmd : ahead[d] # {} => d \in queue
  /\ phase \notin Foreground => batch = {}

(* A promotion that has not submitted its command yet holds the lease for  *)
(* it, and the command is nowhere in the queue.  A handler that gives back *)
(* the lease of a background is past all its steps.                        *)
LeaseHeld ==
  \A p \in Promoted : /\ promo[p] \in Outside => p \notin queue
                      /\ promo[p] \in Holding \ {"preempt", "wait", "ready"} => p \in Goal
                      /\ promo[p] \in Holding => lease = p
                      /\ p \in returning => promo[p] \notin Holding \cup {"new"}

(* No promotion that is over, or has not begun, is left with the lease.    *)
LeaseOwned == lease # NoCmd => promo[lease] \notin Idle

(* PendingHasDrainer without the owner of the lease. *)
Drained == queue # {} => phase # "off" \/ lease # NoCmd

(* What is being absorbed waits, and is behind no control turn.            *)
AbsorbsUnbarred ==
  /\ absorbing # {} => phase = "turn"
  /\ absorbing \subseteq queue
  /\ \A d \in absorbing : d \in Note \cup Message /\ ahead[d] \cap Control = {}

IInv ==
  /\ Typed /\ FateTells /\ LeaseHeld /\ AbsorbsUnbarred
  /\ SlotIsOwned /\ Drained /\ LeaseOwned

LEMMA InitIInv == Init => IInv
<1> SUFFICES ASSUME Init PROVE IInv
  OBVIOUS
<1>1. Typed
  BY DEF Init, AtRest, Typed, Phase, Outside, Handled, Fate
<1>2. LeaseHeld
  BY DEF Init, AtRest, LeaseHeld, Holding, InHandler, Outside
<1>3. FateTells
  BY DEF Init, AtRest, FateTells
<1> QED
  BY <1>1, <1>2, <1>3 DEF Init, AtRest, IInv, AbsorbsUnbarred, SlotIsOwned, Drained, LeaseOwned

-----------------------------------------------------------------------------
(* The drain loop, up to where it suspends.                                *)

LEMMA FirstPhases == \A c : FirstPhase(c) \in {"record", "persist", "start"}
BY DEF FirstPhase

(* What Drain leaves, whatever command it took.                            *)
LEMMA DrainKeeps ==
  ASSUME NEW q \in SUBSET Cmd, NEW a \in [Cmd -> SUBSET Cmd],
         NEW l \in Promoted \cup {NoCmd}, NEW r, NEW f \in [Cmd -> Fate],
         stale \subseteq Branched, batch = {},
         \A c \in q : f[c] = "queued",
         \A d \in Cmd : a[d] # {} => d \in q,
         Drain(q, a, l, r, f)
  PROVE  /\ queue' \subseteq q /\ ahead' \in [Cmd -> SUBSET Cmd]
         /\ stale' \subseteq Branched /\ fate' \in [Cmd -> Fate]
         /\ phase' \in Phase \ {"turn"}
         /\ \A c \in queue' : fate'[c] = "queued"
         /\ \A c \in batch' \cap Cmd : fate'[c] = "running"
         /\ \A d \in Cmd : ahead'[d] # {} => d \in queue'
         /\ phase' \notin Foreground => batch' = {}
         /\ lease' \in {l, NoCmd} /\ (l \notin q => lease' = l)
         /\ queue' # {} => phase' # "off" \/ lease' # NoCmd
         /\ reservation' = IF phase' = "start" THEN batch' ELSE r
         /\ l # NoCmd => batch' \in {{}, {l}}
<1> DEFINE c     == NextCmd(q, a, l)
           taken == Taken(q, c)
           fresh == taken \ stale
<1>1. CASE ~Runnable(q, l)
  <2>1. /\ queue' = q /\ ahead' = a /\ fate' = f /\ lease' = l
        /\ phase' = "off" /\ reservation' = r /\ stale' = stale /\ batch' = batch
    BY <1>1 DEF Drain
  <2> QED
    BY <1>1, <2>1 DEF Runnable, Phase, Foreground
<1>2. CASE Runnable(q, l)
  <2> HIDE DEF c
  <2>1. /\ queue' = q \ taken /\ stale' = stale \ taken
        /\ ahead' = [d \in Cmd |-> IF d \in taken THEN {} ELSE a[d] \ taken]
        /\ lease' = NoCmd
        /\ fate' = [d \in Cmd |-> IF d \in fresh THEN "running"
                                  ELSE IF d \in taken THEN "ended" ELSE f[d]]
        /\ IF fresh = {}
           THEN phase' = "top" /\ reservation' = r /\ batch' = batch
           ELSE /\ batch' = fresh /\ phase' = FirstPhase(c)
                /\ reservation' = IF FirstPhase(c) = "start" THEN fresh ELSE r
    BY <1>2 DEF Drain, Leave, c
  <2> HIDE DEF taken
  <2>2. /\ phase' \in {"top", "record", "persist", "start"}
        /\ phase' = "top" => batch' = {}
        /\ reservation' = IF phase' = "start" THEN batch' ELSE r
    BY <2>1, FirstPhases
  <2>3. fate' \in [Cmd -> Fate] /\ ahead' \in [Cmd -> SUBSET Cmd]
    BY <2>1 DEF Fate
  <2>4. /\ \A d \in queue' : fate'[d] = "queued"
        /\ \A d \in batch' \cap Cmd : fate'[d] = "running"
        /\ \A d \in Cmd : ahead'[d] # {} => d \in queue'
    BY <2>1
  <2>5. l # NoCmd => batch' \in {{}, {l}}
    <3> SUFFICES ASSUME l # NoCmd PROVE batch' \in {{}, {l}}
      OBVIOUS
    <3>1. l \in q /\ l \notin Note
      BY <1>2, CmdAssumption DEF Runnable, Branched
    <3>2. taken = {l}
      BY <3>1 DEF taken, c, NextCmd, Taken
    <3> QED  BY <2>1, <3>2
  <2>6. l \notin q => l = NoCmd
    BY <1>2 DEF Runnable
  <2> QED
    BY <2>1, <2>2, <2>3, <2>4, <2>5, <2>6 DEF Phase, Foreground
<1> QED  BY <1>1, <1>2

(* A prompt that is alone in the queue, under no lease or its own, is the  *)
(* one that is begun, and its turn the one reserved.                       *)
LEMMA DrainsAlone ==
  ASSUME NEW p \in (Prompt \cup Promoted) \ Goal, NEW a, a[p] = {},
         NEW l \in {p, NoCmd}, NEW r, NEW f, stale \subseteq Branched,
         Drain({p}, a, l, r, f)
  PROVE  phase' = "start" /\ batch' = {p} /\ reservation' = {p} /\ lease' = NoCmd
<1>1. Runnable({p}, l)
  BY DEF Runnable
<1>2. NextCmd({p}, a, l) = p
  BY DEF NextCmd
<1>3. p \notin Branched
  BY CmdAssumption
<1>4. Taken({p}, p) = {p} /\ {p} \ stale = {p} /\ FirstPhase(p) = "start"
  BY <1>3 DEF Taken, FirstPhase, Branched
<1> QED  BY <1>1, <1>2, <1>4 DEF Drain

-----------------------------------------------------------------------------
(* The invariant is inductive, action by action.                           *)

(* What enqueueing c with reservation r leaves of the handlers: none but   *)
(* that of c moves, and it is past its wait.                               *)
Behind(c, r) ==
  /\ promo' \in [Promoted -> Handled] /\ returning' = returning
  /\ \A p \in Promoted : promo'[p] \in Outside => promo'[p] = promo[p] /\ p # c
  /\ \A p \in Promoted : promo'[p] \in Idle
       => promo[p] \in Idle \/ (p = c /\ r = {c} /\ ~Working)

(* The reservation stays, or it is made for a prompt of an idle session.   *)
StartOf(c, r) ==
  \/ r = reservation
  \/ r = {c} /\ ~Working /\ c \in (Prompt \cup Promoted) \ Goal /\ lease \in {c, NoCmd}

(* Enqueueing, for those that come without a promotion and for a promoted  *)
(* command whose handler is past its wait.                                 *)
LEMMA SubmitKeeps ==
  ASSUME IInv, NEW c \in Cmd, NEW r, Submit(c, r),
         Behind(c, r), StartOf(c, r)
  PROVE  IInv'
<1> DEFINE q == queue \cup {c}
           a == [ahead EXCEPT ![c] = queue]
           f == [fate EXCEPT ![c] = "queued"]
<1> USE DEF IInv, Behind, StartOf
<1>1. fate[c] = "new" /\ c \notin queue
  BY DEF Submit, FateTells
<1>2. /\ q \in SUBSET Cmd /\ a \in [Cmd -> SUBSET Cmd] /\ f \in [Cmd -> Fate]
      /\ \A d \in q : f[d] = "queued"
      /\ \A d \in Cmd : a[d] # {} => d \in q
  BY <1>1 DEF Typed, Fate, FateTells
<1>3. CASE phase = "off"
  <2>1. Drain(q, a, lease, r, f) /\ activeTurn' = activeTurn /\ absorbing' = absorbing
    BY <1>3 DEF Submit
  <2>2. /\ batch = {} /\ absorbing = {} /\ reservation = {} /\ activeTurn = {}
    BY <1>3 DEF FateTells, AbsorbsUnbarred, SlotIsOwned, Foreground
  <2>3. stale \subseteq Branched /\ lease \in Promoted \cup {NoCmd}
    BY DEF Typed
  <2> HIDE DEF q, a, f
  <2>4. /\ queue' \subseteq q /\ ahead' \in [Cmd -> SUBSET Cmd]
        /\ stale' \subseteq Branched /\ fate' \in [Cmd -> Fate]
        /\ phase' \in Phase \ {"turn"}
        /\ \A d \in queue' : fate'[d] = "queued"
        /\ \A d \in batch' \cap Cmd : fate'[d] = "running"
        /\ \A d \in Cmd : ahead'[d] # {} => d \in queue'
        /\ phase' \notin Foreground => batch' = {}
        /\ lease' \in {lease, NoCmd} /\ (lease \notin q => lease' = lease)
        /\ queue' # {} => phase' # "off" \/ lease' # NoCmd
        /\ reservation' = IF phase' = "start" THEN batch' ELSE r
        /\ lease # NoCmd => batch' \in {{}, {lease}}
    BY <1>2, <2>1, <2>2, <2>3, DrainKeeps, Zenon
  <2>5. Typed'
    BY <1>2, <2>3, <2>4 DEF Typed
  <2>6. FateTells'
    BY <2>4 DEF FateTells
  <2>7. LeaseHeld'
    <3>1. ASSUME NEW p \in Promoted, promo'[p] \in Outside
          PROVE  p \notin queue' /\ (promo'[p] \in Holding => lease' = p)
      <4>1. p \notin q
        BY <3>1 DEF LeaseHeld, q
      <4> QED  BY <2>4, <3>1, <4>1 DEF LeaseHeld
    <3>2. ASSUME NEW p \in Promoted, p \in returning
          PROVE  promo'[p] \notin Holding \cup {"new"}
      BY <3>2 DEF LeaseHeld, Outside
    <3> QED  BY <3>1, <3>2 DEF LeaseHeld, Outside
  <2>8. AbsorbsUnbarred'
    BY <2>1, <2>2 DEF AbsorbsUnbarred
  <2>9. SlotIsOwned'
    <3>1. CASE r = reservation
      BY <2>1, <2>2, <2>4, <3>1 DEF SlotIsOwned
    <3>2. CASE r = {c} /\ ~Working /\ c \in (Prompt \cup Promoted) \ Goal /\ lease \in {c, NoCmd}
      <4>1. q = {c} /\ a[c] = {}
        BY <3>2 DEF Working, q, a, Typed
      <4>2. phase' = "start" /\ batch' = {c} /\ reservation' = {c} /\ lease' = NoCmd
        <5>1. Drain({c}, a, lease, r, f)
          BY <2>1, <4>1
        <5> QED  BY <2>3, <3>2, <4>1, <5>1, DrainsAlone
      <4> QED  BY <2>1, <2>2, <4>2 DEF SlotIsOwned
    <3> QED  BY <3>1, <3>2
  <2>10. Drained'
    BY <2>4 DEF Drained
  <2>11. LeaseOwned'
    <3> SUFFICES ASSUME lease' # NoCmd PROVE promo'[lease'] \notin Idle
      BY DEF LeaseOwned
    <3>1. lease' = lease /\ lease \in Promoted /\ promo[lease] \notin Idle
      BY <2>3, <2>4 DEF LeaseOwned
    <3>2. r = {c} /\ ~Working /\ lease = c => FALSE
      <4> SUFFICES ASSUME r = {c}, ~Working, lease = c PROVE FALSE
        OBVIOUS
      <4>1. c \in q
        BY DEF q
      <4> QED  BY <2>1, <3>1, <4>1 DEF Drain, Runnable
    <3> QED  BY <3>1, <3>2
  <2> QED  BY <2>5, <2>6, <2>7, <2>8, <2>9, <2>10, <2>11
<1>4. CASE phase # "off"
  <2>1. r = reservation
    BY <1>4 DEF Working
  <2>2. /\ queue' = q /\ ahead' = a /\ fate' = f
        /\ UNCHANGED <<reservation, stale, batch, phase, stopped, lease, activeTurn, absorbing>>
    BY <1>4, <2>1 DEF Submit
  <2>3. Typed'
    BY <1>2, <2>2 DEF Typed
  <2>4. FateTells'
    BY <1>1, <1>2, <2>2 DEF FateTells
  <2>5. LeaseHeld'
    BY <2>2 DEF LeaseHeld, Outside, Holding, InHandler
  <2>6. AbsorbsUnbarred'
    <3>1. c \notin absorbing
      BY <1>1 DEF AbsorbsUnbarred
    <3> QED  BY <2>2, <3>1 DEF AbsorbsUnbarred, Typed
  <2>7. SlotIsOwned' /\ Drained'
    BY <1>4, <2>2 DEF SlotIsOwned, Drained
  <2>8. LeaseOwned'
    BY <1>4, <2>2 DEF LeaseOwned, Working, Typed
  <2> QED  BY <2>3, <2>4, <2>5, <2>6, <2>7, <2>8
<1> QED  BY <1>3, <1>4

(* The same for a command that no handler is for.                          *)
LEMMA SubmitAlone ==
  ASSUME IInv, NEW c \in Cmd \ Promoted, NEW r, Submit(c, r), UNCHANGED handlers, StartOf(c, r)
  PROVE  IInv'
<1>1. Behind(c, r)
  BY DEF Behind, IInv, Typed, handlers
<1> QED  BY <1>1, SubmitKeeps

LEMMA ArriveKeeps == IInv /\ Arrive => IInv'
<1> SUFFICES ASSUME IInv, Arrive PROVE IInv'
  OBVIOUS
<1> USE CmdAssumption
<1>1. ASSUME NEW c \in Branched, Enqueue(c) PROVE IInv'
  <2>1. c \in Cmd /\ c \notin Promoted
    BY DEF Cmd
  <2>2. UNCHANGED handlers /\ Submit(c, reservation)
    BY <1>1 DEF Enqueue
  <2> QED  BY <2>1, <2>2, SubmitAlone DEF StartOf
<1>2. ASSUME NEW p \in Prompt, ExecuteTurn(p) PROVE IInv'
  <2>1. p \in Cmd /\ p \notin Promoted
    BY DEF Cmd
  <2>2. UNCHANGED handlers /\ Submit(p, reservation)
    BY <1>2 DEF ExecuteTurn
  <2> QED  BY <2>1, <2>2, SubmitAlone DEF StartOf
<1>3. ASSUME NEW p \in Prompt, AdmitPrompt(p) PROVE IInv'
  <2>1. p \in Cmd /\ p \notin Promoted
    BY DEF Cmd
  <2>2. UNCHANGED handlers /\ Submit(p, {p}) /\ ~Working /\ lease = NoCmd
    BY <1>3 DEF AdmitPrompt
  <2> QED  BY <2>1, <2>2, SubmitAlone DEF StartOf
<1>4. ASSUME NEW p \in Prompt, AdmitAborted(p) PROVE IInv'
  <2>1. /\ fate[p] = "new" /\ fate' = [fate EXCEPT ![p] = "ended"]
        /\ UNCHANGED <<fifo, turnVars, absorbing, lease, promo, returning>>
    BY <1>4 DEF AdmitAborted, handlers
  <2> QED
    BY <2>1 DEF IInv, Typed, FateTells, LeaseHeld, AbsorbsUnbarred, SlotIsOwned,
                Drained, LeaseOwned, fifo, turnVars, Fate
<1>5. ASSUME NEW p \in Promoted, AcquireAfterCurrent(p) \/ AcquireIdleOnly(p) PROVE IInv'
  <2>1. /\ promo[p] = "new" /\ lease = NoCmd /\ lease' = p
        /\ promo' \in {[promo EXCEPT ![p] = "preempt"], [promo EXCEPT ![p] = "ready"]}
        /\ UNCHANGED <<fifo, turnVars, absorbing, fate, returning>>
    BY <1>5 DEF AcquireAfterCurrent, AcquireIdleOnly, Go
  <2>2. ASSUME NEW r \in Promoted PROVE r # p => promo'[r] = promo[r]
    BY <2>1 DEF IInv, Typed
  <2>3. promo'[p] \in {"preempt", "ready"} /\ p \notin returning
    BY <2>1 DEF IInv, Typed, LeaseHeld
  <2>4. \A r \in Promoted : promo[r] \notin Holding
    BY <2>1, CmdAssumption DEF IInv, LeaseHeld, Cmd
  <2>5. LeaseHeld'
    <3> SUFFICES ASSUME NEW r \in Promoted
                 PROVE  /\ promo'[r] \in Outside => r \notin queue'
                        /\ promo'[r] \in Holding \ {"preempt", "wait", "ready"} => r \in Goal
                        /\ promo'[r] \in Holding => lease' = r
                        /\ r \in returning' => promo'[r] \notin Holding \cup {"new"}
      BY DEF LeaseHeld
    <3> QED
      BY <2>1, <2>2, <2>3, <2>4 DEF IInv, LeaseHeld, Outside, Holding, InHandler, fifo
  <2>6. Typed'
    BY <2>1 DEF IInv, Typed, Outside, Handled, Holding, InHandler, fifo, turnVars
  <2>7. LeaseOwned'
    BY <2>1, <2>3 DEF LeaseOwned, Idle
  <2> QED
    BY <2>1, <2>5, <2>6, <2>7 DEF IInv, FateTells, AbsorbsUnbarred, SlotIsOwned,
                Drained, fifo, turnVars
<1> QED  BY <1>1, <1>2, <1>3, <1>4, <1>5 DEF Arrive

(* One command leaves the queue without being run by the loop.             *)
LEMMA LeaveKeeps ==
  ASSUME IInv, NEW c \in queue, Leave({c}, queue, ahead),
         fate' = [fate EXCEPT ![c] = "ended"],
         absorbing' \subseteq absorbing \ {c},
         UNCHANGED <<batch, lease, handlers>>
  PROVE  /\ queue' \subseteq Cmd /\ queue' \subseteq queue
         /\ ahead' \in [Cmd -> SUBSET Cmd] /\ stale' \subseteq Branched
         /\ fate' \in [Cmd -> Fate]
         /\ \A d \in queue' : fate'[d] = "queued"
         /\ \A d \in batch' \cap Cmd : fate'[d] = "running"
         /\ \A d \in Cmd : ahead'[d] # {} => d \in queue'
         /\ LeaseHeld' /\ LeaseOwned' /\ returning' \subseteq Goal
         /\ promo' \in [Promoted -> Handled]
         /\ absorbing' \subseteq queue'
         /\ \A d \in absorbing' : d \in Note \cup Message /\ ahead'[d] \cap Control = {}
<1> USE DEF IInv
<1>1. /\ queue' = queue \ {c} /\ stale' = stale \ {c}
      /\ ahead' = [d \in Cmd |-> IF d \in {c} THEN {} ELSE ahead[d] \ {c}]
  BY DEF Leave
<1>2. c \in Cmd /\ fate[c] = "queued"
  BY DEF Typed, FateTells
<1>3. ahead' \in [Cmd -> SUBSET Cmd] /\ fate' \in [Cmd -> Fate]
  BY <1>1 DEF Typed, Fate
<1>4. \A d \in Cmd : ahead'[d] # {} => d \in queue'
  BY <1>1 DEF Typed, FateTells
<1>5. LeaseHeld' /\ LeaseOwned'
  BY <1>1 DEF LeaseHeld, LeaseOwned, handlers
<1>6. absorbing' \subseteq queue'
  BY <1>1 DEF AbsorbsUnbarred
<1>7. \A d \in absorbing' : d \in Note \cup Message /\ ahead'[d] \cap Control = {}
  BY <1>1 DEF AbsorbsUnbarred, Cmd, Branched
<1>8. /\ \A d \in queue' : fate'[d] = "queued"
      /\ \A d \in batch' \cap Cmd : fate'[d] = "running"
  BY <1>1, <1>2 DEF Typed, FateTells
<1> QED  BY <1>1, <1>3, <1>4, <1>5, <1>6, <1>7, <1>8 DEF Typed, handlers

LEMMA InterfereKeeps == IInv /\ Interfere => IInv'
<1> SUFFICES ASSUME IInv, Interfere PROVE IInv'
  OBVIOUS
<1> USE DEF IInv
<1>1. CASE Stop
  BY <1>1 DEF Stop, Typed, FateTells, LeaseHeld, AbsorbsUnbarred, SlotIsOwned,
              Drained, LeaseOwned, fifo, handlers
<1>2. CASE Rewind
  <2>1. Typed'
    BY <1>2 DEF Rewind, Typed, turnVars, handlers
  <2> QED
    BY <1>2, <2>1 DEF Rewind, FateTells, LeaseHeld, AbsorbsUnbarred, SlotIsOwned,
                Drained, LeaseOwned, turnVars, handlers
<1>3. ASSUME NEW p \in Prompt \cup Compact \cup Goal, CancelQueued(p) PROVE IInv'
  <2>1. /\ p \in queue /\ Leave({p}, queue, ahead)
        /\ reservation' = IF reservation = {p} THEN {} ELSE reservation
        /\ fate' = [fate EXCEPT ![p] = "ended"]
        /\ UNCHANGED <<batch, phase, stopped, activeTurn, absorbing, lease, handlers>>
    BY <1>3 DEF CancelQueued
  <2>2. p \notin Note \cup Message /\ p \in Cmd
    BY CmdAssumption DEF Branched, Cmd
  <2>3. absorbing' \subseteq absorbing \ {p}
    BY <2>1, <2>2 DEF AbsorbsUnbarred
  <2>4. reservation # {p} \/ phase # "start"
    BY <2>1, <2>2 DEF SlotIsOwned, FateTells
  <2>5. SlotIsOwned'
    BY <2>1, <2>4 DEF SlotIsOwned
  <2>6. Drained'
    BY <2>1 DEF Drained, Leave
  <2> QED
    BY <2>1, <2>3, <2>5, <2>6, LeaveKeeps DEF Typed, FateTells, AbsorbsUnbarred
<1> QED  BY <1>1, <1>2, <1>3 DEF Interfere

(* The same at the start of a round, from the invariant.                   *)
LEMMA RoundKeeps ==
  ASSUME IInv, batch = {}, NEW l \in {lease, NoCmd}, Drain(queue, ahead, l, reservation, fate)
  PROVE  /\ queue' \subseteq queue /\ ahead' \in [Cmd -> SUBSET Cmd]
         /\ stale' \subseteq Branched /\ fate' \in [Cmd -> Fate]
         /\ phase' \in Phase \ {"turn"}
         /\ \A d \in queue' : fate'[d] = "queued"
         /\ \A d \in batch' \cap Cmd : fate'[d] = "running"
         /\ \A d \in Cmd : ahead'[d] # {} => d \in queue'
         /\ phase' \notin Foreground => batch' = {}
         /\ lease' \in {l, NoCmd} /\ (l \notin queue => lease' = l)
         /\ queue' # {} => phase' # "off" \/ lease' # NoCmd
         /\ reservation' = IF phase' = "start" THEN batch' ELSE reservation
         /\ l # NoCmd => batch' \in {{}, {l}}
<1>1. /\ queue \in SUBSET Cmd /\ ahead \in [Cmd -> SUBSET Cmd] /\ fate \in [Cmd -> Fate]
      /\ stale \subseteq Branched /\ l \in Promoted \cup {NoCmd}
      /\ \A d \in queue : fate[d] = "queued"
      /\ \A d \in Cmd : ahead[d] # {} => d \in queue
  BY DEF IInv, Typed, FateTells
<1> DEFINE q == queue  a == ahead  r == reservation  f == fate
<1>2. /\ q \in SUBSET Cmd /\ a \in [Cmd -> SUBSET Cmd] /\ f \in [Cmd -> Fate]
      /\ \A d \in q : f[d] = "queued"
      /\ \A d \in Cmd : a[d] # {} => d \in q
      /\ Drain(q, a, l, r, f)
  BY <1>1
<1>3. q = queue /\ r = reservation
  OBVIOUS
<1> HIDE DEF q, a, r, f
<1>4. /\ queue' \subseteq q /\ ahead' \in [Cmd -> SUBSET Cmd]
      /\ stale' \subseteq Branched /\ fate' \in [Cmd -> Fate]
      /\ phase' \in Phase \ {"turn"}
      /\ \A d \in queue' : fate'[d] = "queued"
      /\ \A d \in batch' \cap Cmd : fate'[d] = "running"
      /\ \A d \in Cmd : ahead'[d] # {} => d \in queue'
      /\ phase' \notin Foreground => batch' = {}
      /\ lease' \in {l, NoCmd} /\ (l \notin q => lease' = l)
      /\ queue' # {} => phase' # "off" \/ lease' # NoCmd
      /\ reservation' = IF phase' = "start" THEN batch' ELSE r
      /\ l # NoCmd => batch' \in {{}, {l}}
  BY <1>1, <1>2, DrainKeeps, Zenon
<1> QED  BY <1>3, <1>4

LEMMA RunKeeps == IInv /\ Run => IInv'
<1> SUFFICES ASSUME IInv, Run PROVE IInv'
  OBVIOUS
<1> USE DEF IInv
<1>1. CASE Persisted
  BY <1>1 DEF Persisted, Typed, FateTells, LeaseHeld, AbsorbsUnbarred, SlotIsOwned,
              Drained, LeaseOwned, fifo, handlers, Phase, Foreground
<1>2. CASE BeginTurn
  BY <1>2 DEF BeginTurn, Typed, FateTells, LeaseHeld, AbsorbsUnbarred, SlotIsOwned,
              Drained, LeaseOwned, fifo, handlers, Phase, Foreground
<1>3. CASE EndTurn
  BY <1>3 DEF EndTurn, Typed, FateTells, LeaseHeld, AbsorbsUnbarred, SlotIsOwned,
              Drained, LeaseOwned, fifo, handlers, Phase, Foreground
<1>4. CASE Finish
  <2>1. /\ phase \in {"persist", "record", "over"}
        /\ phase' = "top" /\ batch' = {}
        /\ fate' = [c \in Cmd |-> IF c \in batch THEN "ended" ELSE fate[c]]
        /\ UNCHANGED <<fifo, reservation, activeTurn, absorbing, lease, handlers>>
    BY <1>4 DEF Finish
  <2>2. fate' \in [Cmd -> Fate]
    BY <2>1 DEF Typed, Fate
  <2>3. \A c \in queue' : fate'[c] = "queued"
    BY <2>1 DEF Typed, FateTells, fifo
  <2> QED
    BY <2>1, <2>2, <2>3 DEF Typed, FateTells, LeaseHeld, AbsorbsUnbarred, SlotIsOwned,
                            Drained, LeaseOwned, fifo, handlers, Phase, Foreground
<1>5. CASE Continue
  <2>1. /\ phase = "top" /\ Drain(queue, ahead, lease, reservation, fate)
        /\ UNCHANGED <<activeTurn, absorbing, promo, returning>>
    BY <1>5 DEF Continue, handlers
  <2>2. /\ batch = {} /\ absorbing = {} /\ reservation = {} /\ activeTurn = {}
    BY <2>1 DEF FateTells, AbsorbsUnbarred, SlotIsOwned, Foreground
  <2>3. /\ queue \in SUBSET Cmd /\ ahead \in [Cmd -> SUBSET Cmd] /\ fate \in [Cmd -> Fate]
        /\ stale \subseteq Branched /\ lease \in Promoted \cup {NoCmd}
        /\ \A d \in queue : fate[d] = "queued"
        /\ \A d \in Cmd : ahead[d] # {} => d \in queue
    BY DEF Typed, FateTells
  <2>4. /\ queue' \subseteq queue /\ ahead' \in [Cmd -> SUBSET Cmd]
        /\ stale' \subseteq Branched /\ fate' \in [Cmd -> Fate]
        /\ phase' \in Phase \ {"turn"}
        /\ \A d \in queue' : fate'[d] = "queued"
        /\ \A d \in batch' \cap Cmd : fate'[d] = "running"
        /\ \A d \in Cmd : ahead'[d] # {} => d \in queue'
        /\ phase' \notin Foreground => batch' = {}
        /\ lease' \in {lease, NoCmd} /\ (lease \notin queue => lease' = lease)
        /\ queue' # {} => phase' # "off" \/ lease' # NoCmd
        /\ reservation' = IF phase' = "start" THEN batch' ELSE reservation
        /\ lease # NoCmd => batch' \in {{}, {lease}}
    BY <2>1, <2>2, RoundKeeps, Zenon
  <2>5. Typed' /\ FateTells'
    BY <2>1, <2>3, <2>4 DEF Typed, FateTells
  <2>6. LeaseHeld'
    BY <2>1, <2>4 DEF LeaseHeld, Outside, Holding
  <2>7. LeaseOwned'
    BY <2>1, <2>4 DEF LeaseOwned
  <2> QED
    BY <2>1, <2>2, <2>4, <2>5, <2>6, <2>7 DEF AbsorbsUnbarred, SlotIsOwned, Drained
<1>6. CASE AbsorbOne \/ AbsorbFails
  <2>1. PICK c \in absorbing :
          /\ Leave({c}, queue, ahead)
          /\ fate' = [fate EXCEPT ![c] = "ended"]
          /\ absorbing' \subseteq absorbing \ {c}
          /\ UNCHANGED <<batch, reservation, lease, handlers>>
          /\ \/ phase' = phase /\ activeTurn' = activeTurn
             \/ phase' = "over" /\ activeTurn' = {} /\ absorbing' = {}
    BY <1>6 DEF AbsorbOne, AbsorbFails, turnVars
  <2>2. c \in queue /\ phase = "turn"
    BY DEF AbsorbsUnbarred
  <2>3. SlotIsOwned' /\ Drained'
    BY <2>1, <2>2 DEF SlotIsOwned, Drained
  <2> QED
    BY <2>1, <2>2, <2>3, LeaveKeeps
       DEF Typed, FateTells, AbsorbsUnbarred, Phase, Foreground
<1> QED  BY <1>1, <1>2, <1>3, <1>4, <1>5, <1>6 DEF Run

LEMMA AbsorbBeginKeeps == IInv /\ AbsorbBegin => IInv'
<1> SUFFICES ASSUME IInv, AbsorbBegin PROVE IInv'
  OBVIOUS
<1> USE DEF IInv
<1>1. /\ phase = "turn" /\ absorbing' = Absorbable
      /\ UNCHANGED <<fifo, turnVars, lease, promo, returning, fate>>
  BY DEF AbsorbBegin, handlers
<1>2. AbsorbsUnbarred'
  BY <1>1 DEF AbsorbsUnbarred, Absorbable, fifo, turnVars
<1> QED
  BY <1>1, <1>2 DEF Typed, FateTells, LeaseHeld, SlotIsOwned, Drained, LeaseOwned,
                    fifo, turnVars

(* A handler or background moves on without touching the queue or lease.   *)
LEMMA GoKeeps ==
  ASSUME IInv, NEW p \in Promoted, NEW s \in Handled \ Idle,
         promo' = [promo EXCEPT ![p] = s], promo[p] # "new",
         s \in Outside => promo[p] \in Holding,
         s \in Holding \ {"preempt", "wait", "ready"} => p \in Goal,
         returning' \subseteq Goal, returning' \subseteq returning \cup {p},
         p \in returning' => s \notin Holding,
         UNCHANGED <<fifo, batch, phase, reservation, activeTurn, absorbing, lease, fate>>
  PROVE  IInv'
<1> USE DEF IInv
<1>1. promo' \in [Promoted -> Handled]
  BY DEF Typed
<1>2. \A r \in Promoted : r # p => promo'[r] = promo[r]
  BY DEF Typed
<1>3. promo'[p] = s
  BY DEF Typed
<1>4. LeaseHeld'
  <2> SUFFICES ASSUME NEW r \in Promoted
               PROVE  /\ promo'[r] \in Outside => r \notin queue'
                      /\ promo'[r] \in Holding \ {"preempt", "wait", "ready"} => r \in Goal
                      /\ promo'[r] \in Holding => lease' = r
                      /\ r \in returning' => promo'[r] \notin Holding \cup {"new"}
    BY DEF LeaseHeld
  <2>1. CASE r # p
    BY <1>2, <2>1 DEF LeaseHeld, fifo
  <2>2. CASE r = p
    BY <1>3, <2>2 DEF LeaseHeld, Outside, Idle, fifo
  <2> QED  BY <2>1, <2>2
<1>5. LeaseOwned'
  BY <1>2, <1>3 DEF LeaseOwned, Typed
<1> QED
  BY <1>1, <1>4, <1>5 DEF Typed, FateTells, AbsorbsUnbarred, SlotIsOwned, Drained, fifo

(* The lease is given back, by whoever had it.                             *)
LEMMA GiveBackKeeps ==
  ASSUME IInv, NEW p \in Promoted, GiveBack(p),
         promo' \in [Promoted -> Handled], returning' \subseteq returning,
         promo[p] \notin Holding,
         \A r \in Promoted : promo'[r] = promo[r] \/ (r = p /\ promo'[r] = "done")
  PROVE  IInv'
<1> USE DEF IInv
<1>1. \A r \in Promoted : promo'[r] \in Outside => promo'[r] = promo[r]
  BY DEF Outside, Holding, InHandler
<1>2. ASSUME queue' \subseteq queue, lease' = IF lease = p THEN NoCmd ELSE lease
      PROVE  LeaseHeld' /\ LeaseOwned'
  <2>1. LeaseHeld'
    <3> SUFFICES ASSUME NEW r \in Promoted
                 PROVE  /\ promo'[r] \in Outside => r \notin queue'
                        /\ promo'[r] \in Holding \ {"preempt", "wait", "ready"} => r \in Goal
                        /\ promo'[r] \in Holding => lease' = r
                        /\ r \in returning' => promo'[r] \notin Holding \cup {"new"}
      BY DEF LeaseHeld
    <3> QED  BY <1>1, <1>2 DEF LeaseHeld, Outside
  <2>2. LeaseOwned'
    BY <1>2 DEF LeaseOwned, Typed
  <2> QED  BY <2>1, <2>2
<1>3. CASE lease = p /\ phase = "off"
  <2>1. /\ Drain(queue, ahead, NoCmd, reservation, fate)
        /\ UNCHANGED <<activeTurn, absorbing>>
    BY <1>3 DEF GiveBack
  <2>2. /\ batch = {} /\ absorbing = {} /\ reservation = {} /\ activeTurn = {}
    BY <1>3 DEF FateTells, AbsorbsUnbarred, SlotIsOwned, Foreground
  <2>3. /\ queue' \subseteq queue /\ ahead' \in [Cmd -> SUBSET Cmd]
        /\ stale' \subseteq Branched /\ fate' \in [Cmd -> Fate]
        /\ phase' \in Phase \ {"turn"}
        /\ \A d \in queue' : fate'[d] = "queued"
        /\ \A d \in batch' \cap Cmd : fate'[d] = "running"
        /\ \A d \in Cmd : ahead'[d] # {} => d \in queue'
        /\ phase' \notin Foreground => batch' = {}
        /\ lease' \in {NoCmd, NoCmd} /\ (NoCmd \notin queue => lease' = NoCmd)
        /\ queue' # {} => phase' # "off" \/ lease' # NoCmd
        /\ reservation' = IF phase' = "start" THEN batch' ELSE reservation
        /\ NoCmd # NoCmd => batch' \in {{}, {NoCmd}}
    BY <2>1, <2>2, RoundKeeps
  <2>4. Typed' /\ FateTells'
    BY <2>3 DEF Typed, FateTells
  <2>5. LeaseHeld' /\ LeaseOwned'
    BY <1>2, <1>3, <2>3
  <2> QED
    BY <2>1, <2>2, <2>3, <2>4, <2>5 DEF AbsorbsUnbarred, SlotIsOwned, Drained
<1>4. CASE ~(lease = p /\ phase = "off")
  <2>1. /\ lease' = IF lease = p THEN NoCmd ELSE lease
        /\ UNCHANGED <<queue, ahead, stale, batch, phase, stopped, reservation, fate,
                       activeTurn, absorbing>>
    BY <1>4 DEF GiveBack, fifo
  <2>2. LeaseHeld' /\ LeaseOwned' /\ Drained'
    BY <1>2, <1>4, <2>1 DEF Drained
  <2> QED
    BY <2>1, <2>2 DEF Typed, FateTells, AbsorbsUnbarred, SlotIsOwned
<1> QED  BY <1>3, <1>4

LEMMA PromoteKeeps == ASSUME IInv, NEW p \in Promoted, Promote(p) PROVE IInv'
<1> USE DEF IInv
<1>1. CASE \/ Preempt(p) \/ SeenIdle(p) \/ Rejected(p) \/ ApplyGoal(p)
           \/ GoalStays(p) \/ GoalLoses(p) \/ BackgroundEnds(p) \/ GiveUp(p)
  <2>1. /\ promo[p] \in Holding \cup {"submitted", "background"}
        /\ \E s \in Handled \ Idle :
             /\ promo' = [promo EXCEPT ![p] = s]
             /\ s \in Outside => s \in Holding /\ promo[p] \in Holding
             /\ s \in Holding \ {"preempt", "wait", "ready"} => p \in Goal
        /\ returning' = returning
        /\ UNCHANGED <<fifo, batch, phase, reservation, activeTurn, absorbing, lease, fate>>
    BY <1>1 DEF Preempt, SeenIdle, Rejected, ApplyGoal, GoalStays, GoalLoses, BackgroundEnds,
                GiveUp, Go, Outside, Handled, Idle, Holding, InHandler, turnVars
  <2>2. PICK s \in Handled \ Idle :
          /\ promo' = [promo EXCEPT ![p] = s]
          /\ s \in Outside => s \in Holding /\ promo[p] \in Holding
          /\ s \in Holding \ {"preempt", "wait", "ready"} => p \in Goal
    BY <2>1
  <2>3. p \in returning' => s \notin Holding
    <3>1. p \in returning' => promo[p] \notin Holding
      BY <2>1 DEF LeaseHeld
    <3> QED  BY <2>2, <3>1 DEF Outside
  <2>4. promo[p] # "new" /\ returning' \subseteq Goal /\ returning' \subseteq returning \cup {p}
    BY <2>1 DEF Typed, Holding, InHandler
  <2> QED  BY <2>1, <2>2, <2>3, <2>4, GoKeeps
<1>2. CASE GoalContinues(p)
  <2>1. /\ promo[p] \in Holding /\ promo[p] # "new"
        /\ promo' = [promo EXCEPT ![p] = "background"]
        /\ returning' \subseteq returning \cup {p}
        /\ UNCHANGED <<fifo, batch, phase, reservation, activeTurn, absorbing, lease, fate>>
    BY <1>2 DEF GoalContinues, Holding, InHandler, turnVars
  <2>2. p \in Goal
    BY <1>2 DEF GoalContinues, LeaseHeld, Holding, InHandler
  <2>3. "background" \in Handled \ Idle /\ "background" \notin Holding
    BY DEF Outside, Handled, Idle, Holding, InHandler
  <2>4. returning' \subseteq Goal
    BY <2>1, <2>2 DEF Typed
  <2> QED  BY <2>1, <2>3, <2>4, GoKeeps
<1>3. CASE AdmitPromoted(p)
  <2>1. /\ Submit(p, {p}) /\ ~Working /\ p \notin Goal
        /\ promo[p] = "ready" /\ promo' = [promo EXCEPT ![p] = "done"] /\ returning' = returning
    BY <1>3 DEF AdmitPromoted, Go
  <2>2. lease = p /\ p \in Cmd
    BY <2>1 DEF LeaseHeld, Holding, InHandler, Cmd
  <2>3. Behind(p, {p})
    BY <2>1 DEF Behind, Typed, Handled, Outside, Holding, InHandler
  <2>4. StartOf(p, {p})
    BY <2>1, <2>2 DEF StartOf
  <2> QED  BY <2>1, <2>2, <2>3, <2>4, SubmitKeeps
<1>4. CASE SubmitBehind(p)
  <2>1. /\ Submit(p, reservation)
        /\ promo' = [promo EXCEPT ![p] = "submitted"] /\ returning' = returning
    BY <1>4 DEF SubmitBehind, Go
  <2>2. p \in Cmd
    BY DEF Cmd
  <2>3. Behind(p, reservation)
    BY <2>1 DEF Behind, Typed, Handled, Outside, Holding, InHandler, Idle
  <2>4. StartOf(p, reservation)
    BY DEF StartOf
  <2> QED  BY <2>1, <2>2, <2>3, <2>4, SubmitKeeps
<1>5. CASE Release(p)
  <2>1. /\ promo[p] = "releasing" /\ GiveBack(p)
        /\ promo' = [promo EXCEPT ![p] = "done"] /\ returning' = returning
    BY <1>5 DEF Release, Go
  <2>2. /\ promo' \in [Promoted -> Handled] /\ promo[p] \notin Holding
        /\ \A r \in Promoted : promo'[r] = promo[r] \/ (r = p /\ promo'[r] = "done")
    BY <2>1 DEF Typed, Handled, Holding, InHandler
  <2> QED  BY <2>1, <2>2, GiveBackKeeps
<1>6. CASE HandlerReturns(p)
  <2>1. /\ p \in returning /\ GiveBack(p)
        /\ promo' = promo /\ returning' = returning \ {p}
    BY <1>6 DEF HandlerReturns
  <2>2. promo[p] \notin Holding
    BY <2>1 DEF LeaseHeld
  <2>3. promo' \in [Promoted -> Handled] /\ \A r \in Promoted : promo'[r] = promo[r]
    BY <2>1 DEF Typed
  <2> QED  BY <2>1, <2>2, <2>3, GiveBackKeeps
<1> QED  BY <1>1, <1>2, <1>3, <1>4, <1>5, <1>6 DEF Promote

LEMMA NextIInv == IInv /\ [Next]_vars => IInv'
<1> SUFFICES ASSUME IInv, [Next]_vars PROVE IInv'
  OBVIOUS
<1>1. CASE UNCHANGED vars
  BY <1>1 DEF IInv, Typed, FateTells, LeaseHeld, AbsorbsUnbarred, SlotIsOwned,
              Drained, LeaseOwned, vars, fifo, turnVars, handlers
<1> QED
  BY <1>1, ArriveKeeps, InterfereKeeps, RunKeeps, AbsorbBeginKeeps, PromoteKeeps DEF Next

(* The strengthened invariant, of every step of every action.              *)
THEOREM InvariantHolds == Spec => []IInv
BY InitIInv, NextIInv, PTL DEF Spec

(* A turn is reserved or running only for the foreground execution that    *)
(* owns it; whatever fails or is cancelled, none is left behind            *)
(* (reserveTurnStart, beginActiveTurn, releaseTurnStart, finishActiveTurn). *)
THEOREM SlotsAreOwned == Spec => []SlotIsOwned
BY InvariantHolds, PTL DEF IInv

(* Nothing waits in a queue that nobody will empty (enqueueRuntimeCommand, *)
(* drainRuntimeCommandQueue, releaseForegroundPromotionLease).             *)
THEOREM PendingIsDrained == Spec => []PendingHasDrainer
<1>1. IInv => PendingHasDrainer
  BY DEF IInv, Drained, LeaseOwned, LeaseLost, PendingHasDrainer, Idle
<1> QED  BY <1>1, InvariantHolds, PTL

-----------------------------------------------------------------------------
(* What a step may do under a lease, and during a turn.                    *)

LEMMA SubmitsUnderLease ==
  ASSUME IInv, NEW c \in Cmd, NEW r, Submit(c, r)
  PROVE  lease # NoCmd => batch' = batch \/ batch' \in {{}, {lease}}
<1> DEFINE q == queue \cup {c}
           a == [ahead EXCEPT ![c] = queue]
           f == [fate EXCEPT ![c] = "queued"]
<1>1. CASE phase # "off"
  BY <1>1 DEF Submit
<1>2. CASE phase = "off"
  <2>1. Drain(q, a, lease, r, f)
    BY <1>2 DEF Submit
  <2>2. /\ q \in SUBSET Cmd /\ a \in [Cmd -> SUBSET Cmd] /\ f \in [Cmd -> Fate]
        /\ \A d \in q : f[d] = "queued"
        /\ \A d \in Cmd : a[d] # {} => d \in q
    BY DEF IInv, Typed, Fate, FateTells
  <2>3. batch = {} /\ stale \subseteq Branched /\ lease \in Promoted \cup {NoCmd}
    BY <1>2 DEF IInv, FateTells, Typed, Foreground
  <2> HIDE DEF q, a, f
  <2>4. /\ queue' \subseteq q /\ ahead' \in [Cmd -> SUBSET Cmd]
        /\ stale' \subseteq Branched /\ fate' \in [Cmd -> Fate]
        /\ phase' \in Phase \ {"turn"}
        /\ \A d \in queue' : fate'[d] = "queued"
        /\ \A d \in batch' \cap Cmd : fate'[d] = "running"
        /\ \A d \in Cmd : ahead'[d] # {} => d \in queue'
        /\ phase' \notin Foreground => batch' = {}
        /\ lease' \in {lease, NoCmd} /\ (lease \notin q => lease' = lease)
        /\ queue' # {} => phase' # "off" \/ lease' # NoCmd
        /\ reservation' = IF phase' = "start" THEN batch' ELSE r
        /\ lease # NoCmd => batch' \in {{}, {lease}}
    BY <2>1, <2>2, <2>3, DrainKeeps, Zenon
  <2> QED  BY <2>4
<1> QED  BY <1>1, <1>2

LEMMA StepRespectsLease ==
  ASSUME IInv, Next, lease # NoCmd, batch' # batch, batch' # {}
  PROVE  batch' = {lease} \/ promo[lease] = "releasing" \/ lease \in returning
<1> USE DEF IInv
<1>1. ASSUME NEW c \in Cmd, NEW r, Submit(c, r) PROVE batch' = {lease}
  <2>1. batch' = batch \/ batch' \in {{}, {lease}}
    BY <1>1, SubmitsUnderLease
  <2> QED  BY <2>1
<1>2. CASE Arrive
  <2>1. PICK c \in Cmd : \E r : Submit(c, r)
    BY <1>2 DEF Arrive, Enqueue, ExecuteTurn, AdmitPrompt, AdmitAborted,
                AcquireAfterCurrent, AcquireIdleOnly, turnVars, Cmd
  <2> QED  BY <1>1, <2>1
<1>3. CASE Interfere \/ AbsorbBegin
  BY <1>3 DEF Interfere, Stop, Rewind, CancelQueued, AbsorbBegin, turnVars
<1>4. CASE Run
  <2>1. CASE Continue
    <3>1. phase = "top" /\ Drain(queue, ahead, lease, reservation, fate)
      BY <2>1 DEF Continue
    <3>2. batch = {}
      BY <3>1 DEF FateTells, Foreground
    <3>3. lease # NoCmd => batch' \in {{}, {lease}}
      BY <3>1, <3>2, RoundKeeps, Zenon
    <3> QED  BY <3>3
  <2> QED
    BY <1>4, <2>1 DEF Run, Persisted, BeginTurn, EndTurn, Finish, AbsorbOne, AbsorbFails,
                      turnVars
<1>5. ASSUME NEW p \in Promoted, Promote(p) PROVE batch' = {lease} \/ promo[lease] = "releasing" \/ lease \in returning
  <2>1. CASE \E r : Submit(p, r)
    BY <1>1, <2>1 DEF Cmd
  <2> QED
    BY <1>5, <2>1 DEF Promote, Preempt, SeenIdle, AdmitPromoted, Rejected, ApplyGoal, GoalContinues,
                      GoalStays, GoalLoses, SubmitBehind, BackgroundEnds, GiveUp, Release,
                      HandlerReturns, GiveBack, turnVars
<1> QED  BY <1>2, <1>3, <1>4, <1>5 DEF Next

(* While a promotion holds the lease nothing but its own command becomes   *)
(* the foreground (dequeueNextRunnableBatch), for any number of promotions *)
(* and whatever arrives, is cancelled or is stopped meanwhile.             *)
THEOREM LeaseRespected == Spec => LeaseIsRespected
<1>1. IInv /\ [Next]_vars
        => [lease # NoCmd /\ batch' # batch /\ batch' # {}
              => batch' = {lease} \/ promo[lease] = "releasing" \/ lease \in returning]_vars
  BY StepRespectsLease
<1> QED  BY <1>1, InvariantHolds, PTL DEF Spec, LeaseIsRespected

LEMMA StepHoldsBack ==
  ASSUME IInv, Next, phase = "turn", NEW d \in Note \cup Message, NEW c \in Control,
         c \in ahead[d]
  PROVE  d \in queue'
<1> USE DEF IInv
<1>1. d \in queue /\ d \notin absorbing
  BY DEF Cmd, Branched, FateTells, AbsorbsUnbarred
<1>2. d \notin Prompt \cup Promoted
  BY CmdAssumption DEF Branched
<1>3. ASSUME NEW x, NEW r, Submit(x, r) PROVE d \in queue'
  BY <1>1, <1>3 DEF Submit
<1>4. CASE Arrive
  BY <1>1, <1>3, <1>4 DEF Arrive, Enqueue, ExecuteTurn, AdmitPrompt, AdmitAborted,
              AcquireAfterCurrent, AcquireIdleOnly, fifo
<1>5. CASE Interfere \/ AbsorbBegin
  BY <1>1, <1>2, <1>5, CmdAssumption
     DEF Interfere, Stop, Rewind, CancelQueued, Leave, AbsorbBegin, fifo
<1>6. CASE Run
  BY <1>1, <1>6 DEF Run, Persisted, BeginTurn, EndTurn, Finish, Continue, AbsorbOne,
                    AbsorbFails, Leave, fifo
<1>7. ASSUME NEW p \in Promoted, Promote(p) PROVE d \in queue'
  BY <1>1, <1>3, <1>7 DEF Promote, Preempt, SeenIdle, AdmitPromoted, Rejected,
              ApplyGoal, GoalContinues, GoalStays, GoalLoses, SubmitBehind, BackgroundEnds,
              GiveUp, Release, HandlerReturns, GiveBack, fifo
<1> QED  BY <1>4, <1>5, <1>6, <1>7 DEF Next

(* During a turn no notice or message leaves the queue that is behind a    *)
(* waiting control turn (drainPendingRuntimeCommandsForActiveLoop), though *)
(* what is absorbed was chosen some steps before.                          *)
THEOREM ControlHoldsBack == Spec => ControlBarsAbsorption
<1>1. IInv /\ [Next]_vars
        => [phase = "turn" =>
              \A d \in Note \cup Message, c \in Control :
                c \in ahead[d] => d \in queue']_vars
  BY StepHoldsBack
<1> QED  BY <1>1, InvariantHolds, PTL DEF Spec, ControlBarsAbsorption
=============================================================================
