----------------------- MODULE ConcurrencyController -----------------------
(***************************************************************************)
(* The adaptive concurrency controller of one provider key                 *)
(* (engine/concurrency.ts): a pure AIMD state machine.  It is told what    *)
(* became of the model requests and answers how many may be in flight.     *)
(* A controller is a record; every signal is an operator from the record   *)
(* before to the record after.  ConcurrencyGovernor.tla feeds it.          *)
(*                                                                         *)
(* Time is relative, which keeps the state finite without losing a         *)
(* comparison the code makes: quiet is now - lastRequestAt, counted up to  *)
(* the idle threshold, cool is cooldownUntil - now, counted down to 0.     *)
(* An epoch is only ever compared with the current one, so the controller  *)
(* says that it turned the page (paged) and the governor remembers which   *)
(* requests belong to the current page.                                    *)
(***************************************************************************)
EXTENDS Integers

CONSTANTS
  Ceiling,       \* the bound derived from the CPUs; cap starts here
  SUCCESSES,     \* CONCURRENCY_INCREASE_AFTER_SUCCESSES
  IDLE,          \* CONCURRENCY_IDLE_RESET_MS, in ticks
  MaxRetryAfter  \* the longest Retry-After a provider sends, in ticks

ASSUME ControllerAssumption ==
  /\ Ceiling \in Nat \ {0}
  /\ SUCCESSES \in Nat \ {0}
  /\ IDLE \in Nat \ {0}
  /\ MaxRetryAfter \in Nat

None == -1       \* an optional time that is not set

FLOOR == 1

Controller ==
  [cap: FLOOR..Ceiling, inFlight: Nat, waiters: Nat, streak: 0..SUCCESSES,
   quiet: {None} \cup 0..IDLE, cool: {None} \cup 0..MaxRetryAfter,
   lastGood: 0..Ceiling,    \* 0 when not set
   lastBad: BOOLEAN,        \* whether it is set; its value is only reported
   paged: BOOLEAN]

New == [cap |-> Ceiling, inFlight |-> 0, waiters |-> 0, streak |-> 0,
        quiet |-> None, cool |-> None, lastGood |-> 0, lastBad |-> FALSE,
        paged |-> FALSE]

Pristine(c) ==
  c.cap = Ceiling /\ c.streak = 0 /\ c.cool = None /\ c.lastGood = 0 /\ ~c.lastBad

Idle(c) == c.quiet = IDLE /\ c.inFlight = 0

(* Every signal first looks whether the key has been idle for so long that *)
(* what was learnt about it is to be forgotten.                            *)
IdleReset(c) ==
  IF Idle(c) /\ ~Pristine(c)
  THEN [c EXCEPT !.cap = Ceiling, !.streak = 0, !.cool = None, !.lastGood = 0,
                 !.lastBad = FALSE, !.paged = TRUE]
  ELSE c

CanAdmit(c) == c.inFlight < c.cap /\ c.cool \in {None, 0}

Observe(c) == IdleReset(c)

Admitted(c) == [c EXCEPT !.quiet = 0, !.inFlight = @ + 1]

(* What all the ends of a request have in common. *)
Released(c) == [IdleReset(c) EXCEPT !.inFlight = IF @ > 0 THEN @ - 1 ELSE 0]

(* A success of the current epoch counts; a full streak proves the cap     *)
(* good, and raises it if somebody waits.  The streak goes on counting     *)
(* beyond SUCCESSES in the code, which makes no difference.                *)
Succeeded(c, isCurrent) ==
  LET d       == Released(c)
      counted == isCurrent /\ ~d.paged
      full    == counted /\ d.streak + 1 >= SUCCESSES
      climb   == full /\ d.waiters > 0 /\ d.cap < Ceiling
  IN [d EXCEPT !.streak   = IF climb THEN 0
                            ELSE IF full THEN SUCCESSES
                            ELSE IF counted THEN @ + 1 ELSE @,
               !.lastGood = IF full /\ d.cap > @ THEN d.cap ELSE @,
               !.cap      = IF climb THEN @ + 1 ELSE @]

Reduced(cap) == IF (3 * cap) \div 4 < FLOOR THEN FLOOR ELSE (3 * cap) \div 4

(* Fault: falling back to lastGood does not turn the page. *)
ThrottledSamePage(c, isCurrent, retryAfter) ==
  LET d       == Released(c)
      verdict == isCurrent /\ ~d.paged
      probing == d.lastGood # 0 /\ d.cap > d.lastGood
  IN [d EXCEPT !.streak   = 0,
               !.cool     = IF retryAfter > 0 /\ retryAfter > @ THEN retryAfter ELSE @,
               !.cap      = IF ~verdict THEN @
                            ELSE IF probing THEN d.lastGood ELSE Reduced(@),
               !.lastGood = IF verdict /\ ~probing THEN 0 ELSE @,
               !.lastBad  = @ \/ verdict,
               !.paged    = @ \/ (verdict /\ ~probing)]

(* Fault: lastGood survives the cut that disproved it. *)
ThrottledKeepsGood(c, isCurrent, retryAfter) ==
  LET d       == Released(c)
      verdict == isCurrent /\ ~d.paged
  IN [d EXCEPT !.streak   = 0,
               !.cool     = IF retryAfter > 0 /\ retryAfter > @ THEN retryAfter ELSE @,
               !.cap      = IF verdict THEN Reduced(@) ELSE @,
               !.lastBad  = @ \/ verdict,
               !.paged    = @ \/ verdict]

(* A throttled request pushes the cooldown out.  Only one of the current   *)
(* epoch judges the cap: a probe above lastGood falls back to it, else the *)
(* cap is cut by a quarter and lastGood, now disproved, is dropped.        *)
(* Either way the page is turned.                                          *)
Throttled(c, isCurrent, retryAfter) ==
  LET d       == Released(c)
      verdict == isCurrent /\ ~d.paged
      probing == d.lastGood # 0 /\ d.cap > d.lastGood
  IN [d EXCEPT !.streak   = 0,
               !.cool     = IF retryAfter > 0 /\ retryAfter > @ THEN retryAfter ELSE @,
               !.cap      = IF ~verdict THEN @
                            ELSE IF probing THEN d.lastGood ELSE Reduced(@),
               !.lastGood = IF verdict /\ ~probing THEN 0 ELSE @,
               !.lastBad  = @ \/ verdict,
               !.paged    = @ \/ verdict]

FailedTransient(c) == [Released(c) EXCEPT !.streak = 0]

Ended(c) == Released(c)

Waiters(c, count) == [IdleReset(c) EXCEPT !.waiters = count]

(* One tick of the clock. *)
Elapsed(c) ==
  [c EXCEPT !.quiet = IF @ \in 0..(IDLE - 1) THEN @ + 1 ELSE @,
            !.cool  = IF @ > 0 THEN @ - 1 ELSE @]
=============================================================================
