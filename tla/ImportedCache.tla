--------------------------- MODULE ImportedCache ---------------------------
(***************************************************************************)
(* What an amended run takes over from its predecessor, and the decisions  *)
(* about it (imported-cache.ts).                                           *)
(*                                                                         *)
(* Per actor the predecessor leaves the answers to its first asks and,     *)
(* behind them, perhaps one ask it was still at.  The table of this is     *)
(* built anew in each life of the run (dynamic-workflow-import.ts) and     *)
(* need not be the same: Entries is all that the predecessor ever answers, *)
(* and a candidate what one life's table has of it.  An answer once given  *)
(* is not changed.  Per content of a world call the predecessor leaves the *)
(* results in the order of their calls.                                    *)
(***************************************************************************)
EXTENDS Integers, Sequences

CONSTANTS
  Actor,
  Hash,      \* the instructions, by their hash
  NoHash,
  Entries,   \* per actor, the answered asks: [hash, pure]
  InFlight,  \* per actor, the ask behind them, or NoHash
  Key,       \* the contents of world calls
  Effects,   \* those that are a world.run
  Recorded   \* per content, how many results there are

Entry == [hash: Hash, pure: BOOLEAN]

ASSUME ImportAssumption ==
  /\ NoHash \notin Hash
  /\ Entries \in [Actor -> Seq(Entry)]
  /\ InFlight \in [Actor -> Hash \cup {NoHash}]
  /\ Effects \subseteq Key
  /\ Recorded \in [Key -> Nat]

(* Of an actor a table has the first answers, and the ask that was under   *)
(* way behind them if there was one whose session had come to rest.        *)
Candidate == [answers: Nat, carry: BOOLEAN]

NextHash(a, n) == IF n < Len(Entries[a]) THEN Entries[a][n + 1].hash ELSE InFlight[a]

(* How far an actor has used its candidate; asks are counted from 0.       *)
Import == [consumed: Nat, diverged: BOOLEAN, carried: BOOLEAN]

NothingUsed == [consumed |-> 0, diverged |-> FALSE, carried |-> FALSE]

Matches(a, c, seq, h) == seq < c.answers /\ Entries[a][seq + 1].hash = h

(* take, and takeIfPure once the cache is closed: an answer for which the  *)
(* world was looked at is given only as long as nobody has changed it.     *)
Hit(a, c, st, seq, h, open) ==
  /\ ~st.diverged
  /\ Matches(a, c, seq, h)
  /\ open \/ Entries[a][seq + 1].pure

(* diverge: nothing more is used; the ask may go on where the predecessor  *)
(* was interrupted.                                                        *)
Diverge(a, c, st, seq, h, open) ==
  [consumed |-> st.consumed,
   diverged |-> TRUE,
   carried  |-> /\ open
                /\ c.carry
                /\ seq = c.answers
                /\ st.consumed = seq
                /\ NextHash(a, seq) = h]

Take(a, c, st, seq, h, open) ==
  IF st.diverged THEN st
  ELSE IF Hit(a, c, st, seq, h, open) THEN [st EXCEPT !.consumed = seq + 1]
  ELSE Diverge(a, c, st, seq, h, open)

(* Fault: only the hash tells what was used. *)
ReconcileByHash(a, c, st, seq, h, live, early) ==
  IF st.diverged THEN st
  ELSE IF Matches(a, c, seq, h) THEN [st EXCEPT !.consumed = seq + 1]
  ELSE Diverge(a, c, st, seq, h, early)

(* reconcileRecorded: the state is worked out again from a row of the      *)
(* journal, from whether the ask was ever executed (live) and whether that *)
(* began before the cache was closed (early).                              *)
Reconcile(a, c, st, seq, h, live, early) ==
  IF st.diverged THEN st
  ELSE IF live THEN Diverge(a, c, st, seq, h, early)
  ELSE IF ~Matches(a, c, seq, h) THEN [st EXCEPT !.diverged = TRUE]
  ELSE [st EXCEPT !.consumed = IF seq + 1 > @ THEN seq + 1 ELSE @]

CarriedAt(c, st, seq) == st.carried /\ seq = c.answers

(* seed: how many exchanges of the predecessor the session begins with;    *)
(* the interrupted one counts as one.                                      *)
Seed(c, st) == IF st.carried THEN c.answers + 1 ELSE st.consumed
=============================================================================
