--------------------------- MODULE WorkflowReplay ---------------------------
(***************************************************************************)
(* The lives of a workflow run: the journal, the resume that replays it,   *)
(* and the gate that gives recorded answers in their recorded order        *)
(* (scheduler.ts admitAsk and its hits, scheduler-types.ts                 *)
(* drainActorAdmission, replay-order.ts, engine.ts).                       *)
(*                                                                         *)
(* The script consists of branches that run side by side; each makes its   *)
(* calls one after the other.  A call is identified in the journal by its  *)
(* site and by how manyeth call of that site it is, so what a branch finds *)
(* there depends on the order in which the calls of all branches arrive.   *)
(* Script and engine talk over a pipe in each direction: the calls that    *)
(* follow two answers arrive in the order the answers were given.          *)
(*                                                                         *)
(* Only the rows and the settlement events of the journal outlive the      *)
(* process.  The concurrency cap is left out (AskScheduler.tla has it),    *)
(* and a failed ask is an answer like any other.                           *)
(***************************************************************************)
EXTENDS OnceSequences

CONSTANTS
  Branches,        \* the branches, in the order the script starts them
  Plan,            \* per branch, the calls it makes: [site, actor]
  MaxLives,        \* bound on the number of lives of the run
  \* What the program may do at any time, to be left out one by one:
  LiveAfterReplay, \* no ask is settled live before the replay is over
  StopIsLast,      \* a run that was stopped and resumed is left alone then
  Torn             \* a crash may fall between the row and its event

Branch   == Elems(Branches)
Call     == UNION {{<<b, i>> : i \in DOMAIN Plan[b]} : b \in Branch}
Target(c) == Plan[c[1]][c[2]]
Site     == {Target(c).site : c \in Call}
Actor    == {Target(c).actor : c \in Call}
Instance == UNION {{s} \X (1..Cardinality({c \in Call : Target(c).site = s})) : s \in Site}

(* The script starts each branch once, and a branch makes a call. *)
ASSUME ScriptAssumption ==
  /\ Branches \in Seq(Branch) /\ Once(Branches)
  /\ \A b \in Branch : Plan[b] \in Seq(Elems(Plan[b])) /\ Plan[b] # <<>>

ASSUME ReplayAssumption ==
  /\ MaxLives \in Nat \ {0}
  /\ {LiveAfterReplay, StopIsLast, Torn} \subseteq BOOLEAN

VARIABLES
  rows,      \* the journal: row of each instance, or NoRow
  log,       \* the instances in the order of their first settlement event
  life,      \* how many times the run was started
  stopped,   \* it was stopped, not crashed, at some time
  course,    \* kept, or left: the order of the answers is not the journal's
  told,      \* what the script has heard of each call over all lives, or 0
  status,    \* running, completed, or errored
  pos,       \* per branch, calls made in this life
  answered,  \* per branch, answers received in this life
  pipe,      \* the branches whose next call is under way, in order
  ordinal,   \* per site, calls that arrived in this life
  admitSeq,  \* per actor, nextAdmitSeq
  recorded,  \* per actor, recordedCount
  held,      \* pendingRecorded of all actors
  fresh,     \* per actor, pendingLive: <<instance, call>> in order of arrival
  live,      \* the live nodes in the order of their admission
  order,     \* the gate: the recorded order of settlements,
  cursor,    \* how far it has been released,
  parked,    \* the releases that wait for their turn,
  due        \* and those that had it, to be delivered by a microtask

journal  == <<rows, log>>
history  == <<life, stopped, course, told>>
script   == <<pos, answered, pipe>>
admission == <<ordinal, admitSeq, recorded, held, fresh, live>>
gate     == <<order, cursor, parked, due>>
vars     == <<journal, history, status, script, admission, gate>>

NoRow == [call |-> <<>>, seq |-> 0, status |-> "none", result |-> 0]

ActorOf(n) == Target(rows[n].call).actor

TypeOK ==
  /\ rows \in [Instance -> [call: Call \cup {<<>>}, seq: Nat, result: 0..MaxLives,
                            status: {"none", "running", "completed"}]]
  /\ log \in Seq(Instance)
  /\ life \in 1..MaxLives
  /\ stopped \in BOOLEAN
  /\ course \in {"kept", "left"}
  /\ told \in [Call -> 0..MaxLives]
  /\ status \in {"running", "completed", "errored"}
  /\ pos \in [Branch -> Nat] /\ answered \in [Branch -> Nat]
  /\ \A b \in Branch : answered[b] <= pos[b] /\ pos[b] <= Len(Plan[b])
  /\ pipe \in Seq(Branch)
  /\ ordinal \in [Site -> Nat]
  /\ admitSeq \in [Actor -> Nat]
  /\ recorded \in [Actor -> Nat]
  /\ held \subseteq Instance
  /\ fresh \in [Actor -> Seq(Instance \X Call)]
  /\ live \in Seq(Instance)
  /\ order \in Seq(Instance)
  /\ cursor \in 0..Len(order)
  /\ parked \subseteq Instance
  /\ due \in Seq(Instance)

-----------------------------------------------------------------------------
(* A life begins.                                                          *)

(* Fault: rows that are still running get a place in the order as well. *)
RecoverSettleOrderOfAll(rs, l) == Those(l, {n \in Instance : rs[n].status # "none"})

(* Fault: recorded answers are given as soon as they are asked for. *)
RecoverNoOrder(rs, l) == <<>>

(* recoverSettleOrder: the first settlement event of each instance, of     *)
(* those that will come to claim theirs.                                   *)
RecoverSettleOrder(rs, l) == Those(l, {n \in Instance : rs[n].status = "completed"})

(* registerActor counts the rows of the actor. *)
RecordedCount(rs, a) ==
  Cardinality({n \in Instance : rs[n].status # "none" /\ Target(rs[n].call).actor = a})

Begin(rs, l) ==
  /\ status' = "running"
  /\ pos' = [b \in Branch |-> 0]
  /\ answered' = [b \in Branch |-> 0]
  /\ pipe' = Branches
  /\ ordinal' = [s \in Site |-> 0]
  /\ admitSeq' = [a \in Actor |-> 0]
  /\ recorded' = [a \in Actor |-> RecordedCount(rs, a)]
  /\ held' = {}
  /\ fresh' = [a \in Actor |-> <<>>]
  /\ live' = <<>>
  /\ order' = RecoverSettleOrder(rs, l)
  /\ cursor' = 0
  /\ parked' = {}
  /\ due' = <<>>

Init ==
  /\ rows = [n \in Instance |-> NoRow]
  /\ log = <<>>
  /\ life = 1
  /\ stopped = FALSE
  /\ course = "kept"
  /\ told = [c \in Call |-> 0]
  /\ status = "running"
  /\ pos = [b \in Branch |-> 0]
  /\ answered = [b \in Branch |-> 0]
  /\ pipe = Branches
  /\ ordinal = [s \in Site |-> 0]
  /\ admitSeq = [a \in Actor |-> 0]
  /\ recorded = [a \in Actor |-> 0]
  /\ held = {}
  /\ fresh = [a \in Actor |-> <<>>]
  /\ live = <<>>
  /\ order = <<>>
  /\ cursor = 0
  /\ parked = {}
  /\ due = <<>>

-----------------------------------------------------------------------------
(* Answers.                                                                *)

(* The settlement events that are new to the journal. *)
Record(ns) == log' = log \o Those(ns, Instance \ Elems(log))

(* The promises of ns are answered in this order out of the rows rs, and   *)
(* each branch goes on to its next call, behind those under way in p.      *)
Answer(ns, rs, p) ==
  LET branches == [i \in DOMAIN ns |-> rs[ns[i]].call[1]]
      calls    == [i \in DOMAIN ns |-> rs[ns[i]].call]
  IN /\ answered' = [b \in Branch |->
                       answered[b] + Cardinality({i \in DOMAIN ns : branches[i] = b})]
     /\ told' = [c \in Call |-> IF c \in Elems(calls)
                                THEN rs[CHOOSE n \in Elems(ns) : rs[n].call = c].result
                                ELSE told[c]]
     /\ pipe' = p \o Those(branches, {b \in Branch : answered[b] + 1 < Len(Plan[b])})

(* hold: an answer that has a place in the order waits for it, any other   *)
(* is given at once.                                                       *)
HasPlace(n) == \E i \in (cursor + 1)..Len(order) : order[i] = n

(* How far pump gets: over those places whose answer has arrived. *)
Reach(P) ==
  CHOOSE k \in cursor..Len(order) :
    /\ \A i \in (cursor + 1)..k : order[i] \in P
    /\ k < Len(order) => order[k + 1] \notin P

Pump(P) ==
  /\ cursor' = Reach(P)
  /\ parked' = P \ {order[i] : i \in (cursor + 1)..Reach(P)}
  /\ due' = due \o SubSeq(order, cursor + 1, Reach(P))
  /\ UNCHANGED order

(* Fault: the answers that were delivered stay in the queue. *)
FlushAgain ==
  /\ status = "running"
  /\ due # <<>>
  /\ Record(due)
  /\ Answer(due, rows, pipe)
  /\ UNCHANGED <<rows, life, stopped, course, status, pos, admission, gate>>

(* flush: the microtask delivers what is due. *)
Flush ==
  /\ status = "running"
  /\ due # <<>>
  /\ Record(due)
  /\ Answer(due, rows, pipe)
  /\ due' = <<>>
  /\ UNCHANGED <<rows, life, stopped, course, status, pos, admission, order, cursor, parked>>

-----------------------------------------------------------------------------
(* Calls.                                                                  *)

(* Fresh asks wait until all recorded ones of the actor are admitted. *)
FreshAdmissible(a, next) == next >= recorded[a]

(* The recorded asks of the actor that have arrived and follow each other  *)
(* from nextAdmitSeq on, up to the first that is missing.                  *)
Numbered(a, H, s) == {n \in H : ActorOf(n) = a /\ rows[n].seq = s}

FirstMissing(a, H) ==
  CHOOSE u \in admitSeq[a]..(admitSeq[a] + recorded[a]) :
    /\ Numbered(a, H, u) = {}
    /\ \A s \in admitSeq[a]..(u - 1) : Numbered(a, H, s) # {}

InTurn(a, H) ==
  [k \in 1..(FirstMissing(a, H) - admitSeq[a]) |->
     CHOOSE n \in Numbered(a, H, admitSeq[a] + k - 1) : TRUE]

RunsAgain == {n \in Instance : rows[n].status = "running"}

(* drainAdmission with H and F the recorded and the fresh asks that wait:  *)
(* a recorded one runs again if it was running and is answered out of its  *)
(* row if it was settled; a fresh one gets a row.                          *)
DrainAdmission(a, H, F, p) ==
  LET released == InTurn(a, H)
      cached   == {n \in Elems(released) : rows[n].status = "completed"}
      atOnce   == Those(released, {n \in cached : ~HasPlace(n)})
      next     == admitSeq[a] + Len(released)
      new      == IF FreshAdmissible(a, next) THEN F ELSE <<>>
  IN /\ admitSeq' = [admitSeq EXCEPT ![a] = next + Len(new)]
     /\ held' = H \ Elems(released)
     /\ fresh' = [fresh EXCEPT ![a] = IF new = <<>> THEN F ELSE <<>>]
     /\ live' = live \o Those(released, RunsAgain) \o [i \in DOMAIN new |-> new[i][1]]
     /\ rows' = [n \in Instance |->
                   IF \E i \in DOMAIN new : new[i][1] = n
                   THEN LET i == CHOOSE i \in DOMAIN new : new[i][1] = n
                        IN [call |-> new[i][2], seq |-> next + i - 1,
                            status |-> "running", result |-> 0]
                   ELSE rows[n]]
     /\ Record(atOnce)
     /\ Answer(atOnce, rows, p)
     /\ Pump(parked \cup (cached \ Elems(atOnce)))

(* The next call arrives and takes its site's next ordinal. *)
Arriving ==
  LET b == Head(pipe)
      c == <<b, pos[b] + 1>>
      s == Target(c).site
  IN [call |-> c, instance |-> <<s, ordinal[s] + 1>>]

Arrive ==
  /\ status = "running"
  /\ pipe # <<>>
  /\ ordinal' = [ordinal EXCEPT ![Arriving.instance[1]] = @ + 1]
  /\ pos' = [pos EXCEPT ![Head(pipe)] = @ + 1]

(* The journal has another call in its place: InputHashMismatch. *)
Mismatch ==
  /\ status' = "errored"
  /\ pipe' = Tail(pipe)
  /\ UNCHANGED <<journal, history, answered, admitSeq, recorded, held, fresh, live, gate>>

(* The journal has a row for the call. *)
AskRecorded ==
  /\ Arrive
  /\ rows[Arriving.instance] # NoRow
  /\ IF rows[Arriving.instance].call # Arriving.call THEN Mismatch
     ELSE LET a == Target(Arriving.call).actor
          IN /\ DrainAdmission(a, held \cup {Arriving.instance}, fresh[a], Tail(pipe))
             /\ UNCHANGED <<life, stopped, course, status, recorded>>

(* The journal does not have it. *)
AskFresh ==
  /\ Arrive
  /\ rows[Arriving.instance] = NoRow
  /\ LET a == Target(Arriving.call).actor
     IN DrainAdmission(a, held, Append(fresh[a], <<Arriving.instance, Arriving.call>>),
                       Tail(pipe))
  /\ UNCHANGED <<life, stopped, course, status, recorded>>

-----------------------------------------------------------------------------
(* Live asks.                                                              *)

(* Fault: an actor works on all its asks at once. *)
CurrentAny(n) == n \in Elems(live)

(* An actor works on the first of its live asks. *)
Current(n) ==
  \E i \in DOMAIN live :
    /\ live[i] = n
    /\ \A j \in 1..(i - 1) : ActorOf(live[j]) # ActorOf(n)

Replaying == cursor < Len(order) \/ due # <<>>

(* The journal keeps the order in which the script is answered, but for    *)
(* three ways to part with it: a live answer overtakes recorded ones; the  *)
(* ask has an event already, of a stop that cancelled it, and that one     *)
(* counts; or the process dies between the row and its event.              *)
Departs(n) == Replaying \/ n \in Elems(log)

LeavesIf(departure) == course' = IF departure THEN "left" ELSE course

MaySettle(n) == Current(n) /\ (LiveAfterReplay => ~Replaying)

Completed(n) == [rows EXCEPT ![n].status = "completed", ![n].result = life]

(* Fault: the script is answered and the row is left as it was. *)
SettleOkUnwritten(n) ==
  /\ status = "running"
  /\ MaySettle(n)
  /\ live' = Without(live, n)
  /\ Record(<<n>>)
  /\ Answer(<<n>>, Completed(n), pipe)
  /\ LeavesIf(Departs(n))
  /\ UNCHANGED <<rows, life, stopped, status, pos, ordinal, admitSeq, recorded, held, fresh,
                 gate>>

(* settleOk: the row, the event, the answer. *)
SettleOk(n) ==
  /\ status = "running"
  /\ MaySettle(n)
  /\ live' = Without(live, n)
  /\ rows' = Completed(n)
  /\ Record(<<n>>)
  /\ Answer(<<n>>, rows', pipe)
  /\ LeavesIf(Departs(n))
  /\ UNCHANGED <<life, stopped, status, pos, ordinal, admitSeq, recorded, held, fresh, gate>>

(* All branches have returned. *)
Complete ==
  /\ status = "running"
  /\ \A b \in Branch : answered[b] = Len(Plan[b])
  /\ status' = "completed"
  /\ UNCHANGED <<journal, history, script, admission, gate>>

-----------------------------------------------------------------------------
(* The end of a life, and the next one.                                    *)

Interruptible == status = "running" /\ life < MaxLives /\ (StopIsLast => ~stopped)

(* The process dies, perhaps while it settles an ask: its row is written   *)
(* and its event is not.                                                   *)
Crash(S) ==
  /\ Interruptible
  /\ rows' = [n \in Instance |-> IF n \in S THEN Completed(n)[n] ELSE rows[n]]
  /\ Begin(rows', log)
  /\ life' = life + 1
  /\ LeavesIf(S # {})
  /\ UNCHANGED <<log, stopped, told>>

Tearable == {n \in Elems(live) : Torn /\ MaySettle(n)}

(* stop: the asks in flight are logged as cancelled; their rows stay. *)
Stop ==
  /\ Interruptible
  /\ Record(live)
  /\ Begin(rows, log')
  /\ life' = life + 1
  /\ stopped' = TRUE
  /\ UNCHANGED <<rows, course, told>>

Proceed ==
  \/ AskRecorded \/ AskFresh \/ Flush \/ Complete
  \/ \E n \in Instance : SettleOk(n)

Next ==
  \/ Proceed
  \/ \E S \in {{}} \cup {{n} : n \in Tearable} : Crash(S)
  \/ Stop

(* Some step of Proceed is possible.                                       *)
CanProceed ==
  /\ status = "running"
  /\ \/ pipe # <<>> \/ due # <<>> \/ \E n \in Instance : MaySettle(n)
     \/ \A b \in Branch : answered[b] = Len(Plan[b])

(* Calls that are under way arrive, microtasks run, turns end.  Nothing    *)
(* obliges a run to be interrupted.  This is weak fairness of Proceed      *)
(* written out: its steps are those that change a variable within a life.  *)
Fairness == []<>(~CanProceed) \/ []<><<life' = life>>_vars

Spec == Init /\ [][Next]_vars

FairSpec == Spec /\ Fairness
-----------------------------------------------------------------------------
(* What must hold.                                                         *)

(* A replay meets the calls it has recorded: a deterministic script is     *)
(* never accused of having changed.                                        *)
ReplayFaithful == status # "errored"

(* The accusation has no other cause than one of the three departures:     *)
(* whatever crashes, stops and resumes there were, a journal that kept the *)
(* order of the answers brings every call back to its place.               *)
FaithfulWhileKept == course = "kept" => ReplayFaithful

(* As long as the journal kept their order, the script hears over all its  *)
(* lives one answer to each call, and the answers of a branch in the order *)
(* of its calls.                                                           *)
OneStory ==
  [][course = "kept" => \A c \in Call : told'[c] # told[c] =>
       /\ told[c] = 0
       /\ \A d \in Call : d[1] = c[1] /\ d[2] < c[2] => told[d] # 0]_vars

(* The asks of an actor are numbered without gaps in the journal, and      *)
(* those that are settled come before those that are not: its transcript   *)
(* is a prefix of its asks, in every life.                                 *)
TranscriptIsPrefix ==
  \A a \in Actor :
    LET mine == {n \in Instance : rows[n] # NoRow /\ ActorOf(n) = a}
    IN /\ {rows[n].seq : n \in mine} = 0..(Cardinality(mine) - 1)
       /\ \A m, n \in mine : rows[m].status = "running" /\ rows[n].status = "completed"
                             => rows[m].seq > rows[n].seq

(* However often it is interrupted, a run comes to its end: the gate never *)
(* waits for an answer nobody claims.                                      *)
Terminates == <>(status # "running")
=============================================================================
