----------------------------- MODULE AmendedRun -----------------------------
(***************************************************************************)
(* A run that amends an earlier one, over all its lives: the engine that   *)
(* answers asks and world calls out of the predecessor's journal as long   *)
(* as that is right (scheduler.ts, engine-world.ts), and the driver that   *)
(* executes the others in sessions that go on from the predecessor's       *)
(* transcripts (workflow-driver.ts and its helpers).                       *)
(*                                                                         *)
(* The journal, the sessions' transcripts and the workspace outlive the    *)
(* process.  In a new life the script makes the recorded calls first, each *)
(* actor's in their order; WorkflowReplay.tla is about why.  The cap on    *)
(* asks, retries and submissions that are refused are in AskScheduler.tla; *)
(* a row and its event are written in one step.                            *)
(*                                                                         *)
(* The table of the predecessor's answers is built in every life, and each *)
(* may have another one: of a session that had not come to rest when the   *)
(* run was amended the interrupted ask is left out, then but not later     *)
(* (quietSessions); an actor whose transcript cannot be read is left out;  *)
(* a predecessor that was stopped may have been resumed meanwhile and have *)
(* answered more; and the table may fail to be built at all.               *)
(***************************************************************************)
EXTENDS ImportedCache

CONSTANTS
  Typed,     \* the instructions that ask for a submitted result
  MaxAsks,   \* bound on the asks of an actor
  MaxCalls,  \* bound on the world calls of one content
  MaxTurns,  \* bound on the turns of a session that are not yet over
  MaxLives   \* bound on the lives of the run

ASSUME RunAssumption ==
  /\ Typed \subseteq Hash
  /\ {MaxAsks, MaxCalls, MaxTurns, MaxLives} \subseteq Nat

VARIABLES
  asks,      \* the journal: the rows of each actor's asks
  calls,     \* the rows of the world calls of each content
  closed,    \* there is an import-cache-closed event
  store,     \* per actor, its session's transcript: exchanges of the
             \* predecessor, and whether it has any of its own
  life,
  answered,  \* the predecessor's journal: per actor, the answers,
  results,   \* and per content the results
  table,     \* the engine: there is a table,
  offer,     \* per actor, what is in it: none, answers, or carry, if the
             \* interrupted ask is, too
  importClosed, \* the flag,
  admitted,  \* per actor, nextAdmitSeq
  imported,  \* how far its candidate is used
  prior,     \* priorTranscriptAsks
  met,       \* per content, calls made in this life
  cursor,    \* and results used
  current,   \* per actor, the ask that was dispatched, or 0
  noted,     \* its lastStats: none, pure, or world
  session,   \* the driver: per actor none, creating, or ready
  seed,      \* the exchanges its session begins with
  subject,   \* its currentInstance, or 0
  turns,     \* the turns its runtime has to do, by ask
  looked,    \* worldToolCalls > 0
  writing,   \* a tool that changes the workspace has started
  counting,  \* asks whose turn is over and whose messages are counted
  changed,   \* history: the workspace was changed in a life with a table,
  based,     \* the actors whose session got the first messages of its own in
             \* a life with a candidate for them,
  saw        \* per actor, the asks for which the world was looked at

journal == <<asks, calls, closed>>
disk    == <<journal, store, life, answered, results>>
engine  == <<table, offer, importClosed, admitted, imported, prior, met, cursor>>
ask     == <<current, noted>>
driver  == <<session, seed, subject, turns, looked, writing, counting>>
history == <<changed, based, saw>>
vars    == <<disk, engine, ask, driver, history>>

Row == [hash: Hash, status: {"running", "completed", "failed"},
        live: BOOLEAN, early: BOOLEAN, pure: BOOLEAN, boundary: BOOLEAN]

(* What a table may have of an actor.                                      *)
Offers == {"none", "answers", "carry"}

JournalType ==
  /\ asks \in [Actor -> Seq(Row)]
  /\ \A a \in Actor : Len(asks[a]) <= MaxAsks
  /\ calls \in [Key -> Seq([done: BOOLEAN, record: Nat])]
  /\ closed \in BOOLEAN
  /\ store \in [Actor -> [seeded: Nat, own: BOOLEAN]]
  /\ life \in Nat
  /\ answered \in [Actor -> Nat]
  /\ \A a \in Actor : answered[a] <= Len(Entries[a])
  /\ results \in [Key -> Nat]

EngineType ==
  /\ {table, importClosed} \subseteq BOOLEAN
  /\ offer \in [Actor -> Offers]
  /\ admitted \in [Actor -> Nat]
  /\ \A a \in Actor : admitted[a] <= Len(asks[a])
  /\ imported \in [Actor -> Import]
  /\ prior \in [Actor -> SUBSET (1..MaxAsks)]
  /\ met \in [Key -> Nat] /\ cursor \in [Key -> Nat]
  /\ \A k \in Key : met[k] <= Len(calls[k])
  /\ current \in [Actor -> Nat]
  /\ \A a \in Actor : current[a] <= admitted[a]
  /\ noted \in [Actor -> {"none", "pure", "world"}]

DriverType ==
  /\ session \in [Actor -> {"none", "creating", "ready"}]
  /\ seed \in [Actor -> Nat]
  /\ subject \in [Actor -> Nat]
  /\ turns \in [Actor -> Seq(1..MaxAsks)]
  /\ \A a \in Actor :
       /\ subject[a] <= admitted[a]
       /\ \A j \in 1..Len(turns[a]) : turns[a][j] <= admitted[a]
       /\ \A i \in counting[a] : i <= admitted[a]
  /\ looked \in [Actor -> BOOLEAN] /\ writing \in [Actor -> BOOLEAN]
  /\ counting \in [Actor -> SUBSET (1..MaxAsks)]

HistoryType ==
  /\ changed \in BOOLEAN
  /\ based \subseteq Actor
  /\ saw \in [Actor -> SUBSET (1..MaxAsks)]

TypeOK == JournalType /\ EngineType /\ DriverType /\ HistoryType

(* What the predecessor's journal may have come to.                        *)
MoreAnswers(old) ==
  {f \in [Actor -> UNION {0..Len(Entries[a]) : a \in Actor}] :
     \A a \in Actor : old[a] <= f[a] /\ f[a] <= Len(Entries[a])}

MoreResults(old) ==
  {f \in [Key -> UNION {0..Recorded[k] : k \in Key}] :
     \A k \in Key : old[k] <= f[k] /\ f[k] <= Recorded[k]}

Init ==
  /\ asks = [a \in Actor |-> <<>>]
  /\ calls = [k \in Key |-> <<>>]
  /\ closed = FALSE
  /\ store = [a \in Actor |-> [seeded |-> 0, own |-> FALSE]]
  /\ life = 1
  /\ answered \in MoreAnswers([a \in Actor |-> 0])
  /\ results \in MoreResults([k \in Key |-> 0])
  /\ table = TRUE
  /\ offer \in [Actor -> Offers]
  /\ importClosed = FALSE
  /\ admitted = [a \in Actor |-> 0]
  /\ imported = [a \in Actor |-> NothingUsed]
  /\ prior = [a \in Actor |-> {}]
  /\ met = [k \in Key |-> 0]
  /\ cursor = [k \in Key |-> 0]
  /\ current = [a \in Actor |-> 0]
  /\ noted = [a \in Actor |-> "none"]
  /\ session = [a \in Actor |-> "none"]
  /\ seed = [a \in Actor |-> 0]
  /\ subject = [a \in Actor |-> 0]
  /\ turns = [a \in Actor |-> <<>>]
  /\ looked = [a \in Actor |-> FALSE]
  /\ writing = [a \in Actor |-> FALSE]
  /\ counting = [a \in Actor |-> {}]
  /\ changed = FALSE
  /\ based = {}
  /\ saw = [a \in Actor |-> {}]

-----------------------------------------------------------------------------
(* Asks.                                                                   *)

HasCandidate(a) == offer[a] # "none"

Offered(a) == [answers |-> answered[a], carry |-> offer[a] = "carry"]

CachedRow(a, seq, h) ==
  [hash |-> h, status |-> "completed", live |-> FALSE, early |-> FALSE,
   pure |-> Entries[a][seq + 1].pure, boundary |-> TRUE]

LiveRow(h) ==
  [hash |-> h, status |-> "running", live |-> TRUE, early |-> ~closed,
   pure |-> FALSE, boundary |-> FALSE]

AlsoSaw(a, i) == [saw EXCEPT ![a] = @ \cup {i}]

(* admitAsk of an ask that is not in the journal, once all that are have   *)
(* been admitted.  One that goes on from an interrupted ask of the         *)
(* predecessor has that ask's looks at the world in its transcript.        *)
AskFresh(a, h) ==
  LET seq     == admitted[a]
      hit     == HasCandidate(a) /\ Hit(a, Offered(a), imported[a], seq, h, ~importClosed)
      new     == IF HasCandidate(a) THEN Take(a, Offered(a), imported[a], seq, h, ~importClosed)
                 ELSE imported[a]
      carries == ~hit /\ CarriedAt(Offered(a), new, seq)
  IN /\ seq = Len(asks[a])
     /\ seq < MaxAsks
     /\ asks' = [asks EXCEPT ![a] = Append(@, IF hit THEN CachedRow(a, seq, h) ELSE LiveRow(h))]
     /\ admitted' = [admitted EXCEPT ![a] = seq + 1]
     /\ imported' = [imported EXCEPT ![a] = new]
     /\ prior' = IF carries THEN [prior EXCEPT ![a] = @ \cup {seq + 1}] ELSE prior
     /\ saw' \in IF carries THEN {saw, AlsoSaw(a, seq + 1)} ELSE {saw}
     /\ UNCHANGED <<calls, closed, store, life, answered, results, table, offer, importClosed, met,
                    cursor, ask, driver, changed, based>>

(* Fault: a settled answer is taken for one out of the cache. *)
LiveBeforeByStatus(row) == row.status = "running"

(* wasLiveBeforeResume: the journal has a node-queued event of the ask. *)
LiveBefore(row) == row.live

(* admitAsk of one that is: an ask that was under way is executed again    *)
(* upon what its session already holds, or, if this table has the          *)
(* predecessor's interrupted ask and an earlier one had not, will hold.    *)
AskRecorded(a) ==
  LET seq == admitted[a]
      row == asks[a][seq + 1]
      new == IF HasCandidate(a)
             THEN Reconcile(a, Offered(a), imported[a], seq, row.hash, LiveBefore(row), row.early)
             ELSE imported[a]
      again == row.status = "running"
  IN /\ seq < Len(asks[a])
     /\ admitted' = [admitted EXCEPT ![a] = seq + 1]
     /\ imported' = [imported EXCEPT ![a] = new]
     /\ prior' = IF again THEN [prior EXCEPT ![a] = @ \cup {seq + 1}] ELSE prior
     /\ saw' \in IF again /\ CarriedAt(Offered(a), new, seq) THEN {saw, AlsoSaw(a, seq + 1)}
                ELSE {saw}
     /\ UNCHANGED <<disk, table, offer, importClosed, met, cursor, ask, driver, changed, based>>

(* closeImportCache, before the first write of a life. *)
Close ==
  /\ importClosed' = TRUE
  /\ closed' = (closed \/ table)

(* The write. *)
Change == changed' = (changed \/ table)

-----------------------------------------------------------------------------
(* World calls.                                                            *)

(* putNode: a row is replaced or added. *)
Put(rows, i, row) == IF i \in DOMAIN rows THEN [rows EXCEPT ![i] = row] ELSE Append(rows, row)

(* A call that is recorded is answered out of its row; one without an      *)
(* outcome is made like a new one: out of the predecessor's results, or    *)
(* live.  A command closes the cache before it is executed.                *)
WorldCall(k) ==
  LET i    == met[k] + 1
      done == i <= Len(calls[k]) /\ calls[k][i].done
      hit  == ~done /\ table /\ ~importClosed /\ cursor[k] < results[k]
      row  == [done |-> hit, record |-> IF hit THEN cursor[k] + 1 ELSE 0]
  IN /\ i <= MaxCalls
     /\ met' = [met EXCEPT ![k] = i]
     /\ calls' = IF done THEN calls ELSE [calls EXCEPT ![k] = Put(@, i, row)]
     /\ cursor' = IF hit THEN [cursor EXCEPT ![k] = @ + 1] ELSE cursor
     /\ IF k \in Effects /\ ~done /\ ~hit
        THEN Close /\ Change
        ELSE UNCHANGED <<importClosed, closed, changed>>
     /\ UNCHANGED <<asks, store, life, answered, results, table, offer, admitted, imported, prior,
                    ask, driver, based, saw>>

(* settleWorldRead; a failure is replayed like a result. *)
WorldCallEnds(k, i) ==
  /\ i <= met[k]
  /\ ~calls[k][i].done
  /\ calls' = [calls EXCEPT ![k][i].done = TRUE]
  /\ UNCHANGED <<asks, closed, store, life, answered, results, engine, ask, driver, history>>

-----------------------------------------------------------------------------
(* Execution.                                                              *)

IsRunning(a, i) == asks[a][i].status = "running"

(* pumpActor, when the cap allows it: the first of the actor's asks that   *)
(* are admitted and not settled.  ensureSession asks for the seed then.    *)
Dispatch(a) ==
  /\ current[a] = 0
  /\ \E i \in 1..admitted[a] :
       /\ IsRunning(a, i)
       /\ \A j \in 1..(i - 1) : ~IsRunning(a, j)
       /\ current' = [current EXCEPT ![a] = i]
  /\ noted' = [noted EXCEPT ![a] = "none"]
  /\ IF session[a] = "none"
     THEN /\ session' = [session EXCEPT ![a] = "creating"]
          /\ seed' = [seed EXCEPT ![a] = Seed(Offered(a), imported[a])]
     ELSE UNCHANGED <<session, seed>>
  /\ UNCHANGED <<disk, engine, subject, turns, looked, writing, counting, history>>

(* seedActorTranscript: only a session without a history of its own. *)
SeedInto(t, n) == [t EXCEPT !.seeded = IF @ < n /\ ~t.own THEN n ELSE @]

(* createActorSession *)
SessionReady(a) ==
  /\ session[a] = "creating"
  /\ session' = [session EXCEPT ![a] = "ready"]
  /\ store' = [store EXCEPT ![a] = SeedInto(@, seed[a])]
  /\ UNCHANGED <<journal, life, answered, results, engine, ask, seed, subject, turns, looked,
                 writing, counting, history>>

(* startAsk *)
StartAsk(a) ==
  /\ session[a] = "ready"
  /\ current[a] # 0
  /\ subject[a] # current[a]
  /\ Len(turns[a]) < MaxTurns
  /\ subject' = [subject EXCEPT ![a] = current[a]]
  /\ looked' = [looked EXCEPT ![a] = FALSE]
  /\ turns' = [turns EXCEPT ![a] = Append(@, current[a])]
  /\ store' = [store EXCEPT ![a].own = TRUE]
  /\ based' = IF ~store[a].own /\ HasCandidate(a) THEN based \cup {a} ELSE based
  /\ UNCHANGED <<journal, life, answered, results, engine, ask, session, seed, writing, counting,
                 changed, saw>>

(* The ask the session's runtime works on; a turn whose result was         *)
(* accepted starts no further tools.                                       *)
Works(a, i) ==
  /\ turns[a] # <<>>
  /\ Head(turns[a]) = i
  /\ current[a] = i
  /\ subject[a] = i
  /\ ~writing[a]

(* A tool that looks at the world. *)
Look(a, i) ==
  /\ Works(a, i)
  /\ looked' = [looked EXCEPT ![a] = TRUE]
  /\ saw' = AlsoSaw(a, i)
  /\ UNCHANGED <<disk, engine, ask, session, seed, subject, turns, writing, counting, changed, based>>

(* A tool that changes the workspace is about to run: askMutating. *)
StartWrite(a, i) ==
  /\ Works(a, i)
  /\ looked' = [looked EXCEPT ![a] = TRUE]
  /\ writing' = [writing EXCEPT ![a] = TRUE]
  /\ saw' = AlsoSaw(a, i)
  /\ Close
  /\ UNCHANGED <<asks, calls, store, life, answered, results, table, offer, admitted, imported, prior,
                 met, cursor, ask, session, seed, subject, turns, counting, changed, based>>

Write(a) ==
  /\ writing[a]
  /\ writing' = [writing EXCEPT ![a] = FALSE]
  /\ Change
  /\ UNCHANGED <<disk, engine, ask, session, seed, subject, turns, looked, counting, based, saw>>

-----------------------------------------------------------------------------
(* Results.                                                                *)

(* journaledStats: the counter says nothing of what was in the transcript  *)
(* before.                                                                 *)
Journaled(a, i, stats) == stats = "pure" /\ i \notin prior[a]

(* settleOk and settleFailed, with the stats the engine has heard of. *)
Settled(a, i, outcome) ==
  /\ asks' = [asks EXCEPT ![a][i] =
                [@ EXCEPT !.status = outcome, !.pure = Journaled(a, i, noted[a])]]
  /\ current' = [current EXCEPT ![a] = 0]

(* A submitted result is accepted while the turn is still going on. *)
Submit(a, i) ==
  /\ Works(a, i)
  /\ asks[a][i].hash \in Typed
  /\ Settled(a, i, "completed")
  /\ UNCHANGED <<calls, closed, store, life, answered, results, engine, noted, driver, history>>

Counted(a) == IF looked[a] THEN "world" ELSE "pure"

(* onTurnResolved: the stats are reported, for an ask that is settled they *)
(* go to its row; then the messages are counted.                           *)
TurnResolves(a) ==
  LET i == Head(turns[a])
  IN /\ turns[a] # <<>>
     /\ ~writing[a]
     /\ turns' = [turns EXCEPT ![a] = Tail(@)]
     /\ counting' = [counting EXCEPT ![a] = @ \cup {i}]
     /\ IF IsRunning(a, i)
        THEN noted' = [noted EXCEPT ![a] = Counted(a)] /\ UNCHANGED asks
        ELSE /\ asks' = [asks EXCEPT ![a][i] = [@ EXCEPT !.pure = Journaled(a, i, Counted(a))]]
             /\ UNCHANGED noted
     /\ UNCHANGED <<calls, closed, store, life, answered, results, engine, current, session, seed,
                    subject, looked, writing, history>>

(* Fault: the boundary is written whatever the session is at. *)
BoundaryAlways(a, i) == TRUE

(* journalAskMessageBoundary *)
BoundaryFits(a, i) == subject[a] \in {0, i}

(* settleExchange: the end of the turn is reported.  An untyped ask is     *)
(* settled by it, a typed one is nudged or has failed, one that was        *)
(* settled is left alone.  If the exchange is over its boundary goes to    *)
(* the row.                                                                *)
ExchangeEnds(a, i) ==
  /\ i \in counting[a]
  /\ counting' = [counting EXCEPT ![a] = @ \ {i}]
  /\ LET row == asks[a][i]
         outcome == IF row.status # "running" THEN row.status
                    ELSE IF row.hash \in Typed THEN "failed" ELSE "completed"
     IN /\ asks' = [asks EXCEPT ![a][i] =
              [row EXCEPT !.status = outcome,
                          !.pure = IF row.status = "running"
                                   THEN Journaled(a, i, noted[a]) ELSE row.pure,
                          !.boundary = row.boundary \/ BoundaryFits(a, i)]]
        /\ current' = IF row.status = "running" THEN [current EXCEPT ![a] = 0] ELSE current
  /\ UNCHANGED <<calls, closed, store, life, answered, results, engine, noted, session, seed,
                 subject, turns, looked, writing, history>>

(* The nudge, on the same session. *)
Nudge(a, i) ==
  /\ i \in counting[a]
  /\ IsRunning(a, i)
  /\ asks[a][i].hash \in Typed
  /\ Len(turns[a]) < MaxTurns
  /\ counting' = [counting EXCEPT ![a] = @ \ {i}]
  /\ turns' = [turns EXCEPT ![a] = Append(@, i)]
  /\ UNCHANGED <<disk, engine, ask, session, seed, subject, looked, writing, history>>

(* onTurnRejected: the ask fails if it was not settled before. *)
TurnRejected(a) ==
  LET i == Head(turns[a])
  IN /\ turns[a] # <<>>
     /\ ~writing[a]
     /\ turns' = [turns EXCEPT ![a] = Tail(@)]
     /\ IF IsRunning(a, i) THEN Settled(a, i, "failed") ELSE UNCHANGED <<asks, current>>
     /\ UNCHANGED <<calls, closed, store, life, answered, results, engine, noted, session, seed,
                    subject, looked, writing, counting, history>>

-----------------------------------------------------------------------------
(* Lives.                                                                  *)

(* Fault: the cache is open in each life. *)
RecoverOpen == FALSE

(* recoverImportClosure *)
RecoverClosed == closed

(* The run is stopped or its process dies; it is resumed, with the table   *)
(* built of what the predecessor has come to (rebuildImportedCacheFor-     *)
(* Resume), or without one.                                                *)
Resume ==
  /\ life < MaxLives
  /\ life' = life + 1
  /\ answered' \in MoreAnswers(answered)
  /\ results' \in MoreResults(results)
  /\ \/ table' = TRUE /\ offer' \in [Actor -> Offers]
     \/ table' = FALSE /\ offer' = [a \in Actor |-> "none"]
  /\ importClosed' = (table' /\ RecoverClosed)
  /\ admitted' = [a \in Actor |-> 0]
  /\ imported' = [a \in Actor |-> NothingUsed]
  /\ prior' = [a \in Actor |-> {}]
  /\ met' = [k \in Key |-> 0]
  /\ cursor' = [k \in Key |-> 0]
  /\ current' = [a \in Actor |-> 0]
  /\ noted' = [a \in Actor |-> "none"]
  /\ session' = [a \in Actor |-> "none"]
  /\ seed' = [a \in Actor |-> 0]
  /\ subject' = [a \in Actor |-> 0]
  /\ turns' = [a \in Actor |-> <<>>]
  /\ looked' = [a \in Actor |-> FALSE]
  /\ writing' = [a \in Actor |-> FALSE]
  /\ counting' = [a \in Actor |-> {}]
  /\ UNCHANGED <<journal, store, history>>

Next ==
  \/ \E a \in Actor :
       \/ \E h \in Hash : AskFresh(a, h)
       \/ AskRecorded(a)
       \/ Dispatch(a) \/ SessionReady(a) \/ StartAsk(a)
       \/ Write(a) \/ TurnResolves(a) \/ TurnRejected(a)
       \/ \E i \in 1..MaxAsks :
            \/ Look(a, i) \/ StartWrite(a, i)
            \/ Submit(a, i) \/ ExchangeEnds(a, i) \/ Nudge(a, i)
  \/ \E k \in Key :
       \/ WorldCall(k)
       \/ \E i \in 1..MaxCalls : WorldCallEnds(k, i)
  \/ Resume

Spec == Init /\ [][Next]_vars
-----------------------------------------------------------------------------
(* What must hold.                                                         *)

(* An interruption leaves no trace: once all recorded asks of an actor are *)
(* admitted, what it has used of the candidate this life has for it, and   *)
(* with it every decision that follows, is what the rows say, whether they *)
(* were written in this life or are admitted again: the answers before the *)
(* first executed ask were used and no others, and that ask goes on where  *)
(* the predecessor was if it stands in its place, early enough.            *)
RecoveryExact ==
  \A a \in Actor : HasCandidate(a) /\ admitted[a] = Len(asks[a]) =>
    LET c == imported[a].consumed
    IN /\ c <= Len(asks[a])
       /\ \A i \in DOMAIN asks[a] : ~asks[a][i].live <=> i <= c
       /\ imported[a].diverged <=> c < Len(asks[a])
       /\ imported[a].carried <=>
            /\ c < Len(asks[a])
            /\ asks[a][c + 1].early
            /\ asks[a][c + 1].hash = NextHash(a, c)
            /\ offer[a] = "carry" /\ c = answered[a]

(* No answer for which the predecessor looked at the world, and no result  *)
(* of a world call, is used once something in the workspace was changed,   *)
(* in this life or an earlier one that had its table.                      *)
NothingStale ==
  [][changed =>
       /\ \A a \in Actor : \A i \in DOMAIN asks'[a] \ DOMAIN asks[a] :
            asks'[a][i].live \/ asks'[a][i].pure
       /\ \A k \in Key : \A i \in DOMAIN calls'[k] :
            calls'[k][i].record # 0 => i \in DOMAIN calls[k] /\ calls[k][i].record # 0]_vars

(* A session that began to work in a life with a candidate for its actor   *)
(* holds, in every later life and whatever their tables, exactly those     *)
(* exchanges of the predecessor that the script was answered from; and the *)
(* interrupted one only if the first ask of its own goes on from there.    *)
TranscriptFits ==
  \A a \in based : \E c \in 0..Len(asks[a]) :
    /\ \A i \in DOMAIN asks[a] : ~asks[a][i].live <=> i <= c
    /\ \/ store[a].seeded = c
       \/ /\ store[a].seeded = c + 1
          /\ c < Len(asks[a])
          /\ asks[a][c + 1].early
          /\ asks[a][c + 1].hash = NextHash(a, c)

(* What a later run may import as independent of the world really is: the  *)
(* row of an ask that has a boundary and no look at the world on record    *)
(* belongs to an ask that had none, in any of its lives.                   *)
HonestRows ==
  \A a \in Actor : \A i \in DOMAIN asks[a] :
    asks[a][i].live /\ asks[a][i].status = "completed" /\ asks[a][i].boundary /\ asks[a][i].pure
      => i \notin saw[a]
=============================================================================
