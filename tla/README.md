# Verification of WeCode's agent runtime

WeCode (the `zcode` agent) is a coding agent: a CLI and desktop application that runs an agent loop over a model
provider. Most of the repository is user interface, tool implementations and I/O. The part whose correctness is a
matter of *ordering* is the **dynamic workflow**: a script, written by a model, that starts many subagents, runs for
hours, is retuned while it runs, and survives a crash of the process by replaying its journal. Around it stand two more
state machines of that kind: the **turn queue** of an agent session, through which prompts, notices and promotions reach
the one turn that may run, and the **persistent protocol** that carries the RPC channels over sockets that break. This
directory models these parts in TLA+, checks the models with TLC and proves their central properties with TLAPS.

## 1. Inventory

### The workflow, from the script down to the network

```
 script (child process)          facade calls over NDJSON, answers in the order of the pipe
    | createActor, ask, ...      ^ promises
 WorkflowEngine                  engine.ts, engine-settlement.ts     run life cycle, replay gate
    AskScheduler                 scheduler*.ts                       actors, admission, dispatch, settlement
    | startAsk, cancelAsk        ^ submitAttempted, turnEnded, askFailed
 WorkflowDriver                  workflow-driver*.ts                 one agent session per actor
    seat gate                    workflow-seat-gate.ts               this run's cap, at the next model request
    | acquire                    ^ ticket
 ConcurrencyGovernor             workflow-concurrency-governor.ts    all runs of the process, per provider key
    ConcurrencyController        concurrency.ts                      AIMD cap
    |
 model request                   request-admission.ts, adapters
```

| component | state | operations | what is hard | what makes it correct |
|---|---|---|---|---|
| run life cycle (`engine.ts`, `engine-settlement.ts`) | settled flag, caps, ordinals per call site | complete, stop, fail, retune, resume | three ways to settle race with reports of the driver and with each other | the first settlement wins; nothing follows it; every open promise is answered |
| ask scheduler (`scheduler*.ts`) | per actor: admission sequence, queue, current ask, session; `activeAsks`; live asks | ask, submit, turn end, failure | a place or a wakeup that is lost shows up only as a run that stands still | the counter is exact, the cap is respected, nobody waits for a free place, actors are serial |
| replay gate (`replay-order.ts`) | recorded order, cursor, parked releases | hold, open | the order of the answers decides which call site ordinals the next calls get | a resumed run makes the same calls and gets the same answers |
| driver (`workflow-driver*.ts`) | sessions, turns, submit verdicts, escalations | startAsk, respondToSubmit, cancelAsk | a turn that ends after its ask; retries; late usage | one turn per ask, late reports are dropped |
| seat gate (`workflow-seat-gate.ts`) | limit, who works, who is parked | askStarted, askSettled, acquire, setLimit | three actors call it in any order; no book of its own | nobody parked while there is room, nobody counted twice |
| governor (`workflow-concurrency-governor.ts`) | tickets, queues per run, rotation, timer | tryAdmit, admit, settle, abort | cancellation, timers and settlements each drain the queues | every waiter is woken; the rotation is fair; counts are exact |
| controller (`concurrency.ts`) | cap, epoch, streak, cooldown, lastGood | succeeded, throttled, ... | outcomes of requests sent under an older cap | one cut per batch; the cap stays in bounds |
| imported cache (`imported-cache.ts`, `engine-world.ts`) | per actor how far the predecessor's answers are used, whether the cache is closed | take, reconcile, seed, close | an answer is stale once the workspace was written to; the state is worked out again in every life | only answers that would be the same are taken over, and a session goes on from exactly those |
| journal (`dwf-journal.ts`) | rows and events | putNode, appendEvent | a crash between two writes | rows and events agree |

### The session's turn queue

```
 prompts (executeTurn, admitPrompt)   notices, subagent messages, control turns      promotions (sendQueuedNow, sendText now)
            \                                   |                                     / lease, stop, wait, admit
             +----------------------> FIFO (command-queue.ts) <----------------------+
                                          | drain loop (runtime-command-queue.ts)      ^ absorbed between model steps
                                     foreground execution -> reservation -> active turn
```

| component | state | operations | what is hard | what makes it correct |
|---|---|---|---|---|
| turn queue (`command-queue.ts`, `methods/runtime-command-queue.ts`, `prompt-admission.ts`, `steering.ts`) | the FIFO, whether the loop runs, the foreground execution, the reserved and the active turn, the promotion lease | enqueue, drain, admit, cancel, stop, acquire and release a lease | a promotion takes six steps, with everything else in between; a turn absorbs from the queue it was taken from; every exit has to free the slot | one owner of the turn; the lease is honoured and given back; nothing waits in a queue nobody drains |
| promotion handlers (`handlers/queue.ts`, `handlers/session-flow.ts`, `handlers/goal-compact.ts`) | how far the promotion is | sendQueuedNow, sendText, startManualCompact, sendGoalCommand | the wait can time out, the admission can be refused, a compaction or the continuation of a goal runs in the background and has the lease to give back | each ending gives the lease back (section 6 has the one that does not) |

### The persistent protocol

| component | state | operations | what is hard | what makes it correct |
|---|---|---|---|---|
| protocol (`rpc/src/persistent-protocol.ts`) | ids sent and read, replay buffer, byte count, saturation, abandoned or not | send, read, acknowledge, heartbeat, replaceSocket, abandon | acknowledgements are late, repeated and go backwards after a replay; the flow signal is an edge | nothing unread is forgotten; the order is kept; who was told to pause is told to go on |
| connection (`rpc/src/remote.ts`) | the reconnects under way | connect, reconnect | a timeout and a close can both start one, and each awaits its dial before it moves the protocol to the socket; attempts run out | messages get through, or the session is given up |

### The rest of the repository

The inside of a turn (`core`: model loop, tools, compaction), the model clients and stores (`adapters`), the terminal and
desktop front ends (`tui`, `cli`, `desktop`, `web`, `ui`), the services and the remote server (`services`, `server`,
`client`), the server supervisor (`zcode-server-cli`), provider catalogues, telemetry, plugins. `PROJECT.json` lists
every one with the reason for leaving it out; see also section 7.

## 2. Modules

| module | models | extends / uses |
|---|---|---|
| `AskContract` | what the engine promises a script, scheduling left out | |
| `AskScheduler` | one life of a run: engine life cycle and ask scheduler | instance of `AskContract` |
| `AskSchedulerProofs` | theorems about it | |
| `SeatGate` | the scheduler under a cap that is retuned, with the gate at the model requests | extends `AskScheduler`, `OnceSequences` |
| `SeatGateProofs` | theorems about it | |
| `OnceSequences`, `OnceSequencesProofs` | queues that hold nobody twice: what leaving one does to it; lemmas | |
| `ConcurrencyController` | the AIMD controller, as a record and operators on it | |
| `ConcurrencyGovernor` | one bucket of the governor around a controller | extends `ConcurrencyController`, `OnceSequences` |
| `ConcurrencyGovernorProofs` | theorems about both | |
| `WorkflowReplay` | the lives of a run: journal, crash, stop, resume, settlement gate | extends `OnceSequences` |
| `WorkflowReplayProofs` | theorems about it | |
| `ImportedCache` | what an amended run takes from its predecessor, as operators on an actor's use of it | |
| `AmendedRun` | all lives of an amended run: the engine's decisions, and the driver's sessions with their transcripts, stats and boundaries | extends `ImportedCache` |
| `AmendedRunProofs` | theorems about it | |
| `RuntimeCommandQueue` | the turn queue of a session and the promotions that reach around it | |
| `RuntimeCommandQueueProofs` | theorems about it | |
| `ReliableChannel` | what the RPC layer is promised: messages arrive in order, none left out | |
| `PersistentProtocol` | two peers, their sockets and the reconnects | extends `OnceSequences`, instance of `ReliableChannel` |
| `PersistentProtocolProofs` | theorems about it, the refinement among them | |
| `MC*` | instances for TLC: who asks whom, whose requests, which script | |

A definition marked `Fault:` is the definition after it with a plausible bug in it (a dropped guard, a missing reset, an
off-by-one). No action uses it. Put in the place of the right one it must make the property named for it in
`PROJECT.json` ("mutants") fail; that is how we know the properties look at the code.

### How the models correspond to the code

The engine, the gate and the governor are single threaded: what interleaves are synchronous stretches between an entry
point, or a resumed `await`, and the next `return` or `await`. **One action is one such stretch**, with everything it
calls. `settleOk`, for instance, journals, frees the actor and rescans all queues before it returns; `SettleNode` does
all of that in one step. What is a separate step is what the code separates:

- `dispatch` awaits the session: `PumpAll` hands the actor its ask, `CreateActorSession` settles the session, `StartAsk`
  looks at the run and at the node again and starts the turn.
- A request that misses the fast path awaits `onQueued` before it calls `acquire` (`request-admission.ts`): `Miss` and
  `Admit` in the governor, `Miss` and `Park`/`Acquire` in the gate.
- A replayed answer that had its turn is delivered by a microtask: `Pump` and `Flush` in `WorkflowReplay`.
- The governor's `drain` is a loop that nothing interrupts. `DrainGrant` is one turn of it, and no other action is
  enabled while `draining` holds; the atomicity is the code's and the step stays small.

`AskScheduler`'s `live` is `liveNodes`; `current`, `queue` and `session` are the fields of an actor; `turn` is the
driver's side; `promise`, `row` and `log` are what the script and the journal see. `actorRow`, `costed`, `spent` and
`shown` are the books that are kept beside the asks and partly after the run has settled: the actor's row, which a
session that becomes ready late still completes (`CreateActorSession`); the usage on an ask's row, which `noteStats`
adds behind the settlement; and the run's own usage, written by `updateRunUsage` whether the run is settled or not, with
an event as long as it is not (`ReportUsage`). `SeatGate` adds `working` and `parked` of the gate; its map `instances`
is the set of asks the scheduler has dispatched. `stepped` is a history variable that no action reads. In
`WorkflowReplay`, `rows` and `log` are the journal and outlive the life; `order` and `cursor` are the gate's, `parked`
its Map and `due` its queue; `held` and `fresh` are `pendingRecorded` and `pendingLive`; `pipe` holds the calls under
way from the script process. `told` and `course` are history variables: what the script has heard, and whether the order
in which it heard it is still the journal's. The code can depart from that order in three ways, all of which the model
takes: an ask is settled live while recorded answers are still to be released, the first event of the ask that is
settled is that of a stop which cancelled it, or the process dies between the row and the event. From then on `course`
is `"left"`.

In `AmendedRun` `asks`, `calls` and `closed` are the journal, `store` the sessions' transcripts and `touched` the
workspace: these outlive a life. `imported` is `ImportedActorState` of each actor, `prior` is `priorTranscriptAsks`,
`noted` is `lastStats`, `subject` is `currentInstance`, `looked` is `worldToolCalls > 0`, and `counting` holds the asks
whose `settleExchange` awaits the number of messages. A row's `live` says that there is a `node-queued` event of the
ask, `early` that it stands before `import-cache-closed`. A transcript is how many exchanges of the predecessor it
begins with, and whether it has any of its own. `changed`, `based` and `saw` are history variables. The predecessor's
journal is `answered` and `results`, how much of `Entries` and `Recorded` it holds: it may grow between two lives, since
a predecessor that was stopped can be resumed (`dynamic-workflow-import.ts:14-33`). What the engine imports of it is
built anew in each life, and is not the same in each: `offer` says of an actor that it is left out (its transcript
cannot be read), that its answers are there, or that the interrupted ask is, too. The amendment drops that ask if the
session was not at rest (`quietSessions`, line 382), the resume never does (lines 540-547). `table` is whether
there is a table at all; a life whose `rebuildImportedCacheForResume` returns nothing has none.

Time in `ConcurrencyController` is relative (time since the last request, time until the end of the cooldown), so that
the state is finite and every comparison of the code is kept. Epochs are only compared with the current one; the model
remembers which tickets are of the current epoch instead of numbering them.

In `RuntimeCommandQueue` a FIFO is given by the set of its commands and, for each, the set of those ahead of it; all
that the code asks of it is who is first and who stands behind whom. `phase` is where the drain loop is suspended:
`"persist"` in the write before a notice's turn, `"start"` in the preparations between the reservation and
`beginActiveTurn`, `"turn"` in the turn, `"record"` in the write of a control turn, `"over"` in the cleanup after the
turn, `"top"` between two rounds, `"off"` when no loop runs. `Drain` is the whole stretch from the head of the loop to
its next `await`, and is part of whatever starts or continues it: an `enqueue`, a released lease, the next round.
`promo` is the program counter of a promotion's handler. That of a goal (`queue.ts:230-244`) decides whether a
background will continue it (`ApplyGoal`: `"starting"` or `"staying"`), awaits, and then `continueGoalAfterChange`
decides again (`GoalContinues`, or `GoalStays` and `GoalLoses`), as the session may have gone into or out of plan mode or
have got an abort controller meanwhile. If the two differ, the lease is given back by both (`returning`, `HandlerReturns`)
or by nobody: that promotion is `"lost"`. `fate` is a history variable except that a background
compaction looks at the end of its own command.

In `PersistentProtocol` a frame is whole or lost, and `wire` is what was written to a socket and not yet read at its
other end. `reconnects` holds the chains of attempts, as the code may start several: for each the attempt it is at, and
the socket that its dial has opened. Sockets are numbered in the order in which they are dialled (`Dial`). The server
may be given one from then on (`Accept`); the client moves to it when the awaited `connect` returns (`Reconnect`), and
two chains may do that in either order (`remote.ts:314-317`). A socket a peer has turned away from is in its `left`: it
reads no more of it. That the server never goes back to an older socket is an assumption about code outside the
repository. `received` is a history variable.

### Order of work

1. `AskScheduler` with its contract and proofs: everything else hangs on it.
2. `ConcurrencyController`, `ConcurrencyGovernor` with proofs.
3. `WorkflowReplay`, for asks, with proofs.
4. `SeatGate`, the scheduler composed with the gate, with proofs.
5. `PersistentProtocol` against `ReliableChannel`, with proofs.
6. `RuntimeCommandQueue`, with proofs.
7. `ImportedCache` and `AmendedRun`, with proofs.

All of these are done; section 7 says what would come next and why it is not here.

## 3. Runs

All passing runs are exhaustive for their bounds.

| run | instance | what it shows |
|---|---|---|
| `ask_scheduler` | 3 actors, 4 asks (two of one actor, one typed), cap 1 or 2, one repair, one nudge, the usage of two asks reported late; 344 154 states | the counter `activeAsks` is exact, no place and no wakeup is lost, turns, journal and promises agree, an ask's events tell one story, nothing is started beyond the cap by any rescan, a settled run stays settled but for its late books, every ask is answered, the contract is kept |
| `seat_gate` | 3 actors with an ask each, cap 1, 2 or 3; 53 652 states | gate and scheduler count the same asks, nobody is parked next to a free seat, nobody is overtaken by a new ask, a lowered cap bites at the next request, and being parked never keeps an ask from settling |
| `governor` | 2 runs with 2 and 1 clients, the main agent, ceiling 3 | cap sound, counts and queues exact through throttling, cooldowns, idle resets and cancellation; one cut per batch; nobody slips through a closed gate |
| `governor_live` | 3 clients, no cancellation, no main agent | every waiter is let in |
| `governor_starvation`, `governor_lost_wakeup` | the same with main agent or cancellation | findings, section 6 |
| `replay` | 3 branches, 5 calls, 2 of them of one site by two branches, 3 lives, each ended by a stop or a crash, also one between a row and its event; 45 085 states | as long as the journal keeps the order of the answers: no false mismatch, and one answer per call over all lives; whether it does or not: transcripts are prefixes, and the gate never blocks |
| `replay_overtaken`, `replay_stopped` | the same with one departure from the order isolated | findings, section 6 |
| `amended` | an actor whose predecessor has answered once, pure, and is interrupted at, or later finishes, a second ask with a look at the world; a command that has run once or not; each life with another table or none; 2 asks, 1 call, 2 turns at a time, 2 lives; 2 204 525 states | the recovered use of this life's table is what the rows say, transcripts hold what the script was answered from, nothing stale is used after a write, no row denies a look at the world |
| `turn_queue` | a prompt, 2 notices, a control turn, and a prompt, a compaction and a goal that are sent now, of which five or six come; 304 481 states | a reserved or running turn is the foreground's own, a waiting command has a loop or a lease to wait for, nothing but the promoted command becomes the foreground under a lease, a turn absorbs nothing from behind a control turn, the queue always comes to rest unless a goal has lost the lease |
| `persist` | 2 peers, 3 sockets, 2 reconnects that may overlap, of 2 attempts each, 3 messages, buffer of 2 with marks at 1 and 0; 249 471 states | nothing the other peer has not had is forgotten, the flow signal agrees with the buffer, the protocol implements the reliable channel, what was sent is acknowledged unless the session is given up or the peers are left on different sockets |

**Why the bounds suffice.** The scheduler's decisions depend on whether the cap is reached, on whether an actor is busy
and on whether its queue is empty; three actors under a cap of one or two, two of the asks on one actor, reach every
combination, and the proofs remove the bound for the safety properties. A cap lowered from 3 to 1 over three actors
makes two subagents park at once, so that the FIFO has an order. The governor needs two runs for the rotation, two
clients of one run for a queue that does not run empty, a ceiling of 3 so that a cut (floor of 0.75 times the cap) can
be taken twice, and a client that never queues. The replay needs two branches that compete for the ordinals of one site,
a third that delays one of them, and three lives, because what the second life writes is only read in the third. The
turn queue needs promotions that compete for the lease, one of each kind: one that is admitted, one that ends in the
background, and one that decides twice whether it does; a prompt for admission and cancellation; two notices for a
batch, part of which can be stale; a control turn to hold back what is behind it. Seven commands at once are too many:
the run has three sets of them (`MCInit`, the rest has been turned away before), of which each pair of promotions, and
each promotion with the notices and the control turn, is in one. A message of a subagent differs from a notice only in
that it is not batched: the run has none, and the proofs cover any number. The amended run needs one answer of each
kind, because only the pure one may be used after a write; the interrupted ask, and that it is answered between two
lives; an instruction that is typed, for nudges and for stats that come after the settlement; one command, which closes
the cache from outside the actor; and two lives with different tables, the second of which reads all that the first
wrote. The proofs cover any number of each. The protocol needs unequal message sizes so that one of them jumps both
marks, and two reconnects so that an acknowledgement from before the first can meet the replay of the second, and so
that the second can be adopted before the first.

**Bounds by name.** `MaxLives` (lives of a run), `Metered` (the asks whose usage the driver reports, once each), `IDLE`
and `MaxRetryAfter` (thresholds of the controller, in ticks: the model's constants, not a cut), `REPAIR_ATTEMPTS`,
`NUDGE_ATTEMPTS` and `Attempts` (the code's budgets, set to 1, 1 and 2), `MaxSent` (messages a peer sends),
`MaxReconnects` (reconnects that are begun; a socket fails only while one is left), `Aged` (the peers whose messages may
stay unacknowledged beyond the grace period: the server, as the client's abandonment is the same code), and in
`SendKeepAlive` at most one heartbeat on an idle wire. In `AmendedRun`: `MaxAsks` of an actor, `MaxCalls` of one
content, `MaxTurns` that a session has not yet finished, `MaxLives`. Nothing else is capped: asks, actors and requests
are finite because the instances are.

**What the code does not guarantee.** Four of the properties have an exception in them. It names what the code
does there, the model takes that step, and section 6 says where a comment or a document of the repository promises more.
The exceptions are of the weakest kind: a life, an actor, a step or a lease falls under them, not a configuration.

| property | exception | what reaches it |
|---|---|---|
| `FaithfulWhileKept`, `OneStory` | `course = "left"` | a live answer before the end of a replay, an answer to an ask that a stop has cancelled, a torn write |
| `NothingStale`, `TranscriptFits`, `RecoveryExact` | what was written, based or recovered in a life without a table (or, for one actor, without a candidate) | a predecessor that was removed, or a transcript that cannot be read |
| `PendingHasDrainer`, `ComesToRest` | `LeaseLost` | a goal whose background was expected and not started |
| `EverySentIsAcked` | `Parted` | two reconnects that are adopted against the order of their dials |

In `NothingStale` and `TranscriptFits` the exception is about the life in which the workspace was changed or the
session was given its first messages; what follows from it is checked in all later lives, whatever tables these have.

**Types.** The type invariants are proved, and the runs spend their time on other properties; only `WorkflowReplay`'s is
checked by its run as well, since that a branch never has more answers than calls is what a batch delivered twice
breaks.

**Deadlock.** Runs that end (`completed`, all asks answered) stop, so `CHECK_DEADLOCK FALSE` stands in the configurations
of all models but one: a session rests when its queue is empty, the protocol when everything is acknowledged. In the
governor time passes always, and the check is on.

## 4. Fairness

- `AskScheduler`: a session request is answered, a resumed dispatch runs, a turn ends or fails (weak). Boundary B
  obliges the driver to report on every ask (`engine.ts`, `WorkflowDriver`). Neither the script nor the user owes
  anything: an ask of a run that nobody settles is answered all the same.
- `SeatGate`: each turn step goes on (weak), and a turn that can end again and again does (strong), since a turn is now
  interrupted by its requests. A request is never obliged to be aborted.
- `ConcurrencyGovernor`: `drain` runs to its end (weak). Time, the timer and the end of a request are strong, because
  drains come in between; the event loop serves timers and I/O in turn. An attempt is released in a `finally`
  (`request-admission.ts`).
- `RuntimeCommandQueue`: the loop goes on (weak on `Run`: every turn returns or is stopped, every write ends) and the
  handler of each promotion runs on (weak; its wait has a deadline, `waitForSessionIdle`). Nobody is obliged to enqueue,
  stop, cancel, rewind, or absorb.
- `PersistentProtocol`: frames that arrived are read, the heartbeat's interval fires, a closed socket is reported, an
  attempt goes on (it dials, is adopted, or fails: weak on the three together), the server gets the sockets that were
  opened (all weak). The network is not obliged to stay up: an attempt may fail each time, and `EverySentIsAcked` then
  allows for the reconnect that was given up. Neither is another reconnect, nor the abandonment after the grace period:
  once `Parted`, a client that waits for an acknowledgement begins one after 20 s of silence, while a server that alone
  waits has nothing but its 45 s. The
  heartbeat's fairness is what the property needs: without it a peer that has nothing to say acknowledges nothing.
- `AmendedRun` states no fairness: its properties are all of safety.
- `WorkflowReplay`: calls under way arrive, microtasks run, turns end. No crash and no stop is obliged. This is the weak
  fairness of `Proceed`, written out: `CanProceed` says when a step of it is possible, and a step that stays in the life
  is one of it. TLC evaluates that several times faster than `WF_vars(Proceed)`.

## 5. Proofs

Checked by TLAPS for every value of the constants that the named assumptions allow.

- `AskSchedulerProofs`, from `SchedulerAssumption` (the asks go to actors `1..NumActors`, caps are positive). The
  inductive invariant `IInv` is `SchedInv /\ NodeInv`. `SchedInv` has the counting: that `active` is the number of busy
  actors and that nobody who could run waits. All scheduling goes through `PumpAll`, so one lemma, `PumpCounts`, does
  the cardinalities and each action says what it pumps. `NodeInv` ties `live` to promise, row and turn. The two halves
  need each other only where a settled run has no live asks: without `LiveOnlyWhileRunning` a late report could free a
  place in a run whose counter was reset. What may still be written of a settled run is the session id of an actor's row
  and usage; that a row completed late is the actor's first row, which has no session id yet, needs the row to follow
  the session (`BookedInv`). Proved: `TypeOK`, `ActiveCountsBusy`, `WorkConserving`, `TurnsMatchLive`,
  `JournalMatchesScript`, `CapRespected`, `NothingAfterSettled`, and that the scheduler implements `AskContract`.
  `OrderInv`, on top, says of each actor that its admitted asks fall into those that are over, at most one current ask
  and the queue (`Ordered`), and of the run that every ask is admitted once and to its own actor (`Admissions`). The step
  that could break it is a report of the driver, which might settle an ask that is not its actor's current one;
  `InFlightIsHeld` excludes that, because no queued ask was handed to the driver. Proved: `SerialActors`. `StoryInv`
  compares what was logged of an ask with its promise and its turn (`StoryTold`); each step either leaves both alone or
  appends the one event that goes with it. Proved: `EventsTellOneStory`.
- `ConcurrencyGovernorProofs`, from `ControllerAssumption` and `GovernorAssumption`. First what each signal does to a
  controller in order, then `GInv`: `Core` (types, `CapSound`, `CountsExact`, and the queues with "each once" in the
  place of cardinalities, which is what induction can use) and `OfRuns` (only requests of runs are held back). Proved:
  `TypeOK`, `CapSound`, `CountsExact`, `QueuesMatchWaiting`, `GateRespected`, `OneCutPerEpoch`. `NoLostWakeup` is false
  in general (section 6), and two theorems say how far it holds. `OnlyAbortLosesWakeup`: no step but the withdrawal of a
  waiting request turns it from true to false, in whatever state the controller is. `NoWakeupLost`: where no client is
  cancelled while it waits (`Abortable = {}`, as in the run `governor_live`), it is an invariant, with the main agent or
  without.
- `SeatGateProofs`. First that a step of the composition is a step of the scheduler or leaves it alone
  (`GateLeavesScheduler`), so that all of the above holds under the gate. The gate's invariant adds that its four
  variables agree (`Consistent`) and that it has heard of exactly the asks in flight (`Heard`); seats are counted once,
  in `UnparkSeats`. Proved: all five safety properties of the `seat_gate` run. `NobodyOvertakes` is the one that needs
  both halves: seats and parked together are actors that hold an ask, and those are what `activeAsks` counts.

- `WorkflowReplayProofs`, from `ScriptAssumption` (the script starts each branch once, and a branch makes a call) and
  `ReplayAssumption` (the bound on lives). The run may be stopped any number of times, crash between a row and its
  event, and settle asks live while it replays. `IInv` follows three things through a life. An instance waits in one
  place, in `held`, `fresh`, `live`, `parked` or `due` (`Placed`, `Apart`), and the branch it belongs to waits for
  nothing else (`ScriptFits`). An ordinal counts the calls of its site that have arrived (`Counted`), so that the call
  that arrives has an instance nobody waits for. The rows of an actor are numbered up to `Top`, which is what was
  recorded or what was admitted, whichever is more (`Numbers`), and its live asks are the unsettled of its admitted
  rows, in the order of their numbers (`LiveFits`). The last is why a settlement keeps the settled rows before the
  others: it takes the first of the actor's live asks, and what is unsettled and not live has a number not reached yet.
  One lemma, `DrainFits`, follows `drainActorAdmission` with all it calls; both ways a call can arrive cite it. That the
  drain stops at the first number that is missing, and `pump` at the first answer that is not there, is by least numbers
  (`LeastNat`). A new life keeps the rows and counts them again: `recorded` is then the old `Top` (`BeginFits`). Proved:
  `TypeOK`, `TranscriptIsPrefix`. That a replay is faithful as long as `course = "kept"` takes one idea: all calls of
  the run, over all its lives, stand in one order, although nothing in the state shows it. `RInv` says that such an
  order `at` exists. What has arrived comes before what is under way, and that before what the claimed answers will lead
  to (`InLine`); the log alone says which calls these are: their order is that of the first events of the asks that are
  settled (`ByTheLog`, `Settled`), whatever else a stop has logged. So a new life, which releases the answers in the
  order of the log, starts with the same calls in the same order (`BeginReplays`). An instance is then the place of its
  call among the calls of its site, in every life (`Canonical`), and the call that arrives finds itself in the journal
  or nothing (`ArrivesInTurn`). `KInv` is `IInv` together with `RInv` for a course that is kept, and holds of every
  state of the specification; `StaysKept` says what a step owes that leaves the course alone, and each part of it has
  its place. An answer settled live leads to a call behind all others only if none is still to be replayed, and its
  event is the last of the settled ones only if a stop did not log the ask before (`SettleOkReplays`, `~Departs`); every
  settled row is in the log only if no crash tears the two (`CrashReplays`, for a whole crash). A stop logs asks that
  are not settled, and takes no place from those that are (`StopReplays`). `Heard` and `Claimed` add what the script was
  told and which answers it is still owed. Proved: `FaithfulWhileKept`, `OneStory`.
- `PersistentProtocolProofs`, from `PeersDiffer` and `BoundsAreNumbers`, and for the flow signal from `SizesAreNumbers`
  and `MarksInOrder` (the low mark is not above the high one: `remote.ts` gives the constructor no marks, and it then
  takes a quarter of the high one; with marks in the wrong order a peer would be told to pause below the low one). The
  invariant follows one direction: the buffer is the messages up to the last one sent, without a hole, and what has left
  it was received (`Buffer`); on every socket the frames continue what the other peer has, without a gap (`InOrder`),
  and on the one the sender is bound to, unless the
  other has turned away from it, they go up to the last message (`Reaches`); no acknowledgement exceeds what was
  received (`Bounded`). `Reaches` is what the next message needs in order not to leave a gap, and `Bounded` is what
  keeps the buffer complete for the next socket; each needs the other. Proved: `TypeOK`, `NothingForgotten`,
  `ImplementsChannel`. `Bytes` is a recursive function; that it is defined, and that the sum over a buffer is the sum
  over a front part plus that over the rest (`BytesSplit`), is shown by taking the least place where it would fail
  (`AddsExists`, `AddsFrom`). With that the count follows the buffer through every send and acknowledgement (`Flow`):
  `FlowSignalTrue`, for any sizes of the messages.
- `RuntimeCommandQueueProofs`, from `CmdAssumption`. The invariant adds to the two properties what a command's fate says
  about where it is (`FateTells`), that a promotion which has not submitted its command holds the lease and its command
  is nowhere, but for a goal whose handler gives the lease back beside its background (`LeaseHeld`), and that what is
  being absorbed waits behind no control turn (`AbsorbsUnbarred`). One lemma, `DrainKeeps`, follows the loop from its
  head to its next suspension; whatever starts or continues the loop cites it. Proved: `SlotIsOwned`,
  `PendingHasDrainer`, `LeaseIsRespected`, `ControlBarsAbsorption`, all the safety properties of the run. That the head
  of a nonempty queue is a command at all is an induction over the order and is not needed: the lemmas hold of whatever
  `CHOOSE` returns.

- `AmendedRunProofs`, from `ImportAssumption` and `RunAssumption`. Types come first (`TypeCorrect`); among them that no
  index of the driver goes beyond the rows of its actor, which every step on rows needs. `Kept` says that the flag of an
  engine that has a table is the event's, and that nothing is written with a table before the event; with it one step of
  an ask or a call shows `NothingStale`. `UseInv` says of each actor that its rows have the shape a single pass over the
  entries leaves (`RowsFit`: what was not executed matches the entries and comes first) and that its present use of what
  this life offers is that of the rows admitted so far (`Follows`); when all are admitted this is `RecoveryExact`.
  `RowsFit` says nothing of the offer, so it carries over to a life with another one. `SessionInv` adds what a session
  was or will be seeded with; that the use is final when the first live ask is dispatched (`SeedFinal`) gives
  `TranscriptFits`. `HonestInv` follows an ask through dispatch, turns, count and report. The turns of a session are of
  different asks (`TurnInv`), engine and driver know the same ask as long as it runs (`AskInv`, `WorkInv`), and a look
  at the world is known to the counter, the noted stats, `prior` or the row, or else the session has gone on to another
  ask and the row gets no boundary (`LookInv`): that last case is the late report of a submitted answer, and the reason
  why the guard in `journalAskMessageBoundary` matters. No theorem assumes a table: a life without one, or without an
  actor in it, is a step of the specification like any other.

Only model-checked: all liveness. Every safety property of a passing run is a theorem, from the assumptions on the
constants alone. Liveness and ENABLED are out of the prover's reach. So are the induction theorems of the library, which
take an operator as a parameter; where a proof needs an induction over places it takes the least counterexample instead
(`LeastNat`). No module declares a RECURSIVE operator. `OnceSequencesProofs` holds the lemmas on queues that the proofs
about the governor, the gate and the replay share.

## 6. What the models found

Each is a run that TLC refutes, and an entry of `PROJECT.json` with the lines concerned.

1. `governor_starvation`: the main agent's requests move the cursor of the rotation although they never queue. Between
   them the same run can be served again and again and another starve.
2. `governor_lost_wakeup`: withdrawing one waiter can let the controller forget an idle key together with its cooldown;
   the timer that the remaining waiters depend on is cancelled and not set again.
3. `replay_overtaken`: an ask that runs again after a crash is answered live as soon as its turn ends, also while
   recorded answers are still parked; its branch takes the next ordinal early and the run fails with
   `InputHashMismatch`.
4. `replay_stopped`: the `cancelled` events of a stop count as first settlements and fix an order that never happened.

Five more are exceptions in a property of a passing run. Each exception is needed: without it TLC refutes the property
under the same configuration (but for the one on `NothingStale`, which takes a third life).

- The torn write: `settleOk` (`scheduler.ts:484-485`) writes the row and the event in two
  statements that are in no transaction. After a crash between them the row is completed and has no place in the order,
  so its answer is replayed at once, before older ones. With `LiveAfterReplay` and `StopIsLast` both TRUE and
  `Torn = TRUE`, `ReplayFaithful` fails. The comment at
  `replay-order.ts:130-131` says that the event reaches the disk in the same write as the row.
- The life without a table: when `rebuildImportedCacheForResume` returns nothing (the predecessor was
  removed, say), an actor whose first asks were answered from the cache is not seeded, and its next ask begins in an
  empty session. `TranscriptFits` for all sessions instead of those in `based` is refuted in 8 states. The comment at
  `dynamic-workflow-import.ts:530-534` says that a run without the table becomes dearer and not wrong. The same
  happens to one actor whose transcript cannot be read while the others have theirs.
- The write without a table: such a life records no `import-cache-closed` when it writes (`engine-world.ts:181`), so
  a later one that has a table again finds the cache open and uses results from before the write. `NothingStale` for
  every change instead of those made with a table is refuted in 5 states with `MaxLives = 3`.
- The lost lease: `sendGoalCommand` (`queue.ts:230-244`) decides from the plan mode, before it awaits, that a background
  will give the lease back (`leaseReleaseOwnedByBackground`). `continueGoalAfterChange` (`goal-compact.ts:444-461`)
  decides again, after the awaits, also from the active controller, and may start none. Nobody then gives the lease
  back, and what is queued waits for ever: `ComesToRest` without `LeaseLost` is refuted in 7 states. The comment at
  `goal-compact.ts:429-433` has both conditions and says that the goal is then only stored; nothing there says who keeps
  the lease.
- The crossed reconnects: `remote.ts:314-317` awaits the connection before `replaceSocket`. A reconnect by the ack
  timeout and one by a closed socket run side by side; if the one that dialled first is adopted last, the client ends on a
  socket that the server has already left. Its messages go nowhere until another reconnect, and the server's none
  either: `EverySentIsAcked` without `Parted` is refuted.

Smaller, without a run of their own:

- `workflow-seat-gate.ts:14` says `activeAsks = working + parked`. A dispatched ask that awaits its session is in
  neither; the conclusion drawn from the equation still holds, and is checked as `NobodyOvertakes`.
- `workflow-concurrency-governor.ts:265`: a cooldown that has passed is not cleared; as long as the cap is full each drain
  arms the timer with delay 0, which drains again, until a request ends.
- `command-queue.ts:193`: a batch of notices takes those from behind a control turn along with one from before it. With
  n1, c1, n2 queued in this order n1 and n2 are run first, although the comment at lines 94-95 puts the control turn
  before any notice of the new run. A running turn does stop at the control turn (`ControlBarsAbsorption`).
- `prompt-admission.ts:29`: a notice that was queued while a promotion waited makes the promoted prompt's admission fail.
  The comment at `runtime-command-queue.ts:83` speaks of notices that overtook the promoted prompt; under the lease they
  no longer run first, but they still turn it away (`Rejected`).
- `persistent-protocol.ts:240`: nothing in the repository listens to `onClose`, which an abandoned session fires. `send`
  goes on filling the buffer of an abandoned session, beyond the limit that is there to keep it bounded.
- `persistent-protocol.ts:205`: a message that is read twice is handed on twice; the layer promises that nothing is lost,
  not that nothing is repeated.
- `imported-cache.ts:184`: the cursors of the world calls live in memory only. After a resume the next call of the same
  content that is not in the journal gets the first recorded result again, which an earlier life has used.
- `workflow-driver-transcript.ts:115`: when an actor's next ask starts before the messages of the one before are
  counted, that one gets no boundary, and an amendment of the run is refused with `missing_boundaries`, which
  `dynamic-workflow-import.ts:171` puts down to two other causes.
- `concurrency.ts:224`: idleness is measured from the last admission, not from the last answer. A request that runs
  longer than the threshold and is then throttled has its own verdict and cooldown forgotten by the drain that follows.
- `runtime-command-active-loop.ts:50`: a notice has left the queue when its write fails, and is gone with the turn.

## 7. Not modelled

Reports, artifacts, phases and the token budget of the engine (of the usage the model has which asks it includes, not
the amounts), and the place of world calls in the replay order; the requests of running tools at the seat
gate, which leave no trace in it; the fan-out of cap changes to the runs; several buckets, which share nothing; the
contents of asks and answers, except for their identity. A failed ask is an answer like any other in the replay.

Of the turn queue: what a turn does inside, the inputs a busy session defers and steers (`steering.ts`,
`enqueueDeferredInput`), the continuations of a goal behind a turn, which run within the same foreground execution (the
first one, which a goal that is set starts, is in the model), and
the suppression of a notice, which drops it as staleness does. Commands all have the priority `next`, as everything in
the repository that enqueues gives them; the other two are unused. Of the RPC layer: channels, calls and events, and the
server's acceptance of a reconnect, which is outside the repository and modelled as its use requires.

Of an amended run: how the tables are built from the predecessor's journal and which actors they are for
(`dynamic-workflow-import.ts`, `matchImportedActor`); the record of sessions that may still be written to
(`workflow-driver-quiescence.ts`); a count of messages that fails, which costs a boundary and nothing else; the copying
of a transcript message by message, which an interruption leaves half done and the next life completes. The cap on
asks, repairs and refused submissions are in `AskScheduler`.

Not modelled although they keep state of their own: the driver's escalations and transient retries
(`workflow-driver*.ts`), which would refine the reports `AskScheduler` takes from it; the server supervisor
(`zcode-server-cli`), whose locks and upgrades live in the file system.

Most of the repository, by size, is user interface, localisation, adapters of services and generated types. It has no
protocol to check, only functions from what it is given to what it shows or writes. `PROJECT.json` lists these components
one by one.
