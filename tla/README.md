# GlassBox: a verification of the trader

TLA+ modules, TLC runs and TLAPS proofs about `src/glassbox`, a program that
reads news, opens defined-risk option spreads at Alpaca, manages them and stops
when something is wrong. The models are translated from the Python source;
`PROJECT.json` maps each definition to its lines.

## 1. The system

Four processes share one SQLite file (`store.py`) and one brokerage account:
the **trader** (`runner.py`, two threads), the **supervisor**
(`supervisor/run.py`), the **scheduler** (`scheduler.py`) and the read-only
**dashboard**. An operator adds `make kill`, `make resume`, `repair.py --apply`
and resets made by hand.

| component | state it keeps | operations | what makes it correct | module |
|---|---|---|---|---|
| lifecycle, router, ids (`execution/`) | `orders`, `positions`, attempt counters | `sync`: poll, void, sweep, fill, dead, expire, escalate; `submit_structure`, `cancel` | every transition completes; nothing fills or is fed twice | `OrderLifecycle`, prices in `Structures` |
| runner (`runner.py`) | seen news, failure counter | tick, guarded step, news poll, stream thread | persistent failure stops the heartbeat, nothing else does | `OrderLifecycle`, `Outage`, `Pipeline` |
| trader (`trader.py`) | deferred stories, floor mode, spreads seen | `process_news`, `retry_deferred`, `maybe_floor_trade`, `manage_positions`, `_close` | one position per signal; no entry under a halt | `Pipeline`, `Exits`, `OrderLifecycle` |
| reconcile (`reconcile.py`) | `halt_reason`, `halt_source`, `seen_assignments` | `reconcile`, `enforce`, `check_assignments` | halts on every divergence and only then; lifts only its own halt | `OrderLifecycle`, `HaltLatch` |
| supervisor, guards (`supervisor/`) | `halt_*`, peak, session baseline | `tick`, `flatten_all`, `evaluate_guards` | one act per breach; the book empties; a kill holds | `HaltLatch`, `Outage` |
| breaker (`execution/breaker.py`) | state, failures, opened_at; no lock | `call` | no storm of failing calls | `Outage` |
| filter, edge, sizing, gate (`signal/`, `sizing.py`, `gate.py`) | the filter's memory | `evaluate`, `size_position`, 21 checks | limits hold over many entries | `EntryRules`, `Pipeline` |
| chain, structures (`chain.py`, `structures.py`) | none | `build_structure`, `max_loss_per_spread` | the loss booked is the worst there can be | `Structures` |
| manage, macro (`manage.py`, `macro.py`) | the peak, in the store | `evaluate_position`, `release_before_next_open` | nothing overstays; winners are kept, losses bounded | `Exits` |
| market data (`data/market.py`) | the cache | `_cached`, `spot`, `chain`, `session`, `corporate_events` | what is believed is fresh and plausible | `MarketData` |
| audit (`audit.py`) | one hash chain per day and role | `append`, `verify_chain` | an unbroken chain, damage confined | `AuditLog` |
| scheduler, predictions | marks of what ran, rows | `tick`, `record`, `resolve_due` | once a day, scored in the end | `Jobs` |
| repair, drills, Makefile | none | `apply`, `kill`, `resume` | repairs only what the broker explains | `HaltLatch` |

**Interactions.** The main loop calls `sync`, `enforce`, `manage_positions`, the
deferred stories, the floor and the news poll in that order; the stream thread
calls `process_news` whenever the socket delivers. They share the store's rows,
the trader's dictionaries, the cache and the breaker, and nothing locks across
two statements; only the audit log has a lock. The supervisor reads the trader's
heartbeat and writes the halt the trader reads; both write `halt_reason` and
`halt_source`. The scheduler scores the predictions the trader records. The
broker changes orders and holdings on its own.

**Hard behaviour.** A crash between two statements; a submission whose answer is
lost; a cancel that a fill overtakes; two threads on one row, one limit, one
cache entry; a flatten that turns the trader's own book into a divergence; two
processes that write one halt; rules that hold at each tick and should hold over
a weekend; amounts that are rounded, conceded and booked again. `PROJECT.json`
lists each as a hazard at its line, with the properties that cover it or the
reason none does.

## 2. The modules

The modules meet at the rows of the store, where each takes over what another
abstracts. `Pipeline` ends where its row is entered and lets a position leave at
any time; `OrderLifecycle` carries the row through its orders and lets any
barrier fire; `Exits` decides which barrier does and lets a close fill or die;
`Structures` gives the prices the orders carry; `MarketData` gives what all of
them are told; `Outage` and `HaltLatch` stop them. Each module lets the others'
part do more than the code does, so that what it shows holds for all of them.

### `OrderLifecycle`, `RoundTrip`, `LifecycleRoundTrip` (`_proofs`)

One step is one statement on the store or one call to the broker, in either
thread of the trader. `pc[t]` says where thread `t` is, `cur[t]` the order and
`pid[t]` the position in its hand, `ret[t]` the loop that called the handler.

- *Store:* `rows` (orders.status; canceled, rejected and expired are one status,
  `"dead"`, since every handler treats them alike), `latest`
  (`latest_order_for`), `position` (positions.status), `entryAttempt` and
  `closeAttempt` (the two counters in `system_state`), `halted`, `fed`.
- *Broker:* `broker` (order states), `done` (spreads filled), `held` (spreads of
  each position held). Structures are MLEG orders, so the legs fill together and
  one number stands for them.
- *Memory, lost in a crash:* the rows a sync has still to poll (`todo`) with
  those that read pending (`unconfirmed`), the sweep's rows (`orphans`), the rows
  a walk read as open (`walk`), the story in hand, the positions `enforce` was
  called with.

| code | actions |
|---|---|
| `sync` | `StartTick`, `Poll`, `PollFails`, `VoidUnconfirmed`, `StartSweep`, `SweepOne`, `EndSweep` |
| `_on_fill`, `_on_dead` | `FillRow`, `FillPosition`, `FeedLearners`; `DeadRow`, `FailEntry`, `BumpAttempt`, `Reopen` |
| `_maybe_expire`, `_escalate_entry`, `_escalate_close` | `Rest`, `Expire`, `Concede`, `Cancel`, `CancelFails`, `CancelRow`, `Rung` |
| `submit_structure` | `Record`, `Send`, `SendFails`, `Ack`, `Nack` |
| `enforce` | `ReadBroker`, `Enforce`, `EnforceFails` |
| `manage_positions`, `check_contradiction`, `_close` | `StartManage`, `SkipManage`, `Hold`, `Exit`, `EndManage`, `CloseRow` |
| `process_news` | `News`, `Drop`, `Approve`, `EnterRow` |
| Alpaca, the host | `Fill`, `PartialFill`, `Die`, `Crash` |

A `client_order_id` is the record of the parts it is a digest of, so that two
orders have one id exactly when the code computes one. A barrier and a news
reversal give different reasons and so different ids, as in `ids.py`. What the
market decides (a barrier fires, an order is old, the gate refuses) is a choice,
so the properties hold whatever it decides. `Faults` names what the environment
may do: crash, answer a submission with an error after taking it, fail for no
reason, fill in part, fill after a cancel was accepted. A handler's consecutive
reads are one step (`reconcile`'s and the sweep's two queries, the duplicate
check and the insert of `submit_structure`): what they could see of the other
thread between them is also seen when that thread has done half of its writes
before them. The id of an entry also
depends on its structure, which is one per position here.

`RoundTrip` is what all of it is for: a position is bought once and sold once,
only while its row says that it is traded; the row closes when it is sold, fails
when it was never bought and stays so; the learners hear of it once.
`LifecycleRoundTrip` maps the broker's legs and the row's status to it and shows
that `OrderLifecycle` implements it under crashes, refusals, cancels and both
ladders. The refinement leaves out what breaks it in the code: a submission whose
answer is lost (`retry_after_timeout`), an outage in which a filled order is
voided, and the second thread on one row. Bounded exposure, one feed per exit and
the finality of `closed` and `failed` are consequences of it.

### `HaltLatch` (`_proofs`)

The four rows of `system_state` a halt consists of, written one at a time, and
everyone who writes or reads them.

| code | actions |
|---|---|
| `supervisor.tick` | `NoAssignments`, `MarkSeen`, `LatchAssignment`, `TagAssignment`, `EvaluateGuards`, `ReadStanding`, `ReadMarker`, `Residue`, `LatchReason`, `LatchSource`, `LatchGuard` |
| `flatten_all`, `main` | `CancelOrders`, `CloseAll`, `Verify`; `CutOff` |
| `sync` and `enforce` | `Sync`; `ReadBook`, `ReadBookFails`, `Compare`, `ReadSource`, `ReadReason`, `Lift`, `LiftSource`, `HaltReason`, `HaltSource` |
| the news path | `Approve`, `Submit` |
| the operator | `Kill`, `Resume`, `ClearHalt`, `Repair` |
| broker and account | `FillEntry`, `Assign`, `Breach`, `Recover` |

One position stands for the book. Its two legs close one by one in the
supervisor's flatten, never the long one while the short one stays; an assigned
short leg becomes stock. Reasons are abstracted to who wrote them. `acted` and
`alarmed` are history: which guard's marker was written since the halt was last
clear, and which assignments have latched a halt. The two modules do not share
variables: this one keeps of the lifecycle what the latch can see, the row of a
position and whether its entry order is working.

### `Outage` (`Loops_proofs`)

The breaker with its unlocked state, failure count and opening time, written by
two threads (`State`, `Send`, `Succeed`, `Fail`, `StampOpened`); the main loop's
tick with its failure counter and the heartbeat it writes or withholds (`Beat`,
`Synced`, `Managed`, `TickFails`, `NewsDone`); the supervisor that reads the
heartbeat's age (`SupervisorLooks`). Time is in units of the supervisor's
interval, and ages are capped at what they are compared with.

### `EntryRules`, `Pipeline` (`_proofs`, `MC_Pipeline`)

`EntryRules` is the arithmetic of an entry without state: the regime's score, the
edge's verdict, eligibility, the sizing with its budgets and tapers, and each of
the gate's checks as a veto over the facts it reads. `Pipeline` runs it in both
threads: a story is heard, marked as seen (`MarksSeen`), meets the account and
the filter (`ReadsAccount`, `Admits`, `Remembers`), the analyst
(`AnalystAnswers`, `AnalystFails`), the edge (`Judges`), the sizing and the gate
(`Decides`) and is entered (`Enters`), dropped or deferred; a tick retries what
was deferred (`StartsRetry`, `Retries`) and may trade the floor (`StartsFloor`,
`EndsFloor`). A thread can be overtaken at each of these steps, and a restart
forgets the seen set, the filter's memory, the deferred stories and the floor's
candidate. Ratios are in percent and truncate where the code has floats.

### `Structures` (`_proofs`, `MC_Structures`)

Legs picked from a chain of quotes, the loss booked on them, the rungs an entry
concedes, the fill that corrects the booking, the close's limit and its
escalations, in cents, rounded as `round` does (`HalfEven` where the code's
decimals are exact, `Rounded` where a float may fall to either side: a mid of
half a cent is one). A position whose legs are not all quoted is not closed
(`Quoted`): `structure_price` raises.

### `Exits` (`_proofs`)

One tick's walk over the open rows (`Tick`, `Walk`), quotes that are missing
(`WalkWithoutQuote`) or end the tick (`WalkRaises`), closes that fill or die, a
story that contradicts, from Thursday to the Monday week. `Strikes` is the set of
barriers that apply and `Decision` the first of them in the manager's order; the
bell's three reasons are `MustNotCarry`; the peak is ratcheted in the store
before the barriers read it. A position a walk finds without a quote survives
that walk, deadlines and expiry included: the properties speak of what the
manager has judged.

### `MarketData` (`_proofs`, `MC_MarketData`)

`_cached` as two threads interleave it: look, miss, ask (`Observes`, `Fails` with
its retries), and keep, some time later and perhaps after the other's newer
answer (`Keeps`). What is made of an answer: a spot from quote and print, the
contracts and the expiry chosen from them, the leg spreads judged over a window.
A failure of the calendar is an answer here ("unknown"), because
`fetch_session` swallows it before `_with_retries` could see it; so is an empty
list of corporate actions.

### `AuditLog` (`_proofs`)

`append` step by step under its lock, the cached hash and the path it belongs to,
midnight, restarts, and a write that fails half way. A hash is a number that no
other line has. `verify_chain` raises on a torn line rather than returning, so
`Verifies` is stated for files without one and `DamageIsConfined` for the rest.

### `Jobs` (`Loops_proofs`)

The scheduler's tick over its jobs, marked after they ran; a crash anywhere. What
the tick has still to run is the set `due`, and the job at hand the first of it
(`Place` is the position in `JOBS`). The
scorer's batch of due rows, oldest first and limited. Days go round.

## 3. The runs

Eleven runs pass; `retry_after_timeout` shows a violation. Deadlock is checked
where the system never stops: both lifecycle liveness and thread runs, the latch,
the jobs, the outage and the cache. `AuditLog`, `Exits`, `Pipeline` and
`Structures` end with their last day or their last position.

| run | bounds | what it shows |
|---|---|---|
| `lifecycle_round_trips` | 2 positions with symmetry, 2 rungs, 1 close and its retry's refusal, 1 crash, main loop only | `MakesRoundTrips` (the refinement), `NoEntryUnderHalt` |
| `lifecycle_threads` | 1 position of 2 spreads, both threads, lost answers, outages, partial fills, late cancels | `BookIsBacked` |
| `lifecycle_restart_liveness` | 1 position, 1 rung, attempts to 3, crash and lost answer | `FedOnce`, `OneInFlight`, `LimboEnds`, `StrayFillHalts` |
| `halt_latch` | heartbeat breach, 1 assignment, 2 flatten attempts, cuts in the flatten | `OncePerBreach`, `BookEmpties`, `KillHolds`, `OwnHaltLifts` |
| `outage` | 2 threads, threshold 5, cooldown 4, 3 failed ticks, a timeout of 6 | `NoStorm`, `StaleMeansSilenced`, `FailureEscalates` |
| `pipeline` | 2 stories of one name, 4 times of a day, 3 quotes, 3 kinds of day, one failure kind at a time or all, restarts | `OneEntryPerSignal`, `HeatBounded`, `LegsDisjoint`, `EntriesAreFresh`, `FloorIsTheException`, types |
| `structures` | 10 chains of 9 or 10 strikes, 4 forecasts, 3 spreads, whole ladders | `BookedLossIsWorst`, `LiquidityKeepsTheShape`, `EscalationConcedes`, `CloseCostIsBounded`, types |
| `exits` | 1 position, 7 times from Thursday to Monday week, 9 marks, 2 releases, a deadline or none | `NothingOverstays`, `WinnersKept`, `LossBounded`, `ObligationsMet`, `EveryPositionExits`, types |
| `market_data` | 2 threads, 5 methods, 3 expiries, 12 readings, lives of 2 and 3, a window of 2 | `ServedWithin`, `SpotIsPlausible`, `LiquidWasReal`, `ExpirySpansHorizon` |
| `audit_log` | 2 processes of 2 threads, 2 days, 4 lines a process, 1 torn line | `ChainsVerify`, `DamageIsConfined` |
| `jobs` | 3 predictions (1 unmeasurable), batches of 2, 3 days with a weekend, 1 crash | `OncePerDay`, `ScoredInTheEnd`, types |

**Why the bounds are enough.**
*Lifecycle:* `system_state` keeps no key over more than one position but the
halt, so one position shows a handler's behaviour and two show what the halt
couples. Two spreads give one partial fill. Two rungs are the configured value;
a third attempt of a close escalates, is refused and is retried; a fourth repeats
the third. A second crash would hit a recovery that is itself a tick.
`MaxAttempt` and `MaxCrashes` stop counters the code does not bound; a close at
`MaxAttempt` is not started. *Latch:* two flatten attempts let one fail and one
succeed, or both leave a leg. One breach at a time is enough for the marker's
identity because the kill switch is always possible as a second guard.
*Outage:* the settings keep the configured order of the cooldown, the poll and
the timeout; one more thread would add what one does. *Pipeline:* a heat cap of
two percent is reached by two entries, as the configured six is by six; one entry
a minute, two a name and one deferral put each counter at its limit; the stories
are a shock that trades at once and a mild one only the floor takes, or a credit
that wants the same contracts. Risk, legs and conditions are choices. With one
name the correlation check counts that name alone. *Structures:*
strikes a dollar apart give wings, notches and holes of one or two; the chains
have an illiquid strike, a far wing only, no bid, crossed quotes, pennies, a
credit as wide as its wings, mids of half a cent, a strike between two others,
and a rally. *Exits:* the times are those between
which a rule changes its answer (a bell, a Friday, a weekend, an expiry), and
the marks lie on both sides of every level. *Market data:* lives of two and three
moments let an entry expire between any two steps; more only repeats. The
readings are those of a stock at 100 and include the extreme one, a print a tenth
high under a quote a tenth higher still, which is why the bound is 21 percent. *Audit log,
jobs:* one torn line, one crash; every later one meets a state like the first's.

**Violation.** `retry_after_timeout`: a lost answer marks the row rejected, the
retry takes the next attempt's id and both orders fill, so `ExposureBounded`
fails where the router's docstring says it cannot. `StrayFillHalts` is what
remains: the excess halts the system.

**Statements the code does not keep.** Six comments and docstrings that the
passing runs' own models refute are kept as definitions next to the properties;
putting the named line into the named cfg in place of its properties shows the
counterexample. `PROJECT.json` quotes the sentence under `findings`, with those
that reading alone shows.

| definition | cfg (module) | what happens |
|---|---|---|
| `OrphanHalts` | `lifecycle_restart_liveness` | a crash after `closing` was written and before the order was recorded leaves a held position nobody will exit, and no halt |
| `HaltMeansDivergence` | `lifecycle_round_trips` | a refused rung leaves `sync` before the sweep; the same tick halts with both books empty |
| `LiftsOnlyItsOwn` | `halt_latch` | the flatten's own divergence replaces the drawdown halt by reconcile's, which lifts after the repair |
| `NewBreachActs` | `halt_latch` | a halt cleared by hand leaves `halt_guard`; under a later reconcile halt the guard's next breach is passed over |
| `SeenAssignmentsHalt` | `halt_latch`, `"alarm"` added to `CutPoints` | dying between the two writes of `check_assignments` loses the alarm |
| `OnlySilenceAlarms` | `outage`, `MaxSpent = 3` | a tick that is slow but well is flattened |
| `HeldOneSided` | `pipeline` (`MC_Pipeline`) | the two threads enter one contract on opposite sides |

`OneEntryPerSignal`, `LegsDisjoint` and `FloorIsTheException` are stated for the
poller alone (a socket that is down): with the stream thread running, both
threads read what neither has written yet. `HeatBounded` is stated for both, with
the one entry in hand as its slack.

**Fairness.** Only liveness uses it. *Lifecycle and latch:* the main loop and the
supervisor loop for ever (`Runner.run`, `supervisor.main`), a crash is followed by
a restart (`docker-compose.yml`), and each handler ends: weak fairness of the
loops and of a thread inside a story, strong fairness of starting a tick, which a
story of the same loop may delay. Orders are for the day, so the broker resolves
each. A row whose lookup keeps failing passes the entry timeout, hence strong
fairness of voiding. The broker's calls do not fail for ever and what may be
closed is closed in the end: strong fairness of reading the book, cancelling and
closing. Nothing is assumed of the operator, of news, of breaches or of a
recovery. *Outage:* time and the loop go on, a call is answered or times out, the
supervisor is not cut off from the account for ever. *Jobs:* the loop comes round
every minute and does not miss the last slot of every evening; a move that can be
measured is, some night. *Exits:* ticks follow one another, quotes come back, a
close that is sent again and again fills.

## 4. The proofs

Nothing is assumed but what the modules name on their constants and the
hypotheses named below, each of them where it is needed. An invariant is rarely
inductive; each section says what carries it from step to step. The proofs have
a lemma per action or group of actions, and under it a step per conjunct that
can be disturbed.

**The lifecycle.** `LifecycleRoundTrip_proofs` begins with what holds for every set of positions, both
thread sets, every subset of the faults and all bounds: `TypeCorrect`,
`BackingHolds`, `BookAlwaysBacked`. `BookIsBacked` is not inductive: `_on_fill`
opens or closes a row because of what a poll returned some steps earlier, and
`_close` closes what a walk read earlier still. `BackingInv` adds what carries
the fact between those steps: a thread that books a fill holds an order that
filled; a row that reads filled is of an order that filled; a close that was
recorded or sent, a row being walked and a position being closed were entered;
and each program counter fits what the thread holds, with room for an attempt
where a rung was decided (`ControlOK`).

For one thread it adds two invariants.

- `BookInv` (`BookHolds`), under every fault: an order that is recorded is older
  than the counter, in flight only while its position is in its transition and
  only if it is the latest of its intent (`RowOK`); the order in a handler's hand
  is that one, and what is about to be recorded is new (`HandInv`); what a loop
  has read still holds when it comes to it (`ReadInv`); a position was fed only if
  it is closed (`FedInv`); an opening order on its way was decided under no halt
  (`HaltInv`). From it follow `LearnersFedOnce`, `OrdersOneByOne` and
  `HaltStopsEntries`.
- `BrokerInv` (`BrokerHolds`), when nothing fails but the process: the broker is
  never further than the row says, a row that is dead is so at the broker, and
  the legs held are those of entries without an exit, but for the order in hand.
  From it follow `NothingDoubled`, the sentence of the router's docstring, and
  `ImplementsRoundTrip`: the initial states map to initial states, and each
  action of the detailed module to a step of `RoundTrip` or to a stutter.

Their hypotheses are where the code is right. `OneThread` (`Threads = {"main"}`)
is the program with the news socket off, the setting in which the comments speak:
with the stream thread, `news_reversal` and the walk can both close one row.
`OnlyCrashes` (`Faults \subseteq {"crash"}`) leaves out the lost answer, after
which the statements are false (`retry_after_timeout`), and the outage in which
`sync` voids an order that filled. Crashes, refused rungs, dying orders and both
ladders are in.

**The halt.** `HaltLatch_proofs`, for every set of breaches, assignments, flatten
attempts and cut-off points: `TypeCorrect`, `LatchInvariant`,
`ActsOncePerBreach`. `MarkerInv` says that, as long as the halt has not been
emptied, the marker names the guard that latched last although others have
overwritten the reason; with it the supervisor's two reads find the breach
handled. `AlarmNotLost`: unless a tick is cut off between marking an assignment
and writing the halt, every seen assignment has halted.

**The log.** `AuditLog_proofs`, for any number of processes, threads and days:
`TypeCorrect`, `LogInvariant`, `ChainsAlwaysVerify`, `DamageStaysConfined`. The
chain is kept by what the threads hold: whoever has the lock has read the last
hash of the file it will write to, a cached hash is that of its path's last line
unless a line was torn since, and what a thread computed before midnight goes to
the file it was computed for.

**Outages.** `Loops_proofs`, for any finite set of threads and every setting:
`TypeCorrect`, `HeartbeatInvariant`, `NoFalseAlarm`, `StormStops`. `AgeInv` bounds
the age of a heartbeat nobody withheld by the time the tick has taken, or by that
and the time rested since. `StormInv` says how far an unlocked breaker can be
overrun: once the count has tripped, every failure too many belongs to a thread
that has still to stamp the opening time (`Opening`), and until it does no time
has passed; half open, any thread may call once more; open again, only the calls
that are on their way (`Sent`) can fail. The bound, two for each other thread,
counts one failure of each before the stamp and one after.

**The pipeline.** `Pipeline_proofs`, for every set of names, stories, quotes,
conditions and risks: `TypeCorrect`, `SignalsEnterOnce`, `HeatStaysBounded`,
`LegsStayApart`, `NewsIsFresh`, `FloorKeepsItsPlace`. `PipelineInv` has three
parts. `StateInv`: what a thread carries at each point of `process_news` was
heard, marked, young and sized. `HeatInv`: the heat of the book with what is in
both hands is under the cap, and one entry more when two threads may decide at
once. `SoloInv`, with the socket off: a signal that was let in has no row, an
order in hand has no contract of the book, and a floor order is in hand only on a
day that has traded nothing, because nothing moves between the look and the entry.
The heat is a sum over the live rows, by a fold of the community modules; what a
fold over a set does when an element is added is proved in the section "Adding up"
by taking a smallest set for which it fails, so no induction scheme is needed.

**Exits.** `Exits_proofs`, for every set of positions, marks, wings, releases and
deadlines: `TypeCorrect`, `NoOverstay`, `WinnersStayWinners`,
`LossStaysBounded`, `ObligationsAreMet`. What `ExitInv` adds (`Riding`) is that a
position that is held after the walk judged it was struck by no barrier at its
mark and with the peak in the store, and that this peak is the best mark there
was (`PeakIsBest`): the statements are then consequences of the barriers' own
arithmetic. `ObligationsAreMet` has the hypothesis `TicksSeeReleases`: a release
between two moments of the model is in blackout at the first of them. The
manager ticks every minute and the blackout begins two hours early, so it sees
every blackout begin; the model's clock jumps hours, and a release that falls
into a jump would say something of that clock and nothing of the code. The
releases of the run satisfy it.

**The scheduler.** `Loops_proofs`, for every set of predictions, batch, number of
days and crashes: `JobsTyped`, `JobsRunOnce`. `OncePerDay` is not inductive, since
a job is started long before it is marked. `OnceInv` says what holds in between,
of the day the tick began on: a job is marked for that day, or at hand, or it was
started no more often than a crash took it away; and what the tick has still to
run was not started since. Midnight may come in the middle of a tick: the mark is
of the tick's date, which is then yesterday's, and a round of days is long enough
that yesterday is not forgotten yet (`Tomorrow`).

**Structures.** `Structures_proofs`, for every spot, set of forecasts and spreads,
and all chains of finitely many quotes in which a right and a strike name one
contract (a chain is of one expiry): `TypeCorrect`, `StructuresHold`,
`LossIsWorst`, `CloseCostsLittle`, `RungsConcede`, `ShapeIsKept`. Three arguments
carry them.

- *Shape.* `_pick` returns a liquid strike or the nearest, so the legs of each
  kind are in order: one short and its wing beyond it, a condor's two pairs on
  either side of the spot, a strangle's two longs (`BuildIs`). `Pick`'s tolerance
  and the increment between strikes bound how far beyond (`WingedKeeps`).
- *Payoff.* The loss of such legs at expiry is piecewise linear in the price of
  the stock, with its corners at the strikes. For each shape the worst corner is
  named, and the width that `max_loss_per_spread` computes is what is lost there
  (`PairWorst`, `CondorWorst`, `StrangleWorst`). With `BookInv` (what is booked
  is the loss at the price asked, then at the price filled) this is `LossIsWorst`.
- *Money.* `LadderInv` keeps the rungs conceded under the cap, to within the
  half cent a rounding adds. `CloseInv` bounds the limit of a close at each
  attempt by 112 percent of the last, and the three escalations together by 41
  percent of the mark and two cents.

A sum over legs has at most two terms on a side, so no induction is needed
(`FewAddUp`).

**Market data.** `MarketData_proofs`, for any number of threads, theses, listings,
legs and times to live: `TypeCorrect`, `MarketInvariant`, `AnswersAreFresh`,
`ChainOutlivesThesis`, `SpotIsNoFluke`, `LiquidIsLiquid`. An entry's real age is
at most its stamp's and a call (`EntryInv`), and it is served only while the stamp
is young. A list of expiries starts at the horizon of whoever asked: in a
thread's hand (`ExpiryInv`) and in the cache, where the key carries it
(`ListInv`). `SpotInv` bounds every spot in a hand or in the cache; its hypothesis
`PrintsNearby` says what the broker may show in a bad hour, and the run's module
assumes it of its readings. `SpreadInv` follows a fair spread: a chain in a hand
or in the cache that shows one is as old as the trace says, a history has an
entry for each fair spread recorded, and a median that is fair has a fair spread
under it (`Kth`, an order statistic, and the lemmas about it).

**What the proofs changed.** Three statements were wrong and are corrected.
`LiquidityKeepsTheShape` said that a wing is within two widths whenever a strike
within the width trades; with strikes that are not evenly spaced it may be nearly
three, and the run has a chain that shows it.
`SpotIsPlausible` said a fifth; a print a tenth off and a quote a tenth off that
print make 21 percent. `Outage` did not say that its threads are finitely many.
The assumptions on the constants of `Exits` and `Pipeline` that a proof asked for
(times are numbers, days have their fields, risks are positive, phases are not
empty) are what the configuration and the types of the source give, and so are
those of `Structures`; that bid and ask have a mid of whole cents was assumed there
and is no longer. A close whose legs are not all quoted was missing a guard.

**Only model-checked.** Liveness under fairness (`LimboEnds`, `StrayFillHalts`,
`BookEmpties`, `KillHolds`, `OwnHaltLifts`, `FailureEscalates`,
`EveryPositionExits`, `ScoredInTheEnd`), which needs ENABLED. `ExposureBounded`,
`FedOnce` and the rest of the book with both threads, where the statements are
TLC's on small instances or false.

## 5. Not modelled, and the plan

Audit records, wording, greeks and the analyst's prompt are abstracted
everywhere. The refinement covers one structure per position: a second structure
that shares a leg with the first is outside the reconcile band modelled here. An
exception in `check_assignments` goes on to the guards rather than to the next
tick; `CutOff` covers the death of the process at that point. The analyst is a
field of the story, the learners' statistics are counted and not computed, bars
and greeks are choices. Preflight, configuration, the dashboard, reports, replay,
soak and verification tools are I/O or offline and stay out.

What would come next, in order:

1. `GuardBands`: the session baseline's two writes and the ratcheting peak
   (`supervisor/guards.py`), now a choice of `HaltLatch`.
2. The reconcile band over shared legs as an operator against a reference that
   enumerates partial fills; the repair's matching of prices.
3. `BookInv` for both threads: which of its conjuncts survive the stream thread
   and which need the position split by the thread that moves it.
