# Optivio in TLA+

TLA+ models of the parts of Optivio that keep state and interact: the multi-leg execution engine with its
reconciliation, the event bus, the runtime orchestrator, the two stores, the stream supervisor, paper trading through one account,
the promotion of policies, the message bridge, the worker pools, the contract master and the quote cache; operators for the algorithms worth comparing with a reference (gates,
routers, folds, backtests, the offline gate); TLC runs that check them on small instances; and TLAPS proofs of what matters most for every
instance.

    tlc -workers 2 -config MCLifecycle.cfg MCLifecycle
    for m in Sums *Proofs.tla; do tlapm ${m%.tla}.tla; done

## 1. Inventory

Paths are under `src/options_agent/` unless they start with `src/`.

| Component | State | Operations | Talks to | Hard behaviour | What makes it correct |
|---|---|---|---|---|---|
| Legs and packages, `execution/multileg.py` | a leg's state and fill count | `Leg.apply`, `strategy_state`, `GreeksRiskGate.approve` | the engine | late, repeated, reordered events | count and state agree, no overfill |
| Execution engine, `execution/lifecycle_engine.py` | packages, sent ids, the reconciliation block | `register`, `submit`, `apply_fill`, `reconcile`, `recover_unknown` | broker (calls), callers (reports), reconciler | exception in the middle of a package, lost acknowledgements, restart | nothing sent twice, skipped, or sent while blocked; nothing booked that was not executed |
| Reconciler, `execution/reconciliation.py` | last result, package blocks | `reconcile` | engine, periodic check | reports in flight; legs without an expected order | no mismatch missed, no lasting false alarm |
| Periodic check, `execution/live_ops.py` | exposure block | `check_once`, `run` | reconciler, packages | a snapshot that raises | blocks exposure, and lets go again |
| Event bus, `data/live_market.py` | queue, seen keys, last sequence, counters | `publish_nowait`, `publish`, `consume` | publishers, handlers | guards read before an await, timeouts, raising handlers | order and uniqueness per stream, every event accounted for |
| Orchestrator, `orchestration/runtime.py` | state, mode, gates, ready components | `start`, `preflight`, `invoke`, `mark_synchronized`, `pause`, `stop`, `recover`, `reconnect` | operator, adapters | methods that release the lock between assignments | paper runs only when synchronized, a start never hangs |
| Durable event store, `data/durable_store.py` | SQLite journal | `append`, `replay`, `verify` | any process | several writers, crashes | a contiguous hash chain |
| Execution state store, `execution/state_store.py` | JSONL file, cached last hash | `append`, `verify_chain`, `feedback` | live loop | stale cache, torn or unended line | what was returned stays chained, feedback respects the cutoff |
| Stream supervisor, `data/alpaca_resilient.py` | health, attempt, stop | `run`, `stop` | stream SDK | retries, stop during backoff | retries bounded, stop obeyed |
| Paper loop and gate, `execution/live_paper.py`, `risk_gate.py` | bounded deque, halted | `push_quotes`, `process_once`, `halt` | gate, submitter, account | full queue, stale snapshots, a halt in a batch | nothing dropped silently, limits overrun by a bounded amount only |
| Adapter, MCP server, CLI, `execution/alpaca_adapter.py`, `mcp_server.py`, `cli.py` | environment of a process | `mcp_submit_order`, `account_snapshot`, `submit_paper` | broker, gate, `.env` | several processes on one account, ids of one second, failing reads | callers are told of their own orders, a stop takes effect |
| Configuration, `config.py` | none | reading of limits and `.env` | gates | values below their bound, NaN | defaults where the code promises them |
| Champion/challenger, `validation/online_rl.py`, `rl_champion.py`, `offline_rl.py` | champion, challenger, halted | load, record, promote, roll back; evaluate, decide | policies | any order of calls; evidence known in time | one active policy, promotion on evidence |
| Bridge and native gates, `src/rust`, `src/cpp`, `src/ocaml` | previous sequence | frame validation, gates, routing | Python | widths, NaN, disagreement between languages | same verdicts |
| Router, quote builders, `execution/smart_router.py`, `data/quote_store.py` | none | `choose`, `build_quote_*` | adapter | unusable prices, ties | the first of the cheapest |
| Quote cache, `data/quote_store.py`, `mcp_server.py` | the last quote of each symbol | `record`, `get_fresh`, `stream_handler`, `mcp_get_quote` | broker, stream, contract master | answers and events recorded in order of arrival | never falls behind what it held when all had arrived |
| Folds, `data/point_in_time.py` | none | `purged_walk_forward`, checks on rows | training | boundaries | no leakage |
| Backtester, `validation/backtest.py` | cash | `run` | strategies | limits, slippage, fees | no look-ahead, no free gains |
| Worker pools, `models/parallel_engine.py`, `orchestration/agent_hub.py` | thread pool | `infer`, `close` | agents | raising agents, `close` during `infer` | failures stay alone, calls end |
| Registry and artifacts, `validation/strategy_registry.py`, `models/artifacts.py` | candidates, promoted | register, promote | evaluation | order of calls | promotion only by evidence |
| Contract master and stream adapter, `data/live_market.py` | contract records | `upsert`, `refresh_contract_master`, `on_quote` | paged API | failure between pages, refreshes that overlap | never falls behind a refresh that went through |

The numeric parts (signal models, pricing, evaluation, training) are functions on arrays of reals and are not
modelled. `PROJECT.json` lists every component and every hazard with its line.

## 2. Modules

    MultiLeg                operators: one leg, package state, greeks limits
      LifecycleEngine       the engine, the reconciler, the broker behind it
        MCLifecycle         instance for TLC
        LiveReconciliation  engine and periodic check together
          MCLive
          LifecycleEngineProofs  the engine, alone and beside the check
    EventBus                publishers, queue, consumers
      MCEventBus
      EventBusProofs
    Orchestrator            supervisor, operator and adapter threads
      MCOrchestrator
      OrchestratorProofs
    HashChain               abstract: a log whose records chain
    DurableStore            processes that append to one journal; implements HashChain
      MCDurableStore
      DurableStoreProofs
    Gates                   operators: the risk gate of Python, Rust and OCaml
      PaperTrading          callers, paper loop and account behind one broker
        MCPaper
        PaperTradingProofs
      Routes                operators: quotes built and chosen, in Python and C++
    StateStore              one file of chained lines; implements HashChain
    StreamSupervisor        the reconnect loop
    Bridge                  sender, transport, readers in Rust and C++
    Returns                 operators: compounded rewards and their drawdown
      PolicyPromotion       online champion and challenger
      OfflinePolicy         operators: the offline gate
    WalkForward             operators: folds and checks on rows
    Backtest                operators: matching, fees, cash
    WorkerPool              infer() and close() of engine and hub
    ContractMaster          refreshes of the contract master, page by page
    QuoteStore              the cache of quotes, its stream and its callers
      MCComponents          one instance of each of these, chosen by `part`
        ComponentsProofs    policies, contract master, quote cache, bridge, worker pools, state store
        AlgorithmsProofs    gates, routers, folds, rows, backtests, offline gate
    Sums                    lemmas about sums over finite sets, for the proofs

Operators marked "Mutant of" are deliberate errors; they are used by no specification, only to confirm that each
property can fail.

### MultiLeg and LifecycleEngine

`legs` holds the mutable half of every `Leg`; client id, symbol, side and quantity are constants. `registered`,
`greeks`, `pkgBlocked` are the engine's packages, `submittedIds` and `reconBlocked` its own fields. `submit()` calls
out to the broker once per leg and an exception there leaves the loop, so it is `SubmitBegin`, then `SubmitSkip`,
`SubmitAcked` or `SubmitRaised` per leg, then `SubmitReturn`; every other method is one action. An exception of
`Leg.apply` leaves the leg unchanged (`Apply`). The engine is single-threaded, so its methods need `Idle`.

The broker is external. It accepts an order under a fresh id, fills and ends it at any time, and keeps the fills
and ends it has not reported (`unreported`, `endReport`). Reports reach the legs in any split and order of legs
(`DeliverFill`, `DeliverEnd`). Each deviation is a named fault, allowed by `Faults` and counted by `MaxFaults`:
a refused or lost submission, a lost, repeated or reordered report, a caller that marks a leg uncertain or expires an
unsent one, `recover_unknown()`, a restart that loses the engine's memory. A snapshot is the broker's true state
at the moment of `Reconcile`; it lists ended orders too (with live orders only, filled legs would block for ever).

### LiveReconciliation

Adds `ContinuousReconciliation`. It shares the packages with the engine, writes their blocks and its own
`exposureBlocked`, and has no access to the engine's block. In the code nothing calls `engine.reconcile()`; the model
lets the owner call it at any time.

### EventBus

A step is what a task does between two suspension points. `publish()` with a timeout reads the guards
(`PublishBegin`), waits for the queue (`Put` or `PutTimeout`), and updates the guards (`PublishEnd`): `wait_for` runs the put
in a task of its own on the interpreter the CI uses (3.11); where it does not, the steps merely follow each other.

### Orchestrator

The lock protects single assignments. `start()`, `reconnect()` and `invoke()` are therefore jobs of several steps
(`pc`), and the methods that hold the lock throughout are one action. A component refused in `start()` halts it in a step of its own (`HaltRefused`), since
`invoke()` has let go of the lock by then. The dependency table and both sequences are
the program's own. The environment's kill switch is a free choice each time it is read. Gates are a function
from names to passed, failed or absent, since `mark_synchronized()` replaces by name and `preflight()` replaces all.

### DurableStore and HashChain

`append()` is split at its statements: `Call`, `BeginImmediate`, `SelectLast`, `Insert`, `Commit`, `Return`. `row` is
what a process knows of its row so far, and what its open transaction has inserted; `table` holds committed rows
only, so that rolling back, and dying, leave it alone. `lock` is SQLite's write lock. The wait for it can end by the
busy timeout (`BusyTimeout`), every statement after it may raise (`Raise`: roll back, close), and a process may die anywhere
(`Die`: SQLite drops its transaction). `Commit` and `Return` are separate: a process can die, having committed, before
its caller knows. Payloads are abstract. A hash is the sequence of all that was hashed into it, hence free of collisions.

`HashChain` is what the store promises: records are added at the end only, one at a time, numbered from one, each with the
hash of the one before. The refinement maps the rows of `table` to its records (`Records`); `Commit` is its `Extend`,
every other step a stutter. `Verify` is `verify()`, which takes the schema version of the store that runs it.

### Gates and PaperTrading

A gate is the list of its refusals in the order the code tests them, and its verdict the first that applies. A float is the set
of the integers it equals: `{}` is NaN, so that comparisons with it are false by themselves.

`PaperTrading` puts both ways of placing single orders on one account. `CallTool` is `mcp_submit_order` up to the admission (the arguments,
the contract, the snapshot, the settings, the gate), and `PlaceAcked`, `PlaceUnacked` or `PlaceRefused` is `submit_paper`; what happens
between them is the hazard. The loop's owner reads the account (`LoopSnapshot`) and calls `process_once`, which is `ProcessOnce` and
one `NextIntent` and placement per intent: an intent the gate refuses is passed over (`PassedOver`), and the batch goes on. `LoopAmounts` are the notionals each intent of a
batch may have. `environ` is what a process has of `OPTIVIO_KILL_SWITCH`: `account_snapshot` reads it, then
`RiskLimits.from_env` loads `.env` (`Loaded`), which sets only what is not set. Positions are what filled orders add up to; a failing read
counts as none, as in the code (`ReadPositions`, history `blind`). `IsValid` is `RiskSnapshot`, which raises on negative holdings.

### StateStore

`Write` is `append()` up to the end of its write, `Return` its last two lines. In between the process may die (`Die`), or `append()` may raise with the line
written and the object live on (`Raise`). `WriteShort` is a write that ends early, before its first character, within the text or between the text and the line feed, by an
exception or a death. The next text is glued to a last line without a line feed (`Put`), and the two do not parse. The constructor (`Open`) raises on a line that
does not parse, and takes a last line that lacks only its line feed for good. `kept` remembers the lines whose `append()` returned and those a later object found whole at the
end of the file; `Records` maps them to records of `HashChain`.

### StreamSupervisor

`run()` cut at its awaits (`at`): connecting, serving, waiting. Errors it catches (`Fail`), others (`Break`), a stream that ends by
itself (`Served`), cancellation and `stop()` are actions of their own.

### Bridge

The readers refuse a sequence that is not ahead of the last; they accept gaps and read no timestamp, other than the documentation says (section 3).
Frames are sequences of bytes with `Base` values, so that widths and offsets are those of the code while numbers stay small. The transport repeats,
reorders, loses, shortens and lengthens frames and changes their version and length. The C++ reader starts at sequence zero,
the Rust reader with none: they agree because the sender starts at one. `Weight` lists the powers of `Base` up to the eighth as products, since the provers
do not compute with `^`.

### PolicyPromotion, OfflinePolicy and Returns

A reward is the exponent of a power of two, which keeps compounding exact: a curve is two to a sum, a drawdown a fall of that sum. `Promote` is
`evaluate_and_promote` of a candidate that passes (any other changes nothing). In `OfflinePolicy` the metrics that are not
numbers in the code are evaluations marked degenerate.

### Routes, WalkForward, Backtest

Algorithms as operators beside a reference: both routers against "the first of the cheapest that are large enough"; folds against
the windows and embargoes of every earlier fold; a backtest against its own prefixes and the market of each time.

### WorkerPool

Clients run `infer()`, another thread `close()`. Futures are pairs of a client and an agent; the executor (queue, workers, shutdown) is
external. The engine collects in the order of its models (`Collectable`), the hub as futures complete, then sorts (`Arranged`).

### ContractMaster

The broker's listing (`listed`: symbol to version, and whether its row is good, invalid or malformed) changes at any time. A task that runs
`refresh_contract_master` awaits a page (`FetchPage`, `FetchFails`), and its rows arrive in a step of their own (`TakePage`): a
malformed row makes `from_alpaca` raise before anything is upserted, an invalid one stops `upsert_many` at its place, and both end
the refresh. `floor` remembers what a refresh that returned, and had no other beside it, has made sure of.

### QuoteStore

`GetQuote`, `Serve` and `Answer` (or `Fails`) are `mcp_get_quote` with the broker's reply in between; `Handle` is `stream_handler`. A quote is the time it
was made. `Fresh` is `get_fresh`, which tests the age only with a clock, and `AttachClock` says when there is one. `settled` remembers what
was cached of a symbol when nothing of it was last on its way. The repository connects stream and clock to the store in its tests only.

### MCComponents

These components share no state, and the repository connects none of them to another, so their behaviours are explored one at a time: `part` names the one that moves, the
others keep their initial state, and the state spaces add up instead of multiplying. Each input of an algorithm is an initial state.

## 3. Runs

| Run | Instance and bounds | Shows |
|---|---|---|
| `lifecycle` | spread of two legs (2+1 contracts) and a single leg sharing a symbol; any 2 faults; 765 thousand states | legs stay consistent; live legs have an order and are recorded; nothing over-booked; reconciliation misses no mismatch and gives no false alarm; nothing is sent while blocked; `submit()` leaves no leg planned |
| `live` | one spread and a package with greeks only; 1 refusal or failed check | interrupted submissions are completed, blocks are passing, approved greeks add up within the limits |
| `event_bus` | 2 publishers with one stream each, 3 sequence numbers, queue of 2, a consumer whose handler may raise, 5 calls | order per stream, every call and task counted once, no lasting backpressure, delivery |
| `orchestrator` | operator and adapter, 3 jobs or recoveries, any number of pauses, stops and reports; 356 thousand states | paper runs synchronized, recovery drops synchronization, only recovery blocks a sequence, preflight passes |
| `durable_store` | 3 processes, 2 events, one schema version, 3 rows; 60 thousand states | the journal implements `HashChain`, verifies at every moment, keeps what was returned; every append ends and the lock is released |
| `paper` | 2 callers (MCP and CLI) with a call each or two of one, a loop with 3 batches of 2 intents (of 100 and 200) and a queue of 2, 1 resting order, 1 fault; 2.24 million states | callers are told of their own orders only; no batch is lost or overtaken; how many orders pass after a stop; how far the limits are overrun |
| `components` | supervisor with 3 retries; 4 lines; 3 frames; 3 policies with 2 outcomes each; 2 calls of 2 agents on 1 worker; 2 refreshes over 2 pages and 2 versions; 2 callers of 1 symbol, 4 ticks, 2 stream events; 221 thousand inputs; 581 thousand states | see `MCComponents`: `StreamRunEnds`, `StoreIsHashChain`, `BridgeInOrder`, `OnePolicyTrades`, `PoolAnswers`, `MarketSettles`, and for the inputs `NativeAgrees`, `ResearchLeaksNothing` |
| `uncertain` | violation of `NoOrderWhileUncertain` | an uncertain leg blocks its own package only |
| `exposure` | violation of `ExposureInLimit` | holdings present at registration leave the aggregate |
| `expired` | violation of `ClosedLegHasNoLiveOrder` | a leg that expired unsent is sent and never compared |
| `duplicate` | violation of `EachEventOnce` | two publishers of one stream get an event through twice |
| `kill_switch` | violation of `KillSwitchHalts` | a start the kill switch halted runs after the next synchronization |

**Why the bounds suffice.** Two faults combine every pair (a lost acknowledgement and a restart, a lost fill and
a reordered end). A quantity of two gives partial fills; two legs give a package broken in the middle; two
packages share a symbol so that positions aggregate. One side per symbol is deliberate: with opposite sides
of one symbol, fills of legs that are not compared one by one can cancel in the position, which is a hazard listed
in `PROJECT.json`. `UnblockedOnlyInAgreement` excludes repeated reports for the same reason: an over-booking
of one leg hides the lost fill of another. A queue of two with five calls gets full, is drained, and stays full under a waiting put once the consumer has ended; the
bound on calls is why that run may stop (deadlock is not checked there). Three jobs give a start, a recovery in its
middle and another start. Three processes let two wait
while one works, and three rows have a first, a middle and a last one; the bound on rows is why that run may stop.

`paper`: an order limit of 200 and an open limit of 300 are passed by two orders that do not see each other; callers may draw the same second; one fault gives the blind
snapshot, the lost acknowledgement and the refused submission; one resting order is what a snapshot cannot see. A queue of two and three batches let one batch wait behind another, and a third meet a full queue; the two
notionals of an intent differ, so that one is refused and the next admitted. The loss of the day stays zero in this run, as it only ever makes the gate refuse; the loss limit is
among the inputs of `NativeAgrees`. Calls, batches and the clock are bounded,
which is why the run may stop. `.env` starts without the switch; the case of a process that loaded `false` is an exception
named in `LateOrdersBounded`. `components`: three retries give a budget with a middle; four lines a torn one between whole ones, a
glued one, and a record after one that was written and not returned; three frames an overtaking and a repetition; bytes of two values still give fields of more than one byte; three policies give one that is neither champion
nor challenger; two outcomes a fall and a recovery; one worker for two calls of two agents gives a full queue when `close()` comes; two pages and two versions let one refresh overtake another
between its pages; two callers and a feed of two let answers and events pass one another, and four ticks an age beyond the limit of one. Folds are checked for
all sizes up to 9 rows, routers for up to 3 quotes, backtests for two times with up to two intents. Components stop when
their bounds are reached, so deadlock is not checked.

**What is left out of the instances.** In the orchestrator's run, owners call `start()` and not `preflight()` alone:
the bare call drops the gates of a running runtime and sets its mode, so `PaperRunsSynced` does not hold with it
(listed as a hazard). A start of a running runtime clears the gates one step before it takes the state away;
`PaperRunsSynced` names that step (`decide`).

**Fairness.** `live`: of the code itself, `run()` (`execution/live_ops.py:58-64`) checks again and again and a started `submit()` ends (`CodeGoesOn`). The rest is assumed of those
around the engine, none of whom is in the repository (`CallersGoOn`): a caller whose `submit()` raised calls again, an owner reconciles, somebody delivers what the
broker reports. `LegsEventuallySent` and `BlocksAreTransient` hold under that assumption only. The engine's calls take turns on one thread. A retried call gets its turn although others keep
occupying the engine, hence strong fairness for calls that start from an idle engine and weak fairness for a started
`submit()`; the broker works off live orders; nothing forces a registration or a fault. `event_bus`: the event loop
runs ready tasks, a put without room ends by its timeout, handlers end; nobody must publish or raise. `orchestrator`: a
thread that runs a job goes on with it; nobody must call anything. `durable_store`: an `append()` under way goes on to its
end, by whatever branch; nobody must call, raise or die. A process may lose the lock to others again and again, so
`AppendEnds` rests on the busy timeout; the fairness is weak, and for the whole of `append()` at once. `components`: the event loop resumes
`run()`, its waits end by their timeout and an attempt to connect comes to an end; nothing makes a served stream end, and `RunEnds` says so. A thread
in `infer()` goes on, workers take futures, agents end, `shutdown` joins; nobody must call `infer()` or `close()`. `paper` has no liveness
to state: a process may stop anywhere.

**What the runs bring to light.** Five disagreements have runs of their own. Others are in the models and named by the properties: the
kill switch of `.env` takes effect one order late in each process, hence never for the command line, which is a process per order, and never in a
process that loaded `false` before (`LateOrdersBounded`); a failing read of positions opens the gate (`OverrunBounded` excludes it); short
positions make `account_snapshot` raise (`IsValid`); `rollback()` makes a champion of any challenger; a supervisor whose stream raises another
error ends and keeps showing `connected`; a quote once cached is served at any age, although `get_fresh` promises a fresh one, since nothing attaches
a clock; a limit from the environment that is NaN disables the Python gate and closes the Rust one; both readers of the bridge accept a gap in the sequence and any timestamp
(`src/rust/optivio-risk/src/bridge.rs:63`, `src/cpp/route_core/bridge.cpp:31`), and count nothing, while `src/docs/message_bridge.md:7` says: "Any unknown version, invalid length, NaN, stale timestamp, or
sequence gap is rejected and increments a safety counter" (`FramesInOrder` states what the code does); in the execution state store a last line without its
line feed is read as good, and the next record is glued to it, so that a record that could be read is lost with the whole file
(`execution/state_store.py:39-42`, `:55`); and an `append()` that raises with its line written leaves `_last_hash` as it was (`:57`), so that the next record names the one
before both, `verify_chain()` fails, and a retried event stands twice in the feedback (`IsHashChain`, `VerifyTells` and `FeedbackStays` say exactly how far this goes).

## 4. Proofs

All theorems hold for every value of the constants that satisfies the named assumptions of the modules (`StaticAssumption`, `BusAssumption`, ...),
which TLC evaluates in the runs: any packages, legs, threads, publishers, processes, callers, quantities, limits, faults and bounds. A theorem that
needs more says so in its statement (`ASSUME ... PROVE`); the table names it.

| Module | Theorem | Property | Further hypothesis |
|---|---|---|---|
| `LifecycleEngineProofs` | `Invariance` | the inductive invariant `IInv` | |
| | `TypeCorrectness`, `LegConsistency`, `LiveLegs`, `Booking` | `TypeOK`, `LegConsistent`, `LiveLegHasOrder`, `NeverOverbooked` | |
| | `BlockHolds` | `NoOrderWhileBlocked` | |
| | `SubmitCompleteness` | `SubmitLeavesNoLegPlanned` | `DistinctClientIds` |
| | `NoAlarm` | `NoFalseAlarm` | `DistinctClientIds` |
| | `NoMissedMismatch` | `UnblockedOnlyInAgreement` | `DistinctClientIds`, `OneSided`, no tolerance |
| | `BookedGreeks`, `LiveBookedGreeks` | `BookedGreeksInLimit` | `NothingHeld` |
| | `LiveInvariance`, `LiveBlockHolds` | `IInv`, `NoOrderWhileBlocked`, of `LiveSpec` | |
| `EventBusProofs` | `TypeCorrectness`, `Accounting` | `TypeOK`, `EveryCallAccounted` | |
| | `SequenceGuard`, `Deduplication` | `StreamOrder`, `EachEventOnce` | `OneOwner` |
| `OrchestratorProofs` | `TypeCorrectness`, `Recovery`, `DependencyOrder` | `TypeOK`, `RecoveryUnsynced`, `OnlyRecoveryBlocks` | |
| | `Synchronization` | `PaperRunsSynced` | `OneStarter` |
| `DurableStoreProofs` | `Invariance`, `TypeCorrectness`, `Durability` | `IInv`, `TypeOK`, `ReturnedIsDurable` | |
| | `Verification` | `JournalVerifies` | `OneSchema` |
| | `Refinement` | `IsHashChain` | |
| `PaperTradingProofs` | `TypeCorrectness`, `OwnOrders`, `Batches`, `LateOrders` | `TypeOK`, `OrdersAreOwn`, `BatchesAccounted`, `LateOrdersBounded` | |
| | `Overrun` | `OverrunBounded` | `FiniteLimits` |
| `ComponentsProofs` | `OnePolicy`, `MarketData`, `FramesOrdered` | `OnePolicyTrades`, `MarketSettles`, `BridgeInOrder` | |
| | `StoreRefinement` | `StoreIsHashChain` | |
| | `AgentsFailAlone` | `FailuresIsolated`, the invariant in `PoolAnswers` | |
| `AlgorithmsProofs` | `SpecNativeAgrees`, `SpecLeaksNothing` | `NativeAgrees`, `ResearchLeaksNothing` | |
| | `GatesAlike` | `GatesAgree` | a multiplier of at least 1 |
| | `RoutesAlike` | `RoutesAgree` | prices whole or NaN |
| | `FoldsLeakNothing`, `RowsAreKnown` | `NoLeak`, `PrefixesKnown` | a step that is a natural number |
| | `BacktestsSound` | `BacktestSound` | quotes not crossed, costs and fees not negative |
| | `OfflineGateSound` | `OfflineSound` | wealth whole in its unit, an advantage above 0 |

**The hypotheses** are what the properties need, not what the provers need.

- `DistinctClientIds`: no two legs have one client id. The code never checks it; with two legs under one id
  `submit()` takes the second for sent and skips it.
- `OneSided`: the legs of one symbol are all bought or all sold. Fills of opposite sides cancel in the position `reconcile()` compares, so a drift of two legs that are
  not compared one by one can hide (a hazard in `PROJECT.json`). Under a tolerance a drift within it is no mismatch.
- `NothingHeld`: packages hold nothing when they are registered. The run `exposure` shows the property fail with holdings.
- `OneOwner`: each stream has one publisher. The run `duplicate` shows `EachEventOnce` fail with two.
- `OneStarter`: one thread starts the runtime, and nobody calls `preflight()` alone. Otherwise gates and mode of a running runtime are replaced under it
  (a hazard in `PROJECT.json`).
- `OneSchema`: all processes write one schema version, since `verify()` hashes every row with its own.
- `FiniteLimits`: order and open limit are numbers. `RiskLimits` from the environment may be NaN or infinite, and then bound nothing.

**Of the algorithms** the hypotheses are the inputs the code can be given: limits, snapshots and prices are floats (`Float`: NaN, numbers, infinity), raw quotes
the same without infinite prices (their costs are NaN, which a cost as a fraction does not express), sizes of folds integers with a step not negative (0 stands for
none), rows any integers, quotes of a backtest not crossed and not negative. `OfflineGateSound` asks for wealth that is whole in the gate's unit, as the comparison in the code
is of numbers and not of their roundings.

`BridgeAssumption` says that magic, version, kinds and sequences fit their fields, as the types of the code do; `PoolAssumption` that agents are given as sequences, which
differ in their order only. Two clauses are of the model rather than of the code: in `PolicyAssumption` and `InputsAssumption` wealth is a power of two in a unit small
enough to make it an integer. `InputsAssumption` also says that the finite numbers of the inputs are below `Infinity`.

**The inductive invariants.**

*Engine.* `NeverOverbooked` is not inductive: a delivered fill is booked only because a leg that takes fills has an order, and a
new order starts at zero only because a leg without one has booked nothing. `IInv` therefore adds to the types
well-formed legs, live legs recorded with an order, ids without an order free of fills and reports, and,
for the block, that a `submit()` under way started unblocked and that an unblocked engine has a last result of ok. `SubmitCompleteness` adds `SentInv`: a recorded id belongs to
a leg that is no longer planned, and the loop has left none behind. `NoAlarm` adds `CalmInv`: as long as nothing went wrong, a leg is planned exactly until it has
an order, working until it knows the end of it, and lacks no contracts but those not yet reported; then booked and true positions are sums over the same
legs, renamed by their client ids. `NoMissedMismatch` turns this around: no leg books more than its order executed (`NeverOverbooked`), so equal sums leave
no leg that books less (`SumTight`).

*Event bus.* `AtHand` (a publisher that is not idle has an event of its streams) makes `EveryCallAccounted` inductive. For the order, `GuardKnows` says that
what was stored has no larger number than the guard, unless its publisher is between its put and its update of the guard; `HandIsNewest` that a waiting event
has a larger number than the guard, and one just stored the largest of its stream. With a second publisher, which may move the guard meanwhile, both are false.

*Orchestrator.* `PlanInv`: the rest of every sequence fits the components that are ready, unless `recover()` has emptied them meanwhile. `ModeInv`: between
publishing and finishing, the mode is that of the start under way.

*Durable store.* `LockInv`: exactly the process in a transaction holds the lock, so that the row it has worked out still continues the journal when it commits
(`RowInv`); rows are numbered and chained (`ChainInv`); a committed row is in the journal until it is returned (`CommittedInv`). Without the lock, two
processes read one last row and the second commit breaks the chain: the mutant `BeginDeferred`.

*State store.* `StoreInv`: the kept lines are chained, each with as many hashed events as its number (`KeptChain`), and the object's cached hash is that of the last of them,
or becomes it when the `append()` under way returns. As long as the file parses, every line names the kept line before it (`Chained`), whoever wrote it: so `verify_chain()` fails exactly
where a line that is not kept is followed by another. A file that does not parse stays so, and no object is made on it.

*Paper trading.* `IInv` says where each order, batch and late order came from. `OverrunBounded` weighs orders that exist together with those that may still be
placed: `Whole` adds to the open orders what every caller past its gate, and the rest of a batch, may add; the rest of a batch weighs for each remaining intent the most its snapshot admits (`Share`), whatever was passed over. Placing an order moves its amount from one part to
the other; only a gate's decision adds to the whole, and the gate that admits has seen all but the intents of the others.

*Policies.* `OneActivePolicy` is inductive with the types; that a promotion settles needs that the demoted champion is worth less by the margin, until the next outcome.

*Contract master and quote cache.* What is cached or on its way lies between what was settled and the latest there is (`QuotesInOrder`). Rows on
their way are no older than `floor`, and a refresh that runs alone has brought in the pages before its own (`RowsFit`, `PagesIn`).

*Bridge.* `BridgeInv`: every frame on the wire was written from a header that was sent, and what either reader has accepted are sent headers in their order, up to
the last sequence, which is that of the last frame accepted. Its step for the readers rests on the layout: the digits of a number that fits its field add up to it again (`ReadBack`, by the
division with remainder at every byte), so that `Field` of an encoded frame is the header's (`Encoded`, `Decoded`); a byte changed changes the number its field is
read as (`OtherValue`), and a frame cut or lengthened is not as long as it claims, so that neither reader takes either (`ChangedRejected`).

*Worker pools.* `FailuresIsolated` speaks of calls that have returned; that they return what they should is prepared while they collect. `PoolInv` says: a future
waits once or is worked on, not both, and is not done (`OneAtATime`); only what was submitted gets there, which since agents differ keeps a
submission from meeting a future of its own call (`OnlySubmitted`); what a call has collected is what the agents gave, in the order of the models in the engine, and in the hub
of as many agents as there are results, so that a full collection has one of each (`Gathered`, by cardinality); a future that is done keeps its outcome
(`Kept`); a pool that is shut down has nothing to begin (`ClosedIsEmpty`).

*Inputs.* `InputChosen`: the input is one of `Inputs` and never changes. The rest of `SpecNativeAgrees` and `SpecLeaksNothing` are the theorems below.

**The algorithms.** The loops of the code are folds, which the community modules define by a recursion on sets of positions. `RecursionHasSolution` shows by a smallest
counterexample that this recursion has a solution, `RecursionRuns` turns it into an accumulator along the positions, and facts about it go up by
`CountUp`. So the router's scan is at each position at the first of the cheapest so far (`ScanFinds`), a list that is filtered or built with gaps keeps its order
(`Thinned`), and a run that is cut books what the whole run books (`CutBooksTheSame`). The two routers agree because the quotes of one contract have places in the list of
all that keep their order, and a first of the cheapest is unique (`OneFirstCheapest`). `FoldsLeakNothing` rests on `TrainsBefore`: the
training rows end before the test window of every earlier fold. A backtest gains nothing at one time since what is bought and sold adds up to nothing class by class
(`SumByClass`), at prices that straddle the quote. `GatesAlike` lists the refusals of each language as decisions in their order (`PythonVerdict`, `RustVerdict`) and compares them.

**Sums.** The sums of the community modules are recursive functions on the subsets of a set, and theorems of the library that take a predicate as parameter
cannot be used. `Sums` obtains induction over a finite set from the well-foundedness of proper inclusion: were there subsets for which a fact did not
hold, there would be a smallest one. From it follow that the recursion has one solution, and what sums do under an update (`SumUpdate`), a renaming (`SumRename`), a
comparison (`SumTight`) and a bound (`SumBound`).

**Model-checked only.** Liveness (`LegsEventuallySent`, `BlocksAreTransient`, `PublishReturns`, `StoredIsDelivered`, `PreflightPasses`, `AppendEnds`,
`LockIsReleased`, `StreamRunEnds`, the ending in `PoolAnswers`) is out of the provers' reach. Every invariant and every action property of a passing run is stated by a theorem.

## 5. Not modelled

Numeric models, pricing, training, evaluation and benchmarks are arithmetic on arrays of reals without control worth exploring; portfolio weights,
sentiment and the supervision by a language model likewise. The strategy registry is a dictionary written by one method.
The stream adapter, the event bus, the contract master and the quote store look made to be chained, but no code outside the tests does it (the store's handler is
not a coroutine, which the bus and the adapter await), so each is modelled by itself; `QuoteStore` knows of the master only which symbols it has. Audit timeline, health display
and metrics are written and never read. Of what is modelled, each component's entry in `PROJECT.json` names what is left out.

## 6. Next

Broker and provider behind the adapter as one component with the paper loop, with retries of their own; `NoFalseAlarm` and `UnblockedOnlyInAgreement`
for engine and periodic check together (their theorems are about the engine alone, as are their runs). Liveness stays with TLC.
