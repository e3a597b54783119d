# TLA+ specifications of the Strategy Workbench

This directory models the parts of the Strategy Workbench backend
(`src/backend/src/strategy_workbench`) whose correctness depends on the order in
which things happen: who waits for a backtest, who may stop it, which process computes it,
how an experiment walks forward, what is saved when the server dies, what may be sent
to a broker, and how a running server changes to new data. TLC checks the models on small
instances. TLAPS proves every safety property the runs check, and both refinements,
for every instance; liveness is left to TLC.

Paths below are relative to `src/backend/src/strategy_workbench` unless they start
with `src/`.

## 1. The system

| Component | Source | State | Operations | Modelled by |
|---|---|---|---|---|
| Waiting queue | `application/backtest_run/_scheduler.py` | lanes, pauses, weights, turn | configure, forget, push, move, remove, peek, pop | `RunQueue`, `RunQueueSpec` |
| Run service | `application/backtest_run/_service.py` | records (status, owners, cancellation, slot share), slots, finished list; one re-entrant lock | start (new or joined), cancel, schedule, dispatch, progress, finish, close interrupted | `BacktestRuns` |
| Transports | `adapters/outbound/run_worker_process`, `run_thread` | worker processes, spare worker, memory hold | start, cancel, supervise, keep a spare, hold, shutdown, abandon | `WorkerTransport`, `RunTransport`; their contract also in `BacktestRuns` |
| Run repository, artifact store | `adapters/outbound/research_sqlite`, `artifact_local` | saved statuses; result directories | add, update, record completion; commit, discard | `stored` and `artifact` in `BacktestRuns`, `files` in `WorkerTransport` |
| Experiments | `application/experiment_run/_service.py` | trials, attempts, picks, controls; one lock | create, control, submit, retry, advance, cancel, recover | `Experiments`; the controls in `BacktestRuns` |
| Order domain | `domain/order_execution/_model.py` | none (values) | classify_event, reconcile, reserve | `OrderFacts` |
| Offline execution | `application/offline_execution/_service.py` | none; everything is in the ledger | initialize, recover, submit, stop, resume, cancel, plan | `OfflineExecution` |
| Order ledger | `adapters/outbound/execution_sqlite/_ledger.py` | baseline, halt flag, intents, events; an executor lock | initialize, save, claim, apply, halt | `OfflineExecution` (`ledger`) |
| Fake broker | `adapters/outbound/fake_broker/_broker.py` | start account, orders | snapshot, submit, fill, cancel, manual change | `OfflineExecution` (`broker`) |
| Weekly rebalance | `application/weekly_rebalance`, `bootstrap/weekly_rebalance/_gateway.py` | the plan; its orders are in the execution ledger; a lock file | open, chase | `WeeklyRebalance` |
| Ledger refresh | `application/ledger_refresh`, `bootstrap/_reload.py`, `adapters/outbound/ledger_sync_process`, `_ledger_refresh_routes.py` | refresh state, admissions, the tool's job; the container in use | check, start, stop, admit_work, apply, shut down | `LedgerRefresh` |
| Assistant turns | `application/assistant_chat/_turns.py`, `_chat.py` | registry of running turns with a cancellation signal each; one thread per turn | start, cancel, drain, expire, record a crash, close, finish | `AssistantTurns` |
| Assistant sessions and their readers | `adapters/outbound/assistant_sqlite`, `adapters/inbound/http_api/_assistant_routes.py` | messages, turns, events | append, update; event stream, history | `AssistantTurns` |
| Continuous account, Kiwoom mock broker, strategy authoring, factor research, engine, data pipeline, HTTP, frontend | | | | no, see section 5 |

How they interact. The HTTP API and the experiment service call the run service,
which holds one lock over its records, its queue and its slots; it calls the
transport, the repository and the artifact store from inside that lock, with two
exceptions: the computation itself, and the discarding of a result that lost
against a cancellation. The transport calls back from its own threads. The
experiment service has a lock of its own, which it holds when it calls `start` and
`schedule` but not when it calls `cancel`; what it hands over it has decided before,
without the lock. The process transport keeps a thread per run and one per spare
worker, which meet the callers in short sections of its locks and wait for processes
outside of them. Offline execution is
a sequence of ledger transactions and broker calls under the executor lock; between
any two of them the process may die and the broker goes on by itself. The weekly
executor is a client of it, through a gateway that asks the broker twice for one
picture. A refresh fetches data with a tool in a process of its own, then builds a
second container and puts it in the place of the first, inside the event loop, while
requests go to whichever was in use when they arrived. A turn of the
assistant runs on a thread of its own: it pulls the stream of the chat service, saves
each event, and meets the requests that cancel it or read it at the runner's lock,
which it holds only for moments.

What is hard about it is listed, line by line, under `hazards` in `PROJECT.json`:
runs shared by several owners that come and go, an end that races a cancellation,
writes that fail and are swallowed, controls that live under another lock than the
queue, a guard that may hold the queue, a restart between any two steps; lost
answers from a broker, facts that arrive late or with gaps, a snapshot that is old
when it is used; a worker that is taken, cancelled and killed by three threads; a
refresh and a computation that look for each other at different moments; trials handed
in while they are retried or cancelled; an order replaced while its cancellation is not
confirmed; a turn that goes on after it was cancelled, and readers that put its
state together from several reads.

## 2. Modules

| Module | What it is |
|---|---|
| `RunQueue` | the queue as operators on a record; no variables |
| `RunQueueSpec` | any sequence of queue operations, with a count of how often an experiment was passed over |
| `BacktestRuns` | the run service, its transport, repository and artifacts |
| `RunLifecycle` | the abstract promise: what a client sees of one run |
| `BacktestRunsProperties` | types, invariants, action properties, liveness, refinement mapping, inductive invariant |
| `BacktestRunsProofs` | proofs: operations of the queue, the queue alone, the service, the life cycle |
| `OrderFacts` | facts, reserves, reconciliation: the pure part of order execution |
| `OfflineExecution` | the executor, the ledger and the broker |
| `OfflineExecutionProperties`, `OfflineExecutionProofs` | properties and proofs |
| `AssistantTurns` | the runner of turns, the stream it pulls, the saved sessions, two kinds of readers |
| `AssistantTurnsProperties`, `AssistantTurnsProofs` | properties and proofs |
| `WorkerTransport` | the process transport: supervision of runs, spare workers, shutdown |
| `RunTransport` | the abstract promise of a transport to the run service |
| `WorkerTransportProperties`, `WorkerTransportProofs` | properties, the refinement mapping; proofs |
| `Experiments` | one experiment over the statuses of its runs |
| `ExperimentsProperties`, `ExperimentsProofs` | properties and proofs |
| `WeeklyRebalance` | runs of the weekly executor, the gateway, the broker behind it |
| `WeeklyRebalanceProperties`, `WeeklyRebalanceProofs` | properties and proofs |
| `LedgerRefresh` | a refresh, the containers, the tool, requests and the shutdown |
| `LedgerRefreshProperties`, `LedgerRefreshProofs` | properties and proofs |
| `SumProofs` | sums over finite sets: the lemmas the other proofs share |
| `MCRunQueue`, `MCBacktestRuns`, `MCOfflineExecution`, `MCAssistantTurns`, `MCWorkerTransport`, `MCExperiments`, `MCWeeklyRebalance`, `MCLedgerRefresh` | instances for TLC |

### 2.1 RunQueue

The dict `_lanes` is kept as `order` (its keys in insertion order, which is the
round-robin order) and `items` (its values). `_served` is a function that is 0 where
the code has no entry, `_weights` one that is 1. Experiment ids are numbers because
`_lane` sorts owners; run ids are numbers because `schedule` visits records in order
of acceptance. `RunQueueSpec` calls the operations in any order in which the service
may call them; `passed[e]` counts the takes from other experiments' lanes while `e`
had a run ready. A pause or a change of weight resets the counts: toggling a pause
ends turns early (`_scheduler.py:110-113`), so there is no bound across such changes.

### 2.2 BacktestRuns

One action is one critical section of the service's lock. `_dispatch` and the loop in
`schedule` are unrolled into rounds: `section` says which loop holds the lock, and
only that loop's next round may run, so nothing else that needs the lock happens in
between, while the transport, which does not need it, may.

| Code | Action |
|---|---|
| `start`, new run / same input | `Accept` / `Join` |
| `cancel`: ended, others remain, waiting, started | `LeaveEnded`, `LeaveToOthers`, `CancelWaiting`, `CancelStarted` |
| `ExperimentService.control`, then `schedule` | `SetControls`, then `Schedule`, `RelaneNext` |
| `_dispatch` | `DispatchStart`, `DispatchStartFails`, `DispatchHold`, `DispatchDone` |
| `on_progress` | `Progress` |
| the computation, outside the lock | `EndCommitted`, `EndFailed`, `EndStopped` |
| `_finish`: `_settle`, `_complete`, `_fail`, `discard`, the slot | `CompleteLate`, `Complete`, `CompleteUnsaved`, `Discard`, `DiscardFails`, `Settle`, `Release` |
| the process ends; the next one boots | `Crash`; `CloseInterrupted`, `OpenService` |

`records`, `status`, `owners`, `cancelled`, `experimentSlot` are the fields of
`_RunRecord`; `memoryWait` stands for the one message that matters (waiting for
memory); `stored` is the repository, `artifact` the result directories, `controls`
the saved controls of experiments; `phase` is where a started run is between its
start and the release of its slot. `leftBehind` is not in the code: it remembers, for
`NoStrayResult`, whose result the service failed to remove or was settling when the process
ended.

Abstractions. A run and the input it computes are one: `Requests` says who may ask
for which, and asking again for a run that has ended is asking for another run.
A refused admission and a failed `add` leave no trace and are no step. Progress within
a stage, events, summaries and the trial ledger are left out. The guard's arithmetic
depends on the machine: it may admit or hold whenever it is consulted at all. In
`cancel` the idle owner is released after `_dispatch`; the model does it before, which
commutes, because the owner has no run the dispatch could take. Leftovers of a worker
whose removal fails (logged, `_execution.py:667-670`) are not counted as results.
`Crash` is every way the process ends, `shutdown` included.

### 2.3 OrderFacts and OfflineExecution

The service has no fields, so the state is the ledger file, the broker, and the call
that holds the executor lock (`task`). The lock is not waited for: a second caller
fails at once, which is no step. Every ledger transaction and every broker call is an
action of its own, and `Abort` may follow each: the process dies, the ledger refuses,
or the broker does not answer. A lost answer is the second disjunct of `Answered`. The
broker is its starting account and its orders; the account it reports is computed from
them, as `FakeBroker.snapshot` does, so a snapshot is one value. A broker whose account
became invalid (somebody withdrew reserved cash) does not answer, as `Account` raises.
An intent left UNKNOWN is never sent again by design: recovery can only find it at the
broker or leave it. Prices and fees come from small sets. The upper bound of 10^15 on
integers is left out. `plan` changes nothing and is left out.

### 2.4 AssistantTurns

One action is one section of the runner's lock or one transaction; whatever the turn's
thread does between two of them nobody sees.

| Code | Action |
|---|---|
| `start`: accepted / a write fails / `thread.start()` | `Start` / `StartFails` / `ThreadStarts`, `ThreadFails` |
| `cancel` | `Cancel` |
| `_stream`, pulled by `_consume`, which appends | `ProviderEvent`, `ToolEvent`, `ProviderEnds`, `StopEvent`, `StreamEnds` |
| `_consume`: a failure, the time | `Decide`; `InTime`, `TimeOver` |
| `_expire` | `Expire`, `ExpireDecides` |
| `_drain`: an exception, `_record_crash` | `AppendFails`; `CrashDecides`, `TellCrash` |
| `_close`, `_finish` | `Close`; `Settle`, `Save`, `FreeSlot` |
| `_event_stream` | `OpenStream`, `AskSettled`, `SendEvents` |
| `get_assistant_session` | `ReadRows`, `ReadLive`, `ReadEvents`, `ReadMessages` |
| the process ends; the next one has an empty registry | `Crash` |

`occupied`, `decided` and `signal` are an entry of `_running`; `row`, `accepted`,
`events` and `messages` are the tables, whose order is the position in a sequence;
`thread` is how far a turn's thread has come and what its stream knows.

Abstractions. Time is a choice: at every event the limit may be over or not. The
failure codes of providers and tools are one, `error`, and two of them may differ. A
saved event keeps whose it is and whether it is text, a failure or something else
(`EventKind`). An answer is spoken or not. It is saved by the `finally` of the generator
(`_chat.py:389-411`), and what a failed write means depends on who leaves the stream:
when it ends by itself (`StreamEnds`), `_consume` gets the exception and the turn crashes;
after the grace period or a crash it is left by `_close` (`Close`), which only logs it, and
then the end is decided already.
`_expire` decides and sets the signal under two locks; nobody but its own thread reads
the signal, so they are one step. Readers change nothing, so one reader shows what many
see. `Crash` stands for every way the process ends. The next process does not touch the
rows its predecessor left running, and neither does the model.

### 2.5 LedgerRefresh

One action is one section of the service's lock, one step of the event loop, or one
call made outside of both.

| Code | Action |
|---|---|
| a request that starts work is handed to the app in use; `admit_work` | `Arrive`; `Admit`, `Answer`, `Leave` |
| `start`: `status` before the lock / the section / the count, the thread, giving up | `Ask` / `Enter` / `Launch`, `GiveUp` |
| `check`: the plan, outside of the lock; its verdict | `Plan`; `StoreCheck` |
| `_run`, `_sync_once` | `Spawn`, `Register`, `CancelAtOnce`, `Waited` |
| the rest of `_run`: `classify`, `_finish`, the apply function | `GiveIn`, `BeginApply`, `ApplyFails`, `Succeed` |
| `ReloadableApp.apply`, `_swap`, the old container | `Build`, `Swap`, `CloseOld` |
| the tool: `execute_plan`, `gc_table`; its end and `last_run.json` | `Fetch`; `ToolEnds` |
| shutdown: `_closed`, `stop`, the stack of the app | `Close`; `Stop`, `StopKills`; `CloseApp` |

Abstractions. The tables are one table with numbered builds; a container reads the
build that was newest when it was built (`pinned`). A record of the tool is what
`_classify` looks at. `missed` counts, for a property, the fetches since the container in use was
built. A computation is the number of the app it runs in; only the app in use is
counted by `ContainerActiveWork`, as in the code. The sentences for the client, the
tool's progress and the lock of a tool somebody else runs (it only refuses) are left
out.

### 2.6 WorkerTransport and RunTransport

| Code | Action |
|---|---|
| `_fill_spare`, with its thread | `FillSpare`, inside the step that calls it |
| `_keep_spare`: spawn, register, boot, wait, `_spare_failed` | `KeeperSpawn`, `KeeperRegister`, `KeeperBoot`, `KeeperWait`, `SpareFailed`, `KeeperRefill` |
| `set_memory_hold` | `SetMemoryHold`, `RefillAfterHold` |
| `start` | `Start` |
| the supervisor: `_take_spare`, an own worker, `boot`, the job, `_read_events`, `_outcome` | `TakeSpare`, `RunRefill`, `Spawn`, `Register`, `Boot`, `Decide`, `ReadEvents`, `Outcome` |
| `_clean_up`, the report to the listener | `CleanUp`, `Discard`, `Judge`, `Tell` |
| `cancel`; `shutdown`, `abandon` | `Cancel`; `Shutdown`, `Abandon`, `AbandonCancels` |
| the worker's program | `WorkerBoots`, `WorkerWorks`, `WorkerMisspeaks`, `WorkerDies` |

`step` and `keeper` are how far the thread of a run and of a spare has come; `life` is a
process (`struck`: killed and not dead yet), `said` the last line it printed, `files`
the run's directory with the staged and the renamed form. `RunTransport` knows none of
it: a run is taken on, written, settled in one outcome, and reported; `WorkerTransport`
implements it under the mapping in `WorkerTransportProperties` (settled: between the
end of the clean-up and the report).

Abstractions. Events of progress are left out; the last line stands for all. A line
that breaks the protocol is one value. The gate of the engine, the measurements of
memory, a supervisor thread that does not start and an error nobody foresaw in it (reported
as an internal failure, `_execution.py:604`) are left out.

### 2.7 Experiments

The run service is the status of each run here; `RunEnds` is what `BacktestRuns` shows
of it. Each handed run is one action with its row, because the lock covers both; `sub`
is the submission thread with what it read before.

| Code | Action |
|---|---|
| `_submit`: what is pending; one trial after the other | `Read`; `Submit`, `Submitted` |
| `advance`: open windows and choices, without the lock; the section | `Look`; `Choose`, `Pick`, `Picked` |
| `_started`: taken, rejected, a failing call | `HandIn`, `HandInFails` |
| `retry` | `Retry` |
| `cancel`: the mark and the list; each run; a failure | `Cancel`; `CancelRun`; `CancelEnds` |
| the process ends and the next one runs `recover` | `Restart`, `Recover` |

`attempts` and `picks` are the rows; run 0 stands for a rejection. A run without a row
(its call or its row failed) is in `strays`. Scores are an order on trials: trial
numbers stand for them. What the thread still has to do is the set `todo`, worked off in
the order of its items (`IsFirst`). `scored` says which runs have one in the ledger. Whatever a
crash leaves between a run and its row, a failure (`HandInFails`) leaves too. Left out:
creating and previewing, selections, and the reports, which are queries.

### 2.8 WeeklyRebalance

| Code | Action |
|---|---|
| `execute`, under the lock file | `Execute`, `End` (also an error or a death) |
| the gateway's `state`: `recover`, then the account | `Recover`, `ReadAccount`, `ReadCash` |
| `_cancel_open` with its polls | `Cancel`, `Cancelled` |
| `_deltas`, `_place`, `_order` | `Delta`, `Placing`, `Blocked`, `Wanted`, `NextId`, `Submit`, `Skip`, `SellsDone` |
| the broker by itself | `Fill`, `TakeBack` |

`orders` are the plan's orders at the broker, `ledger` the same in the execution
ledger, `run` the executor and what it has read. The service behind the gateway is
modelled in `OfflineExecution`; one of its calls is one step here, with the outcomes
that module allows. Every share costs 1 without fees; quotes, risk verdicts and missing
prices are one choice, to skip an order. `torn` and `dark` remember, for the properties, that an
account was read after its orders with a fill in between, and that the answer to a
purchase was lost. Left out: preparing and approving plans, previews, and the record of
the day.

## 3. What the runs check

| Run | Instance | Distinct states | What it shows |
|---|---|---|---|
| `run_queue` | 4 runs, 3 experiments, two with weight 2 | 246,954 | `QueueInOrder`, `BoundedBypass` |
| `runs` | 3 runs, 2 experiments and the user, 2 slots, no faults | 1,172,479 | `SlotAccounting`, `WaitingIsQueued`, `HoldExplained`, `LaneMatchesOwners`, `ControlsApplied` |
| `runs_faults` | 2 runs, 1 experiment and the user, 1 slot, 2 faults, 1 crash, fair | 94,188 | `CancelNeedsEveryOwner`, `CompletedIsDurable`, `NoStrayResult`, `SavedBeforeDropped`, `ImplementsLifecycle`, `StartedEnds`, `OnlyPausedWait` |
| `user_slot` | 2 runs, 2 slots | (violation) | the slot reserved for the user can be lost |
| `transport` | 1 run, 2 spare workers, failure limit 2, fair | 656,692 | `NoOrphan`, `KilledForAReason`, `StoppedEnds`, `ImplementsTransport` |
| `experiments` | 2 trials of a window, 1 fault, 1 retry, 1 restart, fair | 1,163,638 | `EveryRunIsCurrent`, `CancelReachesAll`, `SameCellAgain`, `WalkEnds` |
| `experiments_off` | the same | (violation) | a window opened again by a retry after a restart is never walked |
| `orders` | 4 intents (3 identities), cash for one of two purchases, 1 change by hand | 710,636 | `TransmittedOnce`, `LedgerFollowsBroker`, `NeverOverdrawn`, `MeansStillThere`, `SendsOnlyInStep`, `LedgerAdvances` |
| `rebalance` | 3 symbols (one sold, two bought), 2 runs, 4 orders | 776,505 | `OneOrderAtATime`, `OutOfPlanOnlyTorn`, `FloorKept` |
| `rebalance_torn` | the same | (violation) | a fill between two queries is counted twice |
| `turns` | 2 turns of one session (one event and none of their providers), 1 reader, 1 fault or crash, fair | 449,755 | `TurnsDoNotMix`, `NothingMissed`, `CompletedIsWhole`, `EndNeverReverts`, `SlotFreed` |
| `refresh` | 1 request, 2 starters, 3 builds kept, 3 builds, 2 containers, fair | 439,807 | `RefreshIsAlone`, `PinnedIsKept`, `ShutdownLeavesNothing`, `RefreshEnds` |

Why these bounds. A queue needs three lanes for a round-robin order to differ from
alternation, and a fourth run for a lane to be refilled while its turn lasts. Slot
accounting needs two slots, the smallest number with a reserve, and a third run to
take what a mistake would free (a start that fails is in `runs_faults` for the other
properties; for those of `runs` it is covered by their theorems); lanes need a run that
both experiments and the user share, and runs alone behind it. Faults: every place where
a write may fail is reached with one fault; the second lets a discard fail after the write it follows, and
with `Kept` = 1 the second end already drops the first; one slot makes the second run
wait for the first. One crash is enough for each property, since what a restart leaves
behind is only the saved state, an initial state of the next life. Orders: an order of
two shares has every partial fill; one identity with two payloads, a sale of what was
bought and two rivals for the same cash are the interesting pairs.

Transport: runs share nothing but the spare slot, so one run, a spare it may take and
the spare that is filled behind it meet in every pair of steps; with limit 2 the first
failure is followed by another spare and the second is not. Experiments: two trials of
one window are the least for a choice, and for a trial that is handed in while the other
is retried, cancelled or ended; a second window shares only the thread. Rebalance:
one symbol is sold, and the cash and the floor pay for the first purchase and not for
the second; two runs are every pair of phases, and with three runs of one symbol the
same holds. Refresh: three builds and a `Keep` of three are the first at which a kept
build can be dropped; two starters race; one request, whose computation may be accepted
at any step, is what a refresh must not catch.

Turns: one event of the provider or of a tool, then those of the runner, the time limit and a
crash; the second turn shows what the first leaves behind, and starts while the first
goes on wherever a mistake lets it. One fault reaches each failing write, each thread
that does not start and each end of the process.

Deadlock checking is off where the instance may stop: in `run_queue` once all runs were
taken and configuring changes nothing; in `turns` once every turn is over (or one keeps
the session) and the reader is done; in `transport` and `refresh` after a shutdown; in
the experiments' runs when everything has ended or a failed call stopped the thread; in
the rebalance runs when the executor was run `MaxRuns` times and nothing is open at the
broker. The other runs check for deadlock.

Fairness (`FairSpec`). A thread that holds the lock goes on (`WF` of `LoopStep` and of
`Boot`); a computation ends by itself (`WF` of `End`: it computes over a finite range,
and a worker that dies is noticed by its supervisor); a thread that waits for the lock
with the end of a run, or with saved controls, gets it although other requests keep
coming (`SF` of `Finish` and `Schedule`). Of turns: a thread that was asked for starts
or fails to, and the thread of a turn goes on (`WF`); that the stream of a provider is
finite and does not hang is the work of the adapters, with their limits on rounds and
tokens and their network timeouts, on which `_turns.py:44-50` relies too. Of the process
transport: its threads go on and a killed process dies; a worker that nobody killed may
hang for ever, and `StoppedEnds` holds nevertheless. Of experiments: the submission
thread goes on and runs end, which `StartedEnds` of the run service justifies as long as
no owner is paused (a pause only delays). Of a refresh: a `start` and its thread go on,
and the tool ends, at the latest when the deadline of its job kills it
(`SYNC_DEADLINE_S`). Nothing is assumed of requests, pauses, progress, readers, checks,
shutdowns or crashes.

### Disagreements between code and text

`experiment_slots` (`_scheduler.py:20-25`) and the design of the validation lab
(`src/docs/superpowers/specs/2026-09-29-validation-lab-design.md:137`) say that with
two or more slots one is kept for the user's own runs. Whether a run counts as an
experiment's is decided once, when it starts (`_service.py:1214`). `user_slot` shows:
a run wanted by the user and by an experiment starts as the user's; the user cancels,
it goes on for the experiment alone; another run of the experiment starts. Both slots
now compute for the experiment. `SlotAccounting` states what does hold.

`advance` (`experiment_run/_service.py:730`) says that every window whose training has
ended is picked and validated. `experiments_off` shows: all trials of a window fail and
the server restarts before the window got its (empty) pick; the experiment counts as
completed, so `recover` starts no submission thread for it; a trial is retried, which
is allowed, and completes; the window is open again and nobody looks, until the next
restart. Until then the experiment also counts as running. `WalkEnds` states what does
hold: it comes to its end unless it was left off like this.

`weekly_rebalance/_execution.py:12` says that a second run does not order the same
shares twice, because living orders are taken off the target. `rebalance_torn` shows:
the gateway brings the ledger up to date with one query of the broker and takes the
account from the next; a fill between them is counted as held and as still open, and
with an order of the plan alive the difference to the target changes its sign: the run
sells what it has just bought, or buys back what it has just sold. `OutOfPlanOnlyTorn`
states what does hold.

Smaller ones, without a run (the formulas are kept at the end of the property modules,
where TLC refutes them on the same instances):

* `_turns.py:33` promises that the slot of a session is freed whichever way a turn ends.
  `start` enters the turn into the registry, then `thread.start()` may raise (line 195);
  no thread will remove the entry (`SlotAlwaysFreed`).
* `_assistant_routes.py:259-262` reads turns before events so that no history shows a
  turn as failed without its failure event; `_record_crash` decides (line 332) before it
  appends (line 334), and a history read in between shows just that (`FailureIsShown`).
* `_turns.py:36` says that `_finish` pops the registry first; the code records first, as
  the docstring of `_finish` says. `_assistant_routes.py:268-269` calls reading the messages
  last safe because the answer is saved before the turn is finished, which is not so for a
  turn that was decided early.
* `bootstrap/_reload.py:9` says that a container that was replaced computes nothing. A
  request that arrived before the swap and is admitted after it runs in the old container
  although that is closed (`OldAppIsIdle`).
* `ledger_refresh/_service.py:319` stores the verdict of a plan made before a refresh over
  the UNKNOWN that line 409 keeps for a refresh whose server had moved on.
* `advance` checks under the lock that a window has no newer pick, not that its training
  is still over: a retry in between is not waited for (`PickAfterTraining`).
* `_execution.py:325` of the weekly executor keeps the cash floor by counting down what
  was sent; a purchase whose answer is lost is not counted (`dark` in `FloorKept`).
* `abandon` of the process transport says that the run is not reported; a report that had
  already looked at the flag still goes out (`Judge`, then `Tell`).
* `S05-offline-execution.md:32` of `src/docs/planning/research-to-trading` reserves for a purchase
  its price and its whole fee budget, and `_broker.py:73-110` of the fake broker bounds
  the fees of an order, not those of one fill. With no cash, sell two shares at 1 with a fee
  budget of 2: one is filled at 2 without a fee; a purchase reserves the 2; the other is
  filled at 1 with the fee of 2. Now the account has 1 and reserves 2, which `Account`
  refuses: the broker has no snapshot any more. Hence `SalesPay` in `NeverOverdrawn` and
  `MeansStillThere`; the smallest instance that shows it is larger than that of `orders`.
* A cancelled experiment does not reach a run whose row could not be written: it computes
  to its end (`strays`).

## 4. What is proved

Every safety property that a passing run checks is a theorem, and so are both
refinements: for any runs, experiments, weights, slots, requests, spare workers, trials,
intents, prices, plans and bounds that satisfy the named assumptions (`RunsAssumption`,
`SlotsAssumption`, `IntentsAssumption`, `PlanAssumption`, ...), which TLC evaluates on its
instances. The type invariants are theorems too, `TypeCorrect` in each module. What TLC
checks is the small instance of the same formula.

Each component has one inductive invariant, or a chain of them, each of which may assume
the ones before it. The theorems in `PROJECT.json` follow from these.

**`BacktestRunsProofs`, the queue.** Each operation keeps `Good`, by a lemma on the removal
of the first occurrence from a sequence, and leaves at most one turn open
(`QueueKeepsOrder`). `NobodyStarves` bounds how often an experiment `e` is passed over.
`passed[e]` alone is not inductive; what is: for every other experiment `f`, `Turns` is
what `f` has had of its turn, nothing if others go before `f` and all of it once `f`
stands behind `e`. `passed[e]` is at most the sum of these, `Share`, and no term is
more than the weight. A take adds one to both; a lane that empties leaves the line, and
when it comes back it stands behind `e`.

**`BacktestRunsProofs`, the service.** `IndInv` gives the invariants on cancelling and
ending. None of them is inductive alone. That a queued record is in the queue needs the
queue to be `Good`; that a dispatched run is in memory, that what is committed is there,
and that a run being discarded was cancelled (`PhasesAgree`) are needed for completions;
that the list of finished runs holds only saved ends (`FinishedSaved`) for what may be
dropped; that somebody wants every run that is not being cancelled (`SomeoneWants`) for
the lane it is put in. On top of it:

* `SlotsAreAccounted`: the equations between the counters and the runs that hold slots.
* `NothingStrayIsLeft`: a run that did not complete has a directory only between a commit and
  the step that settles it, also when saving its completion failed. `leftBehind`, a history
  variable of the model, holds the runs whose removal itself failed and those the process
  was settling when it ended; nobody else is exempt.
* `ControlsAreApplied`, `RunsStandInTheirLane` (`ControlInv`): the two need each other, since a
  run joins an experiment under controls that are applied; and outside of the loop of
  `schedule` nothing is left to be moved.
* `HoldIsExplained` (`HoldInv`): the head of the queue is the same for every round of a
  dispatch until something is taken, and a run whose end is settled is not weighed.
* `ServiceImplementsLifecycle`: a step of the service is a step of `RunLifecycle` or leaves its
  variables alone. `sure` is the set of runs whose end is saved; a crash may turn an end
  that was not saved back into an unfinished run, which is all the abstract `Stop` allows.

**`WorkerTransportProofs`.** A spare is taken only out of the slot and after it booted
(`SparesAgree`), so a worker is the worker of one run (`OneRunEach`) and a run is done only
when its worker is dead (`RunsAgree`): `NoProcessIsLeft`, `NobodyElseIsKilled`. Only a worker
with a job says how it ended (`JobsAgree`), and the outcome agrees with cancellations and
files before and after these were cleaned up (`OutcomesAgree`): `ImplementsRunTransport`,
every step is one of `RunTransport` or leaves its variables alone.

**`ExperimentsProofs`.** The submission thread decides before it takes the lock. What it
is to hand in is still due, unless a row came in between, and then the count of rows it
remembers is not the count any more (`TasksAreDue`): `NothingComputesTwice`,
`ValidationKeepsItsCell`. After the mark of `cancel` nobody may hand in another run, and
what is live is on the list of the call (`CancelHolds`): `CancelIsComplete`.

**`OfflineExecutionProofs`.** What is at the broker was claimed, and at the moment of
transmission the intent is UNKNOWN and not at the broker (`Claims`); a claim is never
taken back, so no second call comes this far: `NothingSentTwice`, `LedgerNeverGoesBack`.
`History` says that everything the ledger, the snapshot of the call and its answer hold of an
order was this order at an earlier revision: `LedgerIsBehind`, both that it was true and
that what comes is accepted. For the means, `Free` and `Spare` are what one order adds to
the cash nobody reserves and the shares nobody offers; each fill and each cancellation
leaves them as large or makes them larger, if sales pay, so the sums over all orders
(`Covered`) and since the snapshot (`SeenGotBetter`) do not shrink either, and what was
`Checked` still holds: `AccountStaysOne`, `ChecksStayTrue`. A call that will send has found
the ledger in agreement with the snapshot (`Decision`): `SendsOnDecision`.

**`WeeklyRebalanceProofs`.** The ledger has every order of the broker, at most one query
behind, and what it takes for done is done (`LedgerIsBehind`). Orders of a symbol and
side are numbered without gaps, at most one in a run (`Numbered`), and what is placed was
decided on a view to which nothing of its symbol and side was added since (`ViewHolds`);
so an order that may still fill is in the view and blocks the next: `OneOrderLives`. What
the ledger counts, with what the run may still add, stays within the plan while no
account was torn (`InPlan`): `OnlyTornLeavesThePlan`. What is offered for sale is held
(`SharesAreHeld`), which keeps holdings from going below zero; and the budget of
purchases is not above the cash over the floor (`CashIsLeft`): `FloorIsKept`.

**`LedgerRefreshProofs`.** One `start` or one thread has the refresh, and the state says so
(`OneRefresh`); the count of admissions is right, and 0 from the moment the state is busy
(`AdmissionsCounted`), which is why the second look finds what the first one could not:
`NothingIsCaught`. The builds after the pinned one came with the fetches that were missed
(`BuildsAgree`): `PinnedBuildIsKept`. The tool runs only for a thread that waits for it,
and `stop` knows it (`ToolIsWatched`); one container is open, and for a moment the one
before it (`OpenApps`): `ShutdownIsClean`.

**`AssistantTurnsProofs`.** What a thread does before its answer is saved is summed up
once (`Works`); then a turn has an entry exactly while its thread is at it and is the
only one of its session (`Slots`); the row lags behind the decision and says nothing else
(`RowsAgree`); the last message is the question of the turn that is to answer (`Asked`);
behind its accepted sequence all events are its own (`OwnTail`); and a reader that was
told a turn is over is right (`ReaderKnows`), after which the turn writes nothing more
(`NoMoreOf`): `SessionsStayInOrder`, `EndsAreFinal`, `StreamsAreComplete`. For the answer:
while a stream is consumed, a text among the saved events is remembered by the thread; a
stream is left by another hand only with the end decided; so a turn without a decision when
it is settled has saved its answer (`AnswersAgree`), and a reader that was told "completed"
finds it (`AnswerKnown`): `HistoriesAreWhole`.

**`SumProofs`.** Cash, shares and turns add up over sets (`SumFunctionOnSet` of the
community modules, a fold). The library proves nothing about folds, and a general
induction theorem can not be used here; the lemmas are proved from the definition by the
least counterexample (`LeastExists`, `SubsetInduction`): a member more or less, one value
changed, smaller values, other names for the same values.

Only model-checked: the liveness properties `StartedEnds`, `OnlyPausedWait`, `StoppedEnds`,
`WalkEnds`, `SlotFreed` and `RefreshEnds`, since fairness and `ENABLED` are out of the prover's
reach. The properties of the three violation runs are false and have no theorem; nor have the
fair specifications, whose safety part is the one proved.

## 5. Plan

1. (done) `RunQueue`, `BacktestRuns`, `RunLifecycle`, `OrderFacts`, `OfflineExecution`,
   `AssistantTurns`.
2. (done) `LedgerRefresh`, `Experiments`, `WeeklyRebalance`, `WorkerTransport` with
   `RunTransport`; larger instances of the older runs.
3. (done) Proofs of the safety properties and of both refinements.
4. Open: an abstract account (orders that are sent once and fill) that `OfflineExecution`
   implements, and whose outcomes `WeeklyRebalance` assumes of the gateway; `RunTransport`
   in the place of the transport inside `BacktestRuns`; the safety part of the liveness
   properties, that a thread which must go on is never without a step it may take.

Runs are small on purpose: each finishes within a few minutes on two cores.

### Not modelled

* Continuous account: one row per evaluation, claimed by its id and run to its end
  inside the request that asked for it. What is left is numeric evaluation. A claim
  whose process died is closed at the next start; `LedgerRefresh` has the account as one
  of the computations it counts.
* Kiwoom mock broker: a second broker behind the port of the fake one, over HTTP to an
  outside service. Its own state is a journal of references matched against parsed
  replies. Its outcomes, a lost answer and a cancellation not confirmed yet, are in
  `WeeklyRebalance`.
* Strategy authoring and repository: validation and text; revisions are immutable rows,
  each written in one transaction.
* Factor research and the backtest engine: deterministic computation on floating-point
  arrays, without concurrent state. The portfolio compiler, the adapters of the equity
  data and their specifications are the largest of the code and belong here.
* Data pipeline (`src/database`): batch scripts that collect, stage and deliver data;
  files and SQL of one process at a time. `LedgerRefresh` has the part a server depends
  on: a fetch with the builds it keeps. The lock file of the sync tool is left out.
* HTTP API, command lines, frontend: translation and presentation.
* In modelled parts: the cache of factor returns of the run service, queries and
  listings, the gate before the engine and `memory()`, the thread transport as a program
  of its own, the preparation and approval of weekly plans, selections and reports of
  experiments.

By lines most of the repository is numeric computation, text and data; the modelled part is nearly
all of the code whose result depends on the order of events.
