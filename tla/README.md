# A TLA+ verification of brownie-bot

brownie-bot is an autonomous treasury process: it reads an Algorand portfolio, asks a
language model for a plan, judges the plan against a policy, signs and submits the
approved actions, keeps accounts, and takes commands from one Telegram chat. It is one
Node.js process per wallet, so its concurrency is that of callbacks and awaits, its
durable state is a handful of JSON objects, and its partners (MCP server, algod,
Telegram, object storage) fail and time out. All line numbers below are of
`src/src/...` unless they start with `README.md` (which is `src/README.md`).

## 1. Inventory

| component | state | operations | interacts with | what is hard | what must hold |
|---|---|---|---|---|---|
| run coordinator `services/run-coordinator.ts` | `locked`, `waiters` | `runExclusive` (wait / fail), `isBusy` | all three run services | hand-over through a resolved promise | exclusion, arrival order, nobody lost |
| treasury review `services/treasury-review.ts` | `running`, `state.latest`, locals of one run | `run`, `execute` | coordinator, agent, policy, executor, switch, notifier, review store | long awaits, failures of single steps, a switch read once | one run at a time, no trading when paused, a flag that never sticks, correct status |
| accounting `services/accounting.ts` | `running`, `state.latest` | `run`, `recordCashflow`, `recordCashflowFromTx` | coordinator, reader, store, notifier | publication after the flag is down, cashflows outside the lock | the latest run is the latest, funding is not profit |
| unwind `services/deterministic-unwind.ts` | pending previews | `preview`, `run` (waves) | coordinator, executor, switch | bounded loop on a moving portfolio, stale preview | it ends, it reports what it did |
| pause switch `services/operator-pause.ts` | `paused`, a file | `pause`, `resume`, `hydrate` | commands, review, unwind | truncation then write, errors swallowed | a restart does not resume |
| command loop `services/telegram-commands.ts`, `telegram-bot.ts` | `offset` | drain, poll, dispatch, reply | Telegram, every service | offset in memory, confirmed by the next poll | at most once, no replay, no loss |
| spend counters `services/daily-spend.ts` | day, two lanes, a file | record, report, hydrate | payment builder, agent, `/status` | midnight, unordered writes | durable, monotonic within a day |
| payment builder `integrations/canix402/payment.ts` | none of its own | `build` | counters, algod | a cap checked before an await | the daily cap |
| MCP client `integrations/canix402/client.ts` | call queue, connection | `callTool`, `callManagedTool` | payment builder | reconnect, retry of a paid call | serial calls, no double payment |
| execution `integrations/algorand/execution.ts`, `services/shape-execution-input.ts` | none | single, batch, sequential, compose execution | MCP client, algod, escrow store | submit / confirm with a timeout, several groups in order | an outcome says what happened on chain |
| Folks escrow `integrations/algorand/folks-*.ts` | escrow records | `get`, `save`, shape selection | execution | key saved after the setup is confirmed | no funded escrow without its key |
| accounting store `integrations/storage/accounting-store.ts` | snapshots, cashflows, summaries | put / get / list | accounting | check then write | immutability, one cashflow per event |
| review run store `integrations/storage/review-run-store.ts` | latest, dated history | `putLatest`, `list`, `rotate` | review | several writes, rotation | latest and history agree |
| P&L windows `services/pnl-windows.ts`, cashflow lookup `algorand/cashflow-tx.ts` | none | pure / read-only | accounting | baselines, boundaries | funding is not profit |
| policy, claim desk, portfolio agent | none / one conversation | `validate`, batching, tool loop | review | many rules; budget and repair | limits respected |
| wiring `app.ts`, `index.ts`, `scheduler.ts` | none | boot, routes, cron | everything | modes, order of hydration | see the services |

What is not modelled, and why, is section 7. `PROJECT.json` lists all
components with their status, and the hazards with the line at which each one bites.

## 2. Modules

| module | models | state ↔ code |
|---|---|---|
| `RunCoordinator` | `runExclusive` | `locked`, `waiters` are the fields; `pc[c]` is the await a call is at |
| `FifoLock` | the abstract promise: one inside, first come first served | no flag, no queue: `status`, and `ahead[c]`, who enters before `c` |
| `RunCoordinatorRefinement` | the refinement mapping | a granted call still waits, ahead of the queue |
| `RunCoordinatorProofs` | theorems for any set of callers | |
| `BotRuns`, `MCBotRuns` | review, accounting and unwind runs over the coordinator, and `/pause` | `reviewRunning`, `accountingRunning` are the `running` fields, `step` the await of each call, `latestAccounting` is `AccountingState.latest` |
| `BotRunsProofs` | theorems for any set of calls, on top of `RunCoordinatorProofs` | |
| `OperatorControl` | command loop, pause switch and its file, crashes | `offset`, `paused` are the fields; `pending` is what Telegram still holds; `file` is `missing`, `torn`, `on` or `off` |
| `OperatorControlProofs` | theorems for any number of updates and crashes | |
| `PaymentBudget`, `MCPaymentBudget` | payment builder on the spend counters, midnight, restarts | `dayUtc`, `used` are the fields; `body[u]` is what a started `persist` will write |
| `PaymentBudgetProofs` | theorems for any number of builds, charges and crashes | |
| `ExecutionPlans` | what the executor decides before it submits: shapes, amounts, claim batches, compose pairs | operators only |
| `Execution`, `MCExecution` | the executor's calls on a chain that confirms soon, late or never, the Folks escrow store, crashes | `call`, `legs`, `at`, `secret` are locals of one call; `record` is the stored escrow; `landed`, `escrows`, `optedIn` are the chain; `report` is what was returned |
| `ExecutionProofs` | theorems for any calls and any number of crashes | |
| `PlanPolicy` | normalization, completion of inputs, `validate`, `orderActions`, `determineStatus` | operators only |
| `PlanRuns`, `MCPlanRuns` | reviews and unwinds from a plan to executor calls and a status, over one wallet | `plan`, `queue`, `outcomes`, `wave`, `print` are locals of `execute` and `run`; `open`, `held` are the wallet, `listed` is what the gateway knows of it, `snap` what a run or wave was shown |
| `PlanRunsProofs` | theorems for any plans, catalogs, wallets and number of runs | |
| `CanixClient` | the MCP call queue, sessions, reconnects, the retry of each kind of call, payments | `queue`, `connected` are the fields, `attempt` is the loop of `withReconnectRetry`, `call[s]` the locals of a call |
| `AgentRun`, `MCAgentRun` | agent runs in both modes, the reader's concurrent calls, host research, the tool loop, over `CanixClient` | `run[r]` are the locals of a run: `calls`, `payments`, the research flag |
| `AgentRunProofs` | theorems for any number of runs, calls and faults | |
| `Ledger` | accounting's reads and writes, P&L windows, three ways of recording a cashflow, both backends | `cash`, `snaps`, `latest` are the objects of the store; `acc` the locals of a run, `rec[r]` those of a recording |
| `ReviewHistory` | dated reviews, `latest`, rotation and listing, both backends | `dated`, `last` are the objects; `memory` is `TreasuryReviewState.latest` |
| `MCStores` | a run of either store | |
| `StoresProofs` | theorems about both stores for any transfers, reviews, days, bounds and backend | |

Everything a function does between two awaits is one action, because JavaScript does
not interrupt it. In `RunCoordinator`, `Settle` is the `finally` block; it resolves a
waiter's promise, whose continuation (`Resume`) runs later, and other calls may act in
between. A rejected call learns of it in a later step for the same reason.

How the modules fit together. `BotRuns` INSTANCEs `RunCoordinator` and uses its actions,
so each branch of the coordinator is the one that is proved about; it reduces what a run
reads and plans to the number of actions it executes. `PlanRuns` opens that box: since
the lock admits one trading run at a time (`TaskInsideLock`), it has one run in progress,
takes its plan through `PlanPolicy` and `ExecutionPlans`, and sees the executor from
outside, by its answers. `Execution` is the inside: it turns one call into transaction
groups, and `ConfirmedMeansLanded` and `LandedIsReported` say which answers `PlanRuns`
may count on (a confirmed action landed; a failed one may have, or may yet). `AgentRun`
EXTENDS `CanixClient` and adds the callers; what a payment costs and when a build is
refused is `PaymentBudget`'s subject. `Ledger` and `ReviewHistory` are the two stores.

Choices worth knowing:

* `BotRuns`: the agent's answer, the policy's verdict and each outcome are arbitrary. The
  checks that let Telegram's `/run` refuse early are a special case of mode "fail".
* `OperatorControl` keeps the command texts apart only as far as their effect differs:
  `pause`, `resume`, `run` (every handler that answers at once and works in the
  background) and `ignored`. `stop()` aborts the poll and the process exits, a crash in
  the model.
* `PaymentBudget` treats a missing and an unreadable file alike, as `hydrate` does. Two
  overlapping writes of the file leave the body written last; a tail that a longer body
  leaves under a shorter one is not modelled. Payments are small numbers.
* `ExecutionPlans` and `PlanPolicy`: the code matches regular expressions against a
  shape's key, action and variant; a shape has the set of words they would find. Amounts
  are small numbers, a missing field is `Null`.
* `Execution`: everything that can fail before a group is sent (gateway, decoding,
  warnings, price impact, simulation, a missing signer) is one action, `Fails`, as all of
  it throws to the same handler and changes nothing. A group lands or does not; what it
  changes is its role's effect on opt-ins, escrows and the farm escrow. An escrow is
  named by the call that created it.
* `PlanRuns`: `LandLate` confirms or drops a group after the executor gave up on it.
  The model's plans are explicit sequences (dependencies on nothing, on a swap, on each
  other in a circle, a duplicate claim, a zero amount, a hold); catalogs may fail to load
  or hold another market of the same wallet assets.
* `PlanRuns`: the reader passes on what the gateway lists. Each position is listed as it
  is or as it was at some earlier moment (`CaughtUp`): a stale `sourceTimestamp` is a soft
  caveat and stops nothing (`portfolio.ts:71-82`). Any positions may be missing from a
  snapshot that says it is incomplete, as those of a protocol that is `partial` or
  `unavailable` are (`portfolio.ts:64-69`, `103`). A review with such a snapshot is refused
  by the policy; the unwind goes on (`deterministic-unwind.ts:579`). The liquid balances
  come from algod and are current.
* `PlanPolicy`: a key names what its shape does, so that `Preparations`, the keys of
  setups, opt-ins and creations, tell the preparatory shapes of any market apart from the
  others.
* `CanixClient`: what a tool does is not told apart; only whether its request reached the
  server, whether its payment settled, and what the client believes of its session. An
  error of the transport, the one for a forgotten session included, is one the
  classifiers recognise or not (`client.ts:607-651`: two codes and three texts); the first
  reconnects and is retried, the second fails the call and leaves `connected` as it was.
* `Ledger`: prices stand still and only transfers move the total, so that the right P&L
  of every window is 0 and every other number is an accounting error. One total stands
  for balances and protocols. It sums what has a price (`combineKnownTotals`,
  `accounting.ts:593`): any part of what the run saw may be left out of it, and it is
  unknown when nothing is priced. A date is the transfer's, or the present moment when
  the indexer gives none, or any date at all when the cashflow is posted by hand. A
  baseline is committed or not. Object keys are (event, month), as in the code.

Definitions under a `\* Bug:` comment (and the group with that heading in
`RunCoordinator`) are mutations used to see that a property can fail; no action uses
them. Each module with state has a `TypeOK`; it is proved for the coordinator (`TypeCorrect`)
and the plan runs (`WorkIsTyped`), is part of the invariants of other proofs where they
need it, and was checked with the instances while they were developed; the runs keep to
the properties below.

## 3. Runs

| run | bounds | shows |
|---|---|---|
| `coordinator` | 4 callers, repeated calls | exclusion, a truthful flag, an exact queue, no barging, every waiter runs, refinement of `FifoLock` with fairness |
| `bot_runs` | 5 calls, 4 started runs, 2 actions, 2 waves | running flags match calls, tasks only inside the lock, no trading in a task that starts paused, every call returns |
| `operator_control` | 3 updates, 2 crashes, answers of 2 updates | at most once, no replay, no loss, the switch survives, every update is consumed |
| `payment_budget` | 2 builds, 1 charge, 2 days, 1 restart, cap 3, ceiling 2 | when the cap holds, by how much it can be exceeded, a counter that covers what was released, a restart that remembers |
| `execution` | 3 calls out of 13 kinds, balances up to 2, 1 crash | what an answer says of the chain, no lost or doubled escrow, no deposit into an escrow that cannot take it, amounts within the wallet, each claim with its own quote |
| `plan_runs` | 2 runs, 5 waves, 1 group in flight, 8 plans, 3 catalogs, 3 wallets, any lag and any gap of the listing | each action once, dependents wait, status and chain agree, flat means everything shown is closed, stuck has a cause, nothing forfeited |
| `mcp_client` | 1 agent run in full or lite mode, or a read beside a probe; 2 faults, recognised or not, 1 dying session, 2 tool calls, 2 calls a turn, 1 search, 1 page | which recognised faults are survived, what can be paid twice, which receipts are reported, every run ends |
| `stores` | ledger: 1 transfer, 4 moments in 2 months, window 1, 2 runs, 1 fault; history: 6 moments in 3 days, retention 3, 3 reviews, limit 2, 1 stop | funding is not profit but for what has no price, one cashflow per event, no summary without its snapshot, no recent review hidden |

Four callers are the least for which a hand-over, a queue of two and an arrival can
coincide; five calls give every service a rival and the unwind two. Three updates with
two crashes let a crash hit before, between and after the handlers of one answer, and
three updates exceed one answer. Two builds with a cap of 3 and a ceiling of 2 reach the
exact overshoot bound; two days and a restart cover a restart on the same and on the
next day. The builds are symmetric (`PayersAreAlike`, a safety run).

Three executor calls let an escrow be set up with an unknown end, found or missed by a
second call, and used by a third; the thirteen calls are one for each path of the code
(hold, swap, compose, batch with and without prerequisites, escrow with and without the
pool in the input, exit, single claims with the desk's quote, claim batches, co-signed
groups, claims Tinyman submits). Two runs let an unwind follow a review, or another unwind,
whose group is still in flight and whose changes are not listed yet; five waves are
enough to take the longest position apart (claim, uncommit, exit, and the receipt it pays
out) and to see a standstill. Two faults are the least that
defeat a retry, and a third outcome (a dead session) comes on top. Two accounting runs
and one transfer have every order of read, `asOf`, record and list; four moments put a
transfer on, before and after each snapshot and into either month. Three reviews exceed
a listing of two, and six moments let a review expire while it is listed.

The bounds `MaxRuns`, `MaxUpdates`, `MaxCrashes`, `MaxDays`, `MaxCalls`, `MaxLate`,
`MaxFaults`, `MaxDeaths`, `MaxTime`, `LastTick`, `MaxReviews`, `MaxStops` are guards of
the counting actions; `MaxActions`, `MaxAmount`, `MaxTurn`, `MaxSearches`, `MaxPages`
bound an input; `MaxWaves`, `Ceiling`, `Limit`, `MaxToolCalls`, `Window`, `Retention`
are the code's own settings, made small. A run that is finished has nothing left to do,
hence `CHECK_DEADLOCK FALSE` in the runs whose bounds run out.

All runs but `coordinator` and `bot_runs` have every fault of their module switched on. A
history variable (`faults`, `hazards`, `gaps`, `unseen`, `raced`, ...) records which ones
happened, and each property names the only faults that can break its promise, so the
properties say at the same time what holds without them and that nothing else can go
wrong:

* a command is dispatched twice, or replayed by a restart, only if the one drain request
  at boot failed or did not return the whole backlog (Telegram returns at most 100);
* the switch of a live process is not the one the operator was told only if a write
  failed or a crash hit inside one: the error is logged and swallowed, and an unreadable
  file counts as not paused;
* no fault makes the loop lose a command that arrived after the drain;
* the daily cap is exceeded only by builds that overlap between check and count, or after
  a restart that read a file that was not written properly (a failed write, a crash
  inside one, or two unordered writes); for overlapping builds within a day the excess
  is at most one ceiling for each build but the first;
* the counter loses spend within a day only to a build that was checked before midnight
  and counted after the rollover: `rolloverIfNeeded` resets for any other day, an earlier
  one included;
* an action reported as confirmed is on chain (a claim: at least one of its groups; a
  claim Tinyman submits is taken on its word). One that is on chain in full is reported
  as confirmed unless the wait for it was given up, its escrow key could not be stored,
  or it is the swap of a compose call whose enter failed afterwards;
* the key of a funded escrow is lost, or a second escrow made, only by a call that
  crashed, gave up waiting or could not store the key;
* a review is called confirmed only when every action landed. When it is called neither
  confirmed nor partially executed, what landed is what the executor had given up on or
  the swap of a failed compose;
* an unwind that says completed or no-op leaves a position it could close only if its last
  snapshot lacked that position, and then that snapshot was incomplete; and no receipt it
  knows of unless a group given up earlier brings it in afterwards. It is stuck only after
  a failed action or such a late group, on a listing that still shows what the last wave
  did away with, on rewards that accrue faster than it claims, or on a receipt whose
  unstake the policy rejects;
* one fault whose error the client recognises never fails a managed call, one it does not
  recognise fails it at once, and what that leaves of the session changes neither; a second
  payment needs a fault that hit the first;
* a run that ends well reports every settled payment but one for each fault it met and
  the pages of a search for held positions that found nothing;
* over a window in which every transfer was seen, recorded in time and dated right, P&L is
  exactly what its two totals leave out differently for want of a price;
* a cashflow is stored twice only if two recordings of it overlap or it is posted by hand.

Runs that are expected to find a violation, each a disagreement between the code and
what it says of itself (quoted in `PROJECT.json` under `findings`):

* `pause_holds_trading`: `/pause` does not hold trading of a run in progress. A waiting
  run does honour it (`NoTradingIfStartedPaused`).
* `snapshot_disappears`: a refused or failed accounting run hides the completed
  snapshot, and the API says that none has completed yet.
* `stale_replay`: a failing drain at boot replays commands sent before the restart. A
  command whose handler ran just before the crash is then dispatched a second time.
* `payment_cap`: concurrent builds exceed the daily cap.

### Fairness

`RunCoordinator!Fairness`: the continuation of a resolved promise runs, and a task
settles. `BotRuns!Fairness`: a started call goes on. The awaits in a task are MCP calls
(120 s timeout, `client.ts`), HTTP calls with the default header and body timeouts of
the runtime, waits for 8 rounds (`execution.ts:1485`), and storage. Nobody has to make
a call, to pause or to resume. `OperatorControl!Fairness`: the container is restarted,
Telegram and storage answer in the end, and each started handler goes on; crashes are
bounded and nothing is assumed of them, nor of a particular answer being delivered.
`CanixClient!ClientFairness`: the request at the head of the queue is answered or fails
(the SDK's own timeout; a dead session answers with an error), and a payment build
returns. It does not say which: a request may fail as often as the bound admits.
`AgentRun!Spec` adds that a run goes on when its answer is there and that the model
answers or fails within its timeout. `EveryRunEnds` says that the queue, the reconnects
and the retries together never stand still. The other modules have no liveness property:
what they do between two answers is a straight line, and their callers' termination is
`EveryCallAnswered`.

## 4. Proofs

`RunCoordinatorProofs`, for any set of callers and without an assumption. The safety
invariants are not inductive one by one: that a hand-over grants the lock to exactly one
caller needs the queue to hold queued callers without repetition, and that an arriving
call may take an open lock needs nobody to wait at it. `IInv` is their conjunction with
`TypeOK`. `TailOfExactQueue` and `AppendToExactQueue` say what the two queue operations
do, `StepKeepsIInv` goes through the branches of `runExclusive`, and `Invariance` gives
`SafeSpec => []IInv`, from which `TypeCorrect`, `RunsExclude`, `BusyIsTruthful`,
`NoLostWaiter` and `ArrivalOrder` follow. `StepRefines` maps each branch to a step of
`FifoLock` or to a stutter, which gives `RefinesFifoLock` for the safety part.

`StoresProofs`. Accounting, for any finite set of transfers, any amounts, bounds and backend, from
`LedgerAssumption`. `SummaryNeverAhead` (`SummaryHasSnapshot`) needs `HistoryInv`: the
summary repeats the snapshot of some run up to the present one, of an earlier one as
long as the present run may still write its own, and a run past its snapshot has it
stored as it will repeat it. `CashflowsStay` (`CashflowsAreImmutable`) needs `CashInv`: a
recording that looked its transfer up and races with nobody is the first to store it
(`FirstToStore`), one past the key check still has the key to itself (`KeyIsOurs`), every
race is noted (`Noted`), and what is stored without a race is in one month (`OneMonth`).
The lemmas `Beginning`, `Finding`, `Storing` and `GivingUp` are the four things a
recording does; `StoredStays` is the part of the property about replacement.
`PnlIsNeutral` (`PnlIsFlowNeutral`) needs `NeutralInv`: every stored or remembered total is
the sum of transfers that had happened by its `asOf` less those it leaves out (`TotalsInv`,
`Sound`), a cashflow
lies in the month of its date and follows its transfer (`DatesInv`), and a
P&L was reduced by cashflows among which each rightly recorded transfer since its start
counts once (`PnlInv`, `Counts`). That sums can be split (`SumsSplit`) and taken over keys
instead of transfers (`SumsRename`) is proved by an induction over the subsets of a finite
set, stated with a set of sets (`SetInduction`) and taken from well-foundedness, because
the provers cannot instantiate the induction theorems of the library.

The review history, for any number of reviews, days, crashes and failing writes, both
stores, from `HistoryAssumption`. `ListingInv` says of each review that was there when the
listing began what it is `Owed`: as long as it is young, its file is there and its key is
still to be read or it is shown; and of each summary that its moment lies on the day of
its review. `ExpiredIsOld`: neither the rotation nor the listing takes a review, or half
of one, for older than it is. `NewestFillsUp`: the summaries are ranked without ties, so
what does not make it into the newest ones is behind a full list.

`BotRunsProofs`, for any set of calls, from `CallsAssumption` (the three services' calls
are different ones). `StepUsesLock` maps each step of a service to a step of the
coordinator or to a stutter, which brings `IInv` of the coordinator along (`LockInv`). On top of it, `RunsInv` is inductive: `StepsInv` fits the
await of a call in its service to the one in the coordinator (`Match`), `FlagsInv` says
whom a running flag is up for, `TradeInv` that a call that may still trade began while it
was allowed. `Turns` is what a step of the lock does to callers; the lemmas named
`...Keeps` go through the actions. `FlagsAreTrue`, `TasksAreExclusive` and
`PausedRunsDoNotSign` follow.

`OperatorControlProofs`, for any number of updates and crashes and answers of any length.
`LoopInv`: `Numbers` orders the identifiers, `Answer` says that the answer in hand is the
oldest part of what Telegram held, `Dealt` what was made of every update that is neither
held nor in hand, `Once` that one that was dispatched will not be fetched again. It gives
`CommandsRunOnce`, `NothingStaleAfterDrain` and `NoCommandIsLost`. `SwitchInv` relates
the switch, what its file would be read as, and what the operator expects; it gives
`SwitchIsKept`.

`AgentRunProofs`, for any number of callers, calls, faults and session deaths, from
`AgentAssumption`. `ClientInv` says of each call that it is `Sound`: it was retried only
after a fault, has built at most as often as it was asked, ends with a recognised error
only after its last fault, and pays only if it has a price; and that a second attempt has
no session, which is why a session that died, or that an unrecognised error left behind,
costs no retry. It gives `KnownFaultsAreRetried` and
`PaysTwiceAfterFault`. `AgentInv` comes on top of it: the stage of a run says
which of its calls are under way (`Agrees`), and what was charged to it is what it keeps,
what waits for it in an answer and what it has lost, the last at most one per fault
(`Balanced`). `Shift` is the change one step of the client makes to that balance, `Grown`
the one a step of the run makes; `NothingIsHidden` is the balance of a run that is over.

`PaymentBudgetProofs`, for any finite set of payers, any charges, amounts, days, crashes
and failed writes, from `BudgetAssumption`. `CounterInv` has four parts. `SpanInv`: no day
is ahead of the clock. `StraightInv`: while no payment straddled a midnight no day is
ahead of the counter either, and the builds that are still to sign on its day leave
`Room`, one ceiling for each but the one checked last. `DurableInv`: what is released and
what the builds that are writing will release (`Owes`) stays within the counter on its
day and within the bound on any; the sum is `IsTotal`, which asks for a function that
sums every set of payers, so that changing one amount (`TotalOfChange`) needs no
induction. `RecallInv`: the file, or the body about to be written, covers the day.
`OvershootHasBound`, `CounterIsComplete` and `RestartIsInformed` follow. `CapHolds` has
an invariant of its own, `CapInv`: one build signs and one writes at a time, and what is
released on a day leaves room for the one that signs.

`ExecutionProofs`, for any calls, crashes, late or lost confirmations and failed writes,
in five layers. `EscrowInv`: `ProgressInv` says where a call stands among its groups,
`RoleInv` that only a call that found no escrow has a setup group, and that the key in its
memory is its own, `FlightInv` that a group whose fate is open is the one its call awaits,
or belongs to a call that was cut off or gave up, `KeyInv` whose key the key of an escrow
on chain is; `NoEscrowIsLost` is their consequence, and `EndKeeps`, `QuietKeeps`,
`AdvanceKeeps` and `SavingKeeps` are the four shapes a step can have. `TruthInv`: the
groups behind the call are done and the others are not (`DoneTo`), what is marked
confirmed is on chain (`Landed`), and only the first group of a swap opts in
(`OptsInFirst`, `AloneInv`); `Finish` turns that into the report, so `ReportsAreTrue` and
`NothingUnreported`. `CoverInv`: the groups that set up, opt in and deposit stand in this
order (`Fits`), and what a deposit still lacks is ahead of it (`Covered`); it gives
`DepositsAreCovered`. `FundsInv` and the lemma `ClampFits`, that clamping the planned
amount bounds every place the amount is quoted from, give `QuotesAreCovered`. Its premises
are needed: an amount the input states only as `assetAmount` is not taken for the planned
one, and is quoted as it stands.

The fifth layer of `ExecutionProofs` is the claim batch, `ClaimsFollowThePlan`, for any
desk, any batch and any order in which the gateway answers. Three facts about operators
come first. `FirstOfEachIs` and `PlanIs`: no quote is planned twice, because the quotes of
one action are distinct and an action adds only quotes that are not planned yet.
`AlignIs`: pairing by shape key is one-to-one, and each claim gets an answer that has its
key. `ShuffledIsAligned`: when the answers are a permutation of the requests the pairing
never runs out of them. A request that found none would leave more requests of that key
than answers of that key, and `Paired`, `Finds` and `OneIsFree` count them. Both operators
are recursive functions, unfolded by `Recursion`: up to a bound, a function that follows
the recurrence exists. On top of them, `ClaimInv` says where the planned claims are among the
groups: an increasing `pos` names the group of the k-th planned claim, an injective `perm`
the quote it carries, which has the same shape key, and the other groups are no claims.
`InsertLinesUp` keeps it when an opt-in is put in front of a group and `QuoteClaimsLinesUp`
when the answers are paired. `RankIs` counts the claims up to a group, which turns `pos`
into the position of the property; without a shared key `perm` is the identity. The
proof attempt corrected the model: `QuotesOf` did not remove a quote that a row lists
twice (`claim-desk.ts:161`), so a batch could have submitted it twice. The desk of run
`execution` now lists one twice.

The proofs about the executor assume `ExecutionAssumption`; `ShapesAssumption`, that
shapes can be sorted by distinct orders, because the sort is a recursive library
definition the prover cannot unfold; `EscrowAssumption`, that the gateway lists setup,
opt-in and deposit (`folks-execution.ts:94`), without which no skipped prerequisite could
be told from a missing one; `ActsAssumption`, the fields a planned action has; and
`DeskAssumption`, that the desk is a sequence of rows, each with a sequence of quotes. TLC
evaluates all of them in run `execution`.

`PlanRunsProofs`, for any plans, claim desks, catalogs and wallets, any number of runs,
waves and groups in flight. It has two halves. The first is about operators: filtering
(`ThoseIs`), `Normalize`, the calls of a review (`ReviewCallsAre`: batch, pairs and the
rest share no action, and each pair has the swap its enter waits for), the order of the
actions (`OrderedIs`: whatever the dependencies, the walk of `orderActions` visits each
action once), the catalog an unwind enriches (`EnrichIs`), the plan of a wave
(`WavePlanIs`: one accepted step for each position that has one, `Priority` first) and
what it means that a wave drafts nothing (`FlatIs`). Functions defined along a sequence
are unfolded by an induction over the numbers up to a bound, stated with a set instead of
a predicate. The second half is the invariant: `Control` and `Wallet` are the types, with the
listing never ahead of the chain (`ListingIs`), and `Seen` is what that makes of a snapshot
(`SnapshotIs`);
`Sent` keeps what was sent apart from what is queued and knows that a review that sends
anything was approved; `Answers` relates the outcomes, what landed and what was given up;
`Sparing` says of every close of an unwind, queued or in flight, that it gives nothing up;
`Progress` says that the last fingerprint is that of the wave in execution and that, as
long as nothing failed, each step the executor answered has left its mark on the wallet,
which the next snapshot shows unless it is stale;
`Flat` is what the last wave saw. `ActionsAreSentOnce`, `DependentsWaitAlways`,
`StatusesAreTrue`, `FlatIsFlat`, `StandstillsHaveCauses` and `UnwindsForfeitNothing` are
all six properties of run `plan_runs`. Assumed are `PlanRunsAssumption`;
`CatalogAssumption`, that an identifier names one opportunity, a key one shape of it, that
the keys the unwind looks for are redemptions, and that a key tells preparations; and `PlansAssumption`, that planned
actions have the fields of an action. TLC evaluates them in the run. The proof attempts
corrected three statements that the run's bounds had not refuted: a group given up by an
earlier run may land during an unwind and so be the cause of a standstill (`troubled`), or
after its last wave and so bring a receipt into a wallet called flat, and such a close may
be the review's, which spares nothing.

Only model-checked: all liveness (`EveryWaiterRuns`, `EveryCallAnswered`,
`EveryUpdateConsumed`, `EveryRunEnds`, the fairness part of `ImplementsFifoLock`), which
is out of the prover's reach. Every invariant a passing run checks is the statement of a
theorem.

## 5. Behaviours a maintainer should know

Found while modelling; the models contain them, and the properties name them as
exceptions where they touch one. None of them is contradicted by a run of this project,
as the code's documents promise nothing of them, unless a line is quoted.

Execution
* Groups are awaited for 8 rounds; a group that is confirmed later belongs to an action
  reported as failed. After a compose call throws behind its swap, both actions are
  reported as failed and the receipts of the call are lost (`execution.ts:1592`).
* The first save of an escrow record and the second one write the same record; a crash or
  a failing write in the second leaves half of a record that had been whole.
* `isExitOrRedeemShape` matches `removeLiquidity` against a lower-cased key and never
  finds it.
* Claims with one shape key are told apart only by the position of their answer: in
  another order each claim executes its neighbour's quote (`claim-desk.ts:272`).
* A claim stays confirmed when its second quote fails. A claim batch may throw before its
  first quote; the executions of the run are lost with it.
* Any error that mentions an asset or says "not found" counts as a balance of zero.

Plans
* `findComposePairs` looks at an enter's swap dependencies only; another dependency of it
  is not waited for (`POLICY.md:21` speaks of a foundation wave without dependencies).
* Normalization drops a redundant prerequisite together with what it depended on.
* `validate` rejects an action that depends on itself, not a longer cycle; `orderActions`
  then throws and the run is "failed".
* `determineStatus` counts the "skipped" of a hold as a failure: a plan with a hold and
  otherwise confirmed actions is "partially-executed".
* Unwind: a protocol that cannot be read, or a listing that lags, is told to nobody. The first
  ends it as "completed" or "no-op" with that protocol's positions open, although "the runner
  loops foundation waves until nothing remains, a stuck fingerprint, or a wave cap"
  (`README.md:561-562`); the second as "stuck" after a wave that did its work. `resolveLstUnstake` compares the receipt with itself and takes the first
  opportunity that redeems anything; the policy then rejects the wave, or a failing
  action ends it as "stuck". A claim that stays listed keeps its position from being closed.
  Without a catalog only xALGO is recognised, and the unwind may be "completed" with
  other receipts in the wallet. A wave that leaves the wallet flat in the last allowed
  round ends as "max-waves". `/pause` is looked at once, at the start. The preview is
  consumed before the checks that may refuse the unwind, and the plan is built again.

MCP client and agent
* An error that is none of the recognised codes and texts (an HTTP status of the transport,
  "fetch failed") is thrown on without a reconnect: the call has no second try
  (`tests/canix402-client.test.ts:446` asserts as much of gateway errors), and a session the
  server has forgotten is used again by the next call, although the comment at
  `client.ts:626` promises "Stale Streamable HTTP session or SDK request timeout — reconnect
  then retry."
* The retries are nested: a managed request may reach the server four times and be paid
  twice (`README.md:738` speaks of one retry).
* An exception in the agent or the reader loses the receipts of the run; a call whose
  companion failed may still be paid afterwards. A search for held positions that finds
  nothing loses its receipts in full mode. A research tool that failed counts as research.

Stores
* Half of `latest.json`, a snapshot or a cashflow on the local store makes every later
  accounting run fail until it is repaired by hand.
* A transfer between a read and its `asOf`, or recorded after a run, is profit of that run's
  daily P&L and is never corrected there (`accounting.ts:284`).
* `putCashflow` treats an equal object as success, but `recordedAt` enters the checksum,
  so two recordings never are equal. `POST /accounting/cashflows` does not look the event
  up, and with a date in another month stores it a second time.
* When the indexer gives no round time, the present moment is used and may be in another
  month.
* A total leaves out what has no price and is still used for P&L, with a note
  (`accounting.ts:563-602`; `tests/accounting.test.ts` asserts the partial totals). A deposit
  whose asset is unpriced in one run is a loss there and a profit when the price comes back,
  although "Accounting P&L then subtracts deposits and adds withdrawals so funding is not
  treated as profit or loss" (`README.md:570-572`): `PnlIsFlowNeutral` says by how much.
* When the summary cannot be written after its snapshot, the next run's daily P&L begins
  at the summary before it and covers that window twice.
* An older accounting run that is still sending its digest can overwrite a newer one
  (`accounting.ts:140`), and a request that meets a review in progress is answered by a
  `busy` result and not by the documented 409 (`app.ts:459`).
* Half a review is listed with the first moment of its day as its start.

## 6. Plan

Done: the coordinator and the runs that use it, the operator's control plane, the
payment budget, execution with its escrow store, plans from policy to status, the unwind
waves, the MCP client under the agent, accounting and its store, the review history.

Left, in this order:

1. The preview dialogue of the unwind (pending token, expiry, confirmation) beside a run.
2. Money: decimal arithmetic and windows in percent.

## 7. Not modelled

* `protocol-verify.ts` but for the builders the unwind borrows from it, `cli/`,
  `smoke-llm.ts` and the one-shot scripts: developer tools that run outside the service,
  one call after the other.
* Health and Telegram formatting: text made of state that others keep.
* Configuration, domain schemas, error formatting, `inference-cost.ts`: stateless parsing.
* Of plans: the protocol an action names and the allocations of a plan
  (`portfolio-policy.ts:322-331`, `373-381`, `483-487`, `520`), whose faults reject a plan as
  the modelled ones do; input hints of positions, which could complete an `open`. Of wallets:
  a confirmed enter adds no position, and rewards that were claimed come back at once
  (`sticky`) or not at all, so a snapshot is late only about what is gone.
* Of execution: loan escrows whose key comes with the metadata of a quote in a batch
  (`execution.ts:788-822`).
* Of the stores: a write to Spaces that fails at the client and lands later.
* Of modelled components: routes and authorization headers, texts of read-only commands,
  the preview dialogue of the unwind, decimal arithmetic and repricing of positions,
  the decoding and simulation of transactions, `close()` of the MCP client, which
  transfers of a transaction count as a cashflow, building an inception review. They
  either change no state or are one possible failure in the model.
