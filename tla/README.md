# Formal models of AOC Capital

TLA+ modules, TLC configurations and TLAPS proofs about AOC Capital: a
multi-tenant Next.js application (TypeScript under `src/src`, PostgreSQL
functions under `src/supabase/migrations`) whose core is a governed
*paper-trading* desk inherited on top of a project-management product.

## 1. The system

Every tenant ("company", "workspace") has its rows in one PostgreSQL database.
HTTP handlers run concurrently, on any number of server processes that share no
memory. A handler typically reads rows through PostgREST with no lock, checks
them in TypeScript, and then calls a plpgsql function, which runs as one READ
COMMITTED transaction. Whatever is atomic is atomic because a SQL function makes
it so; whatever spans two calls is exposed to every interleaving.

| Component | State | Operations | What makes it hard |
|---|---|---|---|
| Governed trading lifecycle (`lib/trading`, `lib/capital/*-service.ts`, migrations 20260901-20260913) | `trade_intents`, `trade_decisions`, `paper_positions`, `paper_signal_recommendations`, `paper_position_close_reviews`, `audit_ledger`, `portfolios.base_capital_usd` | create, convert, submit, cancel, mark, close with review, close directly, re-capitalise | checks on unlocked reads, several SELECTs with a snapshot each, four kinds of lock, two closing paths |
| Market data and mark to market (`live-price-provider.ts`, `mark-to-market.ts`, `trade-service.ts`) | `paper_market_prices`, a per-process price cache, the stored valuation of each position | record a price, mark one, mark all | marks of different callers overtake each other; a bulk mark locks many rows |
| Demo sandbox (`lib/demo`, 20260904*) | the marker event with its manifest, the rows the scenario made | load, reset | a sequence of transactions with no transaction around it; crash and retry in the middle |
| Portfolio seeding and the advisor (`trade-service.ts`, `lib/advisor`) | default portfolio, constitution, capital levels, the day's market signals | get-or-create, confirm a recommendation | check-then-insert from several requests |
| Signal engine and strategies (`signal-engine*.ts`, `strategy-*.ts`, 20260906-20260907) | active strategy, generated recommendations | select, generate | generation supersedes the previous batch while drafts are made from it |
| Upload quota (`lib/quota`, 20260518) | monthly usage row, reservations | reserve, commit, cancel, expire | reservation expiry races the commit; month roll-over |
| Billing (`lib/billing.ts`, `api/billing/webhook`) | subscription state | checkout, webhook events | duplicated and reordered deliveries |
| Agent runtime (`lib/agents`) | execution requests, tool approvals, dispatches, outcomes in tables; policy versions, activations and rollbacks in Maps of the process | request, preflight, approve, run, record; activate, roll back, verify | updates by id after a check on what was read; chains of records whose statuses alone say what may come next |
| Execution task dependencies (`lib/execution-tasks/dependencies`, `api/execution-task-dependencies`) | `execution_task_dependencies`, the graph computed from it | create, infer and materialise, change status, derive ready and blocked tasks | the cycle check is made on a list read earlier, with errors taken for no edges |
| Governance, PMO, vault, memory, dashboards, federation | their own tables | CRUD and derived reads | mostly independent single-row writes |

Within the trading lifecycle the handlers interact only through rows, row locks
and one advisory lock per portfolio. A signal and a draft point at each other; a
verdict turns a draft or a fresh request into a position; a close fixes the
realized result that later verdicts add up; the audit ledger is written in the
same transaction as the change it records. The task dependencies, the agents'
requests, the policy versions and the quota share no rows with it and
none with each other, which is why they are modules beside it and not composed
with it.

What makes it correct: the position limit and the loss limits hold across
concurrent verdicts; an intent is decided once; a signal feeds one live intent;
a position realizes once, at the stored value; the audit ledger and the rows
never disagree; the locks its own requests take cannot deadlock (bulk marks of its
positions can, and PostgreSQL then breaks one off). Of the rest: an upload is charged
once and under its ceiling; what a demo made can be removed and nothing else is;
task dependencies close no cycle and leave no task without a turn; no agent acts
without the approval its risk asks for; the policy a workspace has in force is one that
it approved.

## 2. The modules

| Module | What it is |
|---|---|
| `PaperLedger` | The abstract specification: the rows of one portfolio and the atomic steps by which they may change. No sessions, no locks. |
| `TradeLifecycle` | The detailed specification: request handlers, advisory and row locks, each SELECT of the evaluation a step of its own, rollback at any point, a clock. Its ledger variables are `PaperLedger`'s own, so `Spec => LedgerSpec` states the refinement without a mapping. |
| `UploadMeter` | The abstract specification of the upload quota: holds and charges under a ceiling, with the one way past it. |
| `UploadQuota` | The detailed specification: requests that reserve, store and commit, row locks, expiry, months, the billing page's unlocked reset. It implements `UploadMeter` under the mapping in `Meter`. |
| `DemoSandbox` | Loads and resets of the demo scenario as sequences of calls, beside users who trade and confirm recommendations. It uses intents, positions and the audit ledger, whose own rules are `TradeLifecycle`'s, through one-step versions of their handlers. |
| `TaskDependencies` | The rows of the dependency graph of one project and the handlers that create, materialise and change them, each query a step. |
| `CycleSearch` | The depth-first search `detectDependencyCycle`, step for step, which `TaskDependencies` takes for what it is meant to find. |
| `AgentExecution` | Execution requests of agents: their state machine, preflight, approval and the adapters that run them, with read and write apart. |
| `PolicyActivation` | Activation, rollback and verification of agent policy versions, as a protocol of calls in any order. |
| `MarkToMarket` | Prices, from a feed through a cache or simulated, their stored rows, and the calls that mark or close positions at them, each over several awaits. |
| `MC...` | Symmetry and small constants for TLC. |
| `TradeLifecycle_proofs` (with the ledger's), `UploadQuota_proofs`, `DemoSandbox_proofs`, `TaskDependencies_proofs`, `AgentExecution_proofs`, `PolicyActivation_proofs`, `MarkToMarket_proofs` | TLAPS proofs. |
| `FoldLemmas` | Lemmas those of the quota, the trades and the search share: sums over finite sets, and steps taken over and over. |

An operator named `Faulty...` or `Forgetful...` is used by no specification. It is
the definition below it with a plausible bug; putting it in that definition's
place makes TLC find the property violated that guards against the bug
(`PROJECT.json`, "mutants").

### State and actions of `TradeLifecycle`

`intents`, `decisions`, `positions`, `signals`, `reviews`, `closedAt`, `audit`,
`base` and `now` are the tables' contents (the audit ledger as a set of event
type and subject) and the database clock. `portfolioLock`, `intentLock`,
`positionLock`, `signalLock` are the holders of the advisory lock and of
`FOR UPDATE` row locks. `pc`, `req`, `snap` are what each handler is doing: its
stage, its arguments and locked row, and the plpgsql variables the evaluation has
read (with `closedAtBook`, which is history: what was closed when the open book was read). `granted` is a history variable: the base capital the latest approval was
checked against.

A request is one handler call. The service's own check on an unlocked read is the
guard of the request (`SubmitDraftForReview`, `CancelDraft`, `ConvertSignal`,
`RequestCloseReview`, `CloseRequested`); the same check is made again by the
function under its lock (`LockDraft`, `LockForCancel`, `LockSignal`,
`LockForReview`, `LockForClose`), whose failure raises and rolls back
(`...Refused`). The evaluation is `AcquirePortfolioLock`, `LockDraft`,
`ReadBaseCapital`, `ReadOpenBook`, `ReadRealizedPnl`, and then the verdict with
everything it writes, `DecideApproved` or `DecideRejected`. Nothing a transaction
writes is visible before it commits, so all writes of a function are its last
step; a row it has inserted but not committed needs no state. `Abort` is a lost
connection, a timeout or any other exception.

Abstractions. Amounts are small integers; quantity and price are folded into one
value per position, since no rule but display separates them. The six Level 1
rules are kept one by one, with their comparison operators and with SQL's NULL for
a zero base capital. A draft is long and unlevered because the converting function
writes it so. The action, status, notional and price conditions that make a signal
convertible are one flag, fixed for a signal's life in this module. A foreign key
check on an intent row (closing a position inserts a review that refers to it, or
updates the intent) waits for that row's lock. A direct close also takes an advisory lock
of its position just before the row's lock; no other call takes it, and the row's lock follows at once,
so that it is left out.

### State and actions of `UploadQuota`

`usage` is the company's `company_usage` row and `reservation` the
`quota_reservations` row of each request (its request id is its key). `usageLock`
is the holder of `FOR UPDATE` on the usage row; a commit holds its reservation's
row from `LockReservation` on (`RowLocked`). `call` is what a handler carries along:
number of files, the month key it computed, `now()` of its transaction, how many
files are stored, and the usage row it read under the lock.

`RequestUpload`, `BeginReserve`, `LockToReserve` and one of `ReserveReplayed`,
`ReserveExceeded`, `ReserveApproved` are a call of `reserve_upload_quota`: the month
is read on the server before the transaction starts, and `now()` is the start of the
transaction and not the time it got the lock, so both may be old. An answer that is
lost is the end of the handler; or the call is made again with the same id
(`Unanswered`), for which the function has a branch, though nothing in the application
repeats it. `StoreFile`, `FileFails` and `RollbackAndCancel` are the route's loop;
each part of the roll-back may fail and is not repeated. `BeginCommit` ...
`CommitCharged` are `commit_upload_quota`, with its early returns. `ViewUsage` and
`ResetUsage` are `getCompanyUsage`. `BreakDeadlock` is PostgreSQL's: a commit's
clean-up or a month's purge wants reservation rows of commits that want the usage row.

### State and actions of `DemoSandbox`

`intents`, `open` and `closed` are rows, `trail` the audit events about them,
`advice` those of advisor confirmations, `markers` the `demo_scenario_loaded` events
with their manifest. `stamp` orders the events that are looked up by recency.
`mem` is what a load has in memory and `target` the marker a reset read. `unreversed`
is a history variable: the runs whose rows a reset failed to delete.

One action is one call: `CheckMarker`, `RecordAdvice` (twice), `FetchAdvice` (twice),
`SubmitIntent`, `CloseStep` or `SkipClose` per step of the plan, `ListOpen`, `MarkStep`
per position, two queries of the audit ledger, `WriteMarker`. A query or delete whose
error the code ignores answers nothing or does nothing when `Faults` is set; a call
whose error is thrown ends the request, as a stopped server does (`CutOff`,
`LoadThrows`). The calls of other handlers are atomic here. Whether a submission is
approved is left open, since the whole book decides it.

### State and actions of `TaskDependencies`

`status` is the status of the row of each dependency (two tasks and a type, which the
unique index makes a key); `pc`, `dep`, `to`, `edges` and `queue` are what a handler
carries from one query to the next. `facts` and `known` are history: the live edges
there were when a handler read, and those its insert could take for known.

`CheckDuplicate`, `CheckReverse`, `ListAndRefuse` or `ListAndGoOn`, and
`InsertDependency` are `createExecutionTaskDependency`, query by query. Its reverse check
asks for one row and ignores the error when there are two; a list that fails is taken
for an empty one. `Infer`, then `SkipInferred` or `InsertInferred` for each proposal in
the order of the rules, and `Materialized` are the materialisation, which reads once
and adds to its own list. `ReadStatus` and `UpdateStatus` are the status route. `IsReady`
and `IsBlocked` are what the graph says of a task. `DetectCycle` says what the cycle
check decides: whether the new edge's predecessor can be reached from its successor.
`CycleSearch` has the search itself. The recursion of `dfs` is a step that follows the next
edge of the last task on the path (`Enter`) or leaves it (`Leave`): a task is on the path
exactly while its call has not returned, and what its loop has still to do is told by the
edges that were `tried`. `Search` is the state after each number of steps. For every check a
handler may be about to make, in every order of the rows, `SearchFindsCycles` compares it
with `DetectCycle`, and asks of the path that is reported that it is a cycle through the
new edge.

The texts of the tasks, from which dependencies are inferred, are a given sequence
`Inferred`; event rows are left out, and so is the removal of tasks.

### State and actions of `AgentExecution`

`row` is a request's row in `agent_execution_requests`; `pc`, `on`, `to`, `outcome` are
a call's stage, its request, the state it has found it may write and what it
carries. `runs` counts what adapters have produced; `before` and `approvals` are history.

`CreateRequest` inserts a draft. `ReadForOperation` and `WriteState` are approve, mark
ready, cancel, expire, fail and the two completions, which differ in the state they
write: each reads the row, asserts the transition on what it read and updates by id.
The preflight is two such pairs, `ReadForPreflight`/`StartPreflight` and
`ReadForVerdict`/`WriteVerdict`. A run reads the request once (`ReadForRun`), produces
its output or fails to (`RunAdapter`), and then completes the request, or ignores that
it cannot (`ReadForCompletion`). `Abort` is any failure in between. `TRANSITIONS` is the
code's table; nothing writes `preflight_failed` or `executing`, and `approvalRequestId`
has no setter, which is why `Row` leaves them out.

### State and actions of `PolicyActivation`

Every record is in a Map of the process, and no handler awaits anything that is not
already there: a handler is one action. `requests`, `versions`, `rollbacks` and `pointer`
are the records; `gates`, `approvals` and `executions` are the facts about gates, decisions
and executions that later calls look for; `byHand` and `late` are history. `Decide` and
`DecideRollback` look for a gate but not for the one of their request, and set the status
of a request of any workspace; an execution then looks for an approval recorded in the
request's own (`approvals`). Any version that is ready can be activated for any approved
request (`ExecuteActivation`), also one of another workspace. Where it is put in use is
the pair of the request's workspace and the version's area (`Places`, `PlaceOf`), and this
pair is the key of `pointer`. A rollback belongs to the workspace of its request and takes its
version from the request, its target from that workspace's pointer of the moment
(`RollBack`); `VerifyRollback` looks at the status of the version alone. `SetVersionStatus`
is the exported setter.

Across workspaces some of what one would expect does not hold (see the findings), and the
properties say what does: a pointer names what its own workspace approved
(`PointersWereApproved`); a version of its own workspace that it names is active
(`PointerIsActive`); an active version is in use somewhere, or was when a late rollback came
(`ActiveIsInUse`); and a verified rollback has its version out of use in its own workspace
(`VerifiedIsOut`). A restart, which empties all Maps at once, is left out.

### State and actions of `MarkToMarket`

`positions` is the status and stored price of each position, `prices` the rows of
`paper_market_prices`, `cache` the in-memory prices of each server process. `task` says how
far each subject of a call (a position, or a symbol of a snapshot) is with its price,
`todo`, `wants` and `held` how far its transaction is with its locks. `calledAt` is history.

A price is known by its source and by the moment it was asked for. `Resolve` is what
`recordMarketPrice` and `fetchLivePrice` settle before their first await; `FetchAnswers`,
`FetchFails`, `StorePrice` and `StoreFails` are the rest of them. All subjects of a bulk
mark are asked for at once (`Start`), the symbols of a snapshot one after the other
(`NextSymbol`). The first store that fails ends the call (`PricingFails`) and leaves its other
prices on their way, which are still stored. `Begin`, then `TurnTo` with `LockPosition`,
`PassOver` or `Refused` for each position, and `Commit`, are the four SQL functions: a bulk
mark, a single mark, a direct close, and a reviewed close, which brings no price. The demo's
mark and close force the simulated price.

Its rows are `TradeLifecycle`'s positions seen from another side: there a mark or a close is
given its value and the locks of intents and reviews matter, here it is the value's way that
matters. Left out: the amounts, the audit event of a single mark, positions opened meanwhile
(no call that listed the positions before would touch them).

### The runs

| Run | Instance | What it shows |
|---|---|---|
| `lifecycle_race` | 3 sessions, 3 intents, 3 positions, 1 signal, limit 2 | `OpenLimit`, `DecidedOnce`, `SignalClaim`, `LedgerMatchesRows`, `FinalRowsStay` under all interleavings of all requests |
| `lifecycle_losses` | 2 sessions, 2 positions, clock 0..3 with windows 1 and 2, both sides, two leverages, two sizes, two base capitals | `PositionPerApproval`, `RealizedIsExact`, `ExposureWithinGranted`, `LossesCounted`, `ReviewIsTheClose`, `TypeOK` |
| `lifecycle_refines` | 2 sessions, one of everything contended | `LedgerSpec`; `RequestsEnd` under `FairSpec` |
| `quota_safety` | 3 uploads of 1 file, limit 2, one billing request, a month of 2 ticks, clock 0..2 | `CountIsCharges`, `OnlyLateOverrun`, `ChargedOnce`, `TypeOK` |
| `quota_refines` | 2 uploads of 2 files, limit 3, clock 0..2 | `MeterSpec`; `RequestsAnswered` under `FairSpec` |
| `demo_faults` | 1 load of two submissions and a close, 2 resets, a confirmation, a trader, ignored errors | `NamedOrCutOff`, `RowsHaveEvidence`, `TypeOK` |
| `demo_concurrent` | 2 loads of one submission, 2 resets, a trader | `NamedOrCutOff`, `NothingLeftBehind`, `RealRowsKept` |
| `tasks_graph` | 2 handlers, 3 tasks, 2 types, 2 requested and 2 inferred dependencies that close a cycle in two ways | `CyclesAreRaces`, `NothingStalls`, `SearchFindsCycles` |
| `agent_runs` | 3 calls on 1 request of any mode and risk, at most 2 runs | `RunsWereAllowed`, `ApprovalWasAsked`, `FinalUnlessStale`, `TypeOK` |
| `policy_rollback` | 2 workspaces, 2 requests, 2 versions, 2 rollbacks, 2 areas | `PointersWereApproved`, `PointerIsActive`, `ActiveIsInUse`, `VerifiedIsOut` |
| `policy_pointer` | 2 workspaces, 2 requests, 2 versions, 1 rollback, 1 area, no status set by hand | a violation: `PointerIsCurrent` |
| `marks_prices` | a bulk mark or a reviewed close, and a call of any kind, 2 positions of 1 symbol, one server, a cache of 2 ticks, buckets of 1 and 2, clock 0..2 | `MarksHaveRows`, `MarksAreFresh`, `ClosedStays`; `CallsEnd` under `FairSpec` |

Bounds. Three sessions are one more than any pair of handlers that can conflict on
a row, so one can wait while two others change what it waits for. Three intents and
a limit of two positions let a third approval be wrong; one signal is enough for
every double claim, since claims of different signals share nothing. The clock
passes both windows with a position closed before, inside and on the edge of each.
`MaxTime` bounds the clock and `RowsLeft` the number of new rows; nothing else is
bounded. Identities of rows and sessions are interchangeable, so they are symmetric
in the safety runs; the liveness and refinement runs use no symmetry.
`lifecycle_race` does not check for deadlock: when every row is used up and closed
there is nothing left to ask for. That no request waits for ever is `RequestsEnd`.

Quota: with a limit of 2, three uploads of one file can pass, fill and exceed it; a
reservation lives one tick, so within three ticks it can expire before, at and after
its commit, in the same month or the next. `MaxTime` bounds the clock; nothing else is
bounded. A quota run stops when every upload has ended, hence no deadlock check; that
none waits for ever is `RequestsAnswered`.

Demo: two loads are enough for one to overtake another, two resets to work from one
marker or from two; a third of either meets the same rows in the same states. The
scenario of the code has five submissions and two closes; what a load does to a row
does not depend on the others, so that one closed and one open row show every fate.
Every request runs once; a user's session makes one call.

Tasks: three tasks make the shortest cycle that is not simply two edges facing each
other, which the reverse check would see, and two handlers are enough to overtake each
other. One requested edge closes a cycle with the inferred ones, the other faces it with
another type. `Touched` bounds the dependencies whose status users change to one
requested and one inferred.

Agents: requests do not touch each other, so one is enough; with three calls two may
write over what a third has read. `MaxRuns` bounds the count of runs; one after a
first is all a property can tell apart.

Policy: two versions of one area are the least that can replace each other; the second
area and the second workspace let a request activate a version of another one. Both
requests and rollbacks may be of one workspace, or one of each. `RequestDecisions`,
`RollbackDecisions` and `HandStatuses` bound the statuses given by people to those some
other handler asks for; the proofs are for any of them.

Marks: a bulk mark is the only call with two locks, so two of them, or one beside any
other call, show every way to wait; the reviewed close in its place lets a single mark
or a direct close come too late. Two positions of one symbol share a cache entry, a
bucket and a row. The clock passes the end of the cache's life and of both buckets; a
cached price can be older or newer than the time a call has noted. `KindsOf` and
`MaxTime` are the bounds; each call is served once. The proofs are for any number of
calls, servers and symbols.

The runs of tasks, agents, policy and marks check no deadlock: a final request, a used-up row or a verified rollback leaves
nothing that has to be done.

Fairness. PostgreSQL queues the waiters of a lock in order and runs every
transaction that can run, so a session whose next step is enabled again and again
takes it: strong fairness of `Serve(s)`. Requests, marks, the clock, changes of
the base capital and failures are not fair: nobody has to act, and a property that
needed a transaction to fail would be worthless. For the quota: strong fairness of
`Serve(r)` for the same reason and because storage calls return; weak fairness of
`BreakDeadlock(r)`, which is PostgreSQL's deadlock detector; strong fairness of
`Answered(r)`, so that whoever repeats a reserve call is answered unless every answer is
lost; strong fairness of a billing request's write. For the
marks: strong fairness of `Serve(h)`, which holds the end of a request to the feed, since
`fetchLivePrice` aborts it after four seconds and Node gives up a body that stalls, but
neither an answer nor a store that fails; weak fairness of `BreakDeadlock(h)`. The demo has no
liveness property: a load or reset may be cut off, and nothing resumes it. Nor have
the dependencies, the agents and the policy: every step of theirs waits for a call that
somebody may never make, and a call that stops is not resumed.

### Findings

* `PointerIsCurrent`: `docs/agent-controlled-policy-version-activation-rollback-gate.md:36`
  has a "workspace-scoped pointer to current active version". An activation checks the
  workspace of its request but not that of the version
  (`agent-pmo-policy-activation-service.ts:510,522-531`). In the run one workspace activates
  the version another one created; the other then rolls its request back, which finds the
  version by the request, and the pointer of the first is left at a version that is
  rolled back. That rollback is then verified while the other workspace still
  has the version in use. And a version active in another workspace is active beside the one
  its own workspace has in use, and may be the one that a rollback of their request takes.

Also seen in the models, without a run of its own:

* Trading: the exposure rule is described as a bound on total open notional
  (`trade-service.ts:56`) but only evaluated when a trade opens, and confirming a
  smaller advisor recommendation changes the base capital under open positions; what
  does hold is `ExposureWithinGranted`. The demo closes positions without the review that
  `position-close-review-service.ts:3-6` calls the only path.
* Quota: a reservation stops counting when it expires while its upload is still storing
  files; a second upload then passes against the same room, and both are charged, where
  `upload-quota.ts:65-66` and `upload/route.ts:258` say two requests can never both pass.
  `OnlyLateOverrun` is what is left of the promise. Looking at the billing state can set the count of the current month to zero
  (`usage-limits.ts:10`), the uploads charged meanwhile included. A commit whose month has
  ended is answered with an error after all files were stored, where
  `20260518000000_quota_atomicity.sql:247` says the user is not penalised.
* Marks: `trade-service.ts:552-553` records each price so that every mark is auditable, but
  the row of a bucket is overwritten by the next price of that bucket, and at the hour a
  live price and a simulated one fall into one row; `MarksHaveRows` is what is left. Two
  positions of one symbol may be marked at different prices in one bulk mark, and two bulk
  marks can deadlock, whereupon one of them fails. The abort timer of the feed is cleared
  before the body is read (`live-price-provider.ts:159,166`), so the four seconds do not
  bound a call.
* Demo: the marker is looked for first and written last, so that two loads both load. A
  load looks its two advisor events up by recency, so that its manifest may name a user's
  instead, which the reset then deletes. It marks the user's open positions too, with
  audit events that no reset removes (`demo-write-service.ts:198-207`). A reset whose
  delete of the rows fails deletes their events and their marker all the same and answers
  that it has reset (`demo-write-service.ts:270`): the exception in `NamedOrCutOff` and
  `RowsHaveEvidence`.
* Dependencies: a cycle can come of two creations that overlap, of a list that could not
  be read, or of an old edge brought back by a late status update. Its tasks then wait
  until somebody invalidates an edge.
* Agents: an approved request of high risk can never run, since the approval the adapter
  looks for has no setter. A preflight may be by-passed by marking the request ready in
  between, which `RunsWereAllowed` shows to be harmless. Two calls that overlap both run, and one
  whose completion is refused may be made again: nothing limits the number of runs. A
  draft that was run dry is never completed. A final state can be overwritten by a call that
  read before it.
* Policy: a decision may rest on the gate of another request, and may be recorded in another
  workspace than the request's: it changes the request's status all the same
  (`agent-pmo-policy-activation-service.ts:384-411`), but is no approval when the request
  is executed. A rejected rollback leaves its
  request in `rollback_requested`. A rollback executed after another version was activated
  brings its own version back to `active` beside the one in use; one approved twice is
  executed twice.

## 3. What is proved

`LedgerInv` is the inductive invariant of `PaperLedger`: the row shapes, that
rows not yet inserted carry no data (`Blank`, without which an unused intent could
seem to own a signal or a position), and the five safety properties. One lemma per
conjunct, one step per action. `LedgerFinal` proves the action property from it.

`LifecycleInv` is the inductive invariant of `TradeLifecycle`. Its heart is
`Knows(s)`: what a session established under its locks is still so when it
writes. That is not local to the session, so the proof has two halves: a step of
`s` gives `Knows(s)'` (`QuietKnows`), and leaves every other session `Undisturbed`
(`QuietUndisturbed`, `WritesUndisturbed`), which keeps what it knows
(`UndisturbedKnows`). The part that needs the advisory lock is
`Cardinality(Open) <= snap[s].open`: between counting the open book and the verdict
nobody else can open a position, while closes only make room. From `Knows`, every
step is a step of `LedgerNext` or a stutter (`StepRefines`), hence `Refinement`
and, with `LedgerInvariant`, the safety properties for any number of sessions,
rows and any limit. The audit ledger is not part of `PaperLedger`; `AuditInv` is
proved on top of both invariants.

Two properties of the lifecycle are about sums. `ExposureInv` adds to `ExposureWithinGranted`
what the limit depends on: the exposure a session has read is never below the current one
until it decides. Others may close positions meanwhile, which lowers it, but only the
holder of the portfolio's lock opens one (`ExposureStep`); an approval then adds its own order to
a total it has checked. `LossInv` adds to `LossesCounted` that a position closed when the open book
was read is closed still. More may be closed before the totals are read, and after: the
losses are those of what was closed at that read, and no later step changes their results
(`ClosedForGood`, `ResultsKept`).
`BookTypes` is what the sums need of the types; `TypesHold` follows.

`QuotaInv` is the inductive invariant of `UploadQuota`, proved for any number of
uploads, sizes, plans and months. What a commit read under its locks is still there
when it writes (`CommitIsCurrent`), and its reservation row cannot go while it holds it
(`RowsKept`); a request that has not committed has not been charged (`Unfinished`).
From these, `ChargedOnceHolds` and `CommitsAreCurrent`. `SumInv` adds that the count is the sum of
what was charged (`Counted`), and that what is reserved for any month fits the plan (`MonthsFit`),
not just for the month the usage row is in: a call of another month may turn the row to its own.
Under it every step is a step of the meter: most only let reservations lapse or start the count
again, and what remains is an approved reservation and a charge, in time or late
(`StepKinds`, `SumsPreserved`). Hence `CountIsChargesHolds` and `QuotaImplementsMeter`.
`MeterNeverOversold` is the invariant of the meter, and with the refinement it gives
`OnlyLateOverrunHolds`.

`DemoInv` is the inductive invariant of `DemoSandbox`, for any number of requests, any
scenario and both values of `Faults`. A finished load adds no rows, so that a marker, or
the marker a reset has read, names all that is left of its run for good (`Sound`); an
unfinished one has its rows in memory (`RowsRemembered`). `Moves(r)` says whose step it
is and what such a step leaves alone; nearly every case of the proof is another
request's step and follows from it. `RowsAreNamed`, `EvidenceKept` and the action
property `RealRowsAreKept` are read off the invariant. `NothingIsLeftBehind` needs `TrailInv`, which
follows the events of a load as `DemoInv` follows its rows: into the load's memory, where the
manifest's two queries look their subjects up, from there into the marker, and out with it. Two
resets may work from one marker; the second finds the marker, or none of its events
(`TargetsComplete`). Without the marker's completeness, deleting it could orphan an event.

`DependencyInv` is the inductive invariant of `TaskDependencies`, for any tasks,
dependencies and handlers: a handler about to insert has found no path back among the
edges it knows (`Checked`), and no row has one among those its inserter knew. What ties that to
cycles is `CycleWithout`: if an edge can be taken out of a cyclic set and leaves it free of
cycles, there was a path back from its successor to its predecessor; `CyclesAreRaces` follows.
`NothingStallsHolds` needs no induction: in a project without a cycle, the waiting tasks would
otherwise all wait for one another.

`SearchFindsCyclesHolds` is about the search, for any graph, any order of its rows and any
handler that checks. `SearchOk` is the invariant of its steps: the path is a simple path from
the start; until the target is found, it has not been visited, whatever was tried has been
visited, and only tasks on the path have edges left. An empty path then leaves a closed set of
tasks without the target, which refutes `DetectCycle`; a path that ends in the target goes
through every closed set that holds the start (`PathInClosed`). Every step lowers `Ahead`, twice
the number of untried edges and the length of the path, so that `Steps` are enough.

`FoldLemmas` proves what those arguments use of recursion. The library's induction rules take an
operator as a parameter, so its lemmas go by a smallest subset, or a smallest number, that would
be an exception (`SmallestSubset`, `SmallestNat`): that the recursion of a fold over a finite
set or of a loop defines something, that a sum does not depend on the order, and
what adding, removing or changing an element does to it.

`AgentInv` says of a call what it may still write, whatever others have written since, and
of a request that one of high or critical risk never runs at all, for want of an approval
on file. `RunsWereAllowed` asks for less: what would still be owed if such requests
could run.
`FinalUnlessStaleHolds` is an action property read off the same invariant.

`PolicyInv` is the conjunction of the three safety properties, the types and two facts they
need; none of them is inductive alone. `RecordsKnown` says that versions and rollbacks refer to
records that exist, a rollback to a version of its own request: with it a version keeps its
workspace (`HomesStay`), so that a rollback touches the version in use at one place of
its own workspace only. `ActivatedOnce` says that a version nobody set by hand is named by the pointer of one
place at most, and by none while it is ready: an activation at another place
could otherwise supersede it while its home has it in use. `NewNames` and
`ActivationsStay` are the two facts about steps behind all of it: a pointer comes to name a
version only by an activation there, and what was activated stays so. `VerifiedIsOutHolds`
follows from `PointerIsActive` and `RecordsKnown`.

`MarketInv` is the inductive invariant of `MarkToMarket`, for any number of calls, servers,
positions and symbols. A price in hand is fresh and, once its task is done, has its row, which
is only ever replaced by one of the same symbol and bucket (`PriceOk`); a call enters its
transaction with all its prices (`CallOk`), and a locked position is open and locked by one
call (`LocksOk`). Without the last, `ClosedStaysHolds` would not follow from a check made
when the lock was taken. What a bucket is plays no part in the proof.

Assumptions: `MarketAssumption` (positions are not symbols, the lengths of the cache and the
buckets are positive), `DependencyAssumption` (dependencies join two tasks, inferred ones two different
tasks, and users ask for finitely many), `ExecutionAssumption` and `PolicyAssumption` (null is no record, decisions give the
statuses they can give), `QuotaAssumption` (sizes and month length are positive,
uploads are finitely many),
`DemoAssumption` (the kinds of requests are distinct, a plan is a sequence of
submissions and closes), `LedgerAssumption` and `LifecycleAssumption` (sizes are positive,
sides are the table's CHECK, positions are finitely many, null is no identity).

The types of the dependencies, the policy and the marks are proved and not checked by a run.

Only model-checked: `RequestsEnd`, `RequestsAnswered` and `CallsEnd`, which are liveness under
fairness. Every safety property and every refinement that a passing run checks is
also a theorem.

## 4. Plan

1. (done) `PaperLedger`, `TradeLifecycle`, their refinement and proofs.
2. (done) `UploadMeter`, `UploadQuota`, their refinement and proofs.
3. (done) `DemoSandbox`, checked and proved.
4. (done) `TaskDependencies` and `CycleSearch`, checked and proved.
5. (done) `AgentExecution` and `PolicyActivation`, checked and proved.
6. `BillingWebhook`, once the code lets an event reach the subscription's row (section 5):
   the row follows the newest event, with the subscription as Stripe has it for the
   abstract specification; concurrent checkouts.
7. (done) `MarkToMarket`, checked and proved but for `CallsEnd`. The sums of a bulk mark,
   and its positions as a refinement of `PaperLedger`'s marks, are left.
8. `PortfolioSeeding`: get-or-create of the default portfolio, constitution, levels,
   and the daily signal seed from several requests.
9. `SignalEngine`: generation against conversion; makes `convertible` a variable.
10. `RiskPolicy`: the TypeScript engine against the SQL evaluation, as operators over
    bounded inputs.

Proofs: that a bulk mark is a sequence of the ledger's marks (7), then the safety invariants
of 8 and 9.

## 5. Not modelled

Within the modelled parts: a marker whose payload does not parse (the reset answers
`manifest_unreadable` and does nothing); the limit of 50 rows when positions are
listed; that a demo reset deletes rows which `TradeLifecycle` takes for final (a reset
is not among its requests); the validation of uploaded files; the rounding between a
position's quantity, price and notional; the conversion of drafts into tasks and the
updates of tasks, of which `NothingStalls` takes every outcome; the events that
dependencies and agents record.

Of the agent runtime: tool approvals, results, outcomes and learning (single-row records
that gate nothing modelled here); dispatch, whose readiness check reads fields an
execution request does not have, so that it always refuses; the policy's monitoring hooks and
exports; catch branches around Maps that cannot throw.

Billing: reading the webhook shows that no event is ever applied. Its reads and writes of the
subscription ask for the service role without a context (`webhook/route.ts:57,74,84,104,113`),
which `lib/billing.ts:78` refuses by throwing; the event's id was recorded before
(`route.ts:153`), so that the repetition after the 500 is answered 200 as a duplicate. A
model of it has no state in which anything was applied, and nothing to check beyond that.
Checkout, the portal and the gates that read the row are calls and reads.

Screens, formatting, prompts and AI calls, file parsing, dashboards and briefs
(pure functions of rows), authentication (delegated to Supabase), row-level
security, the PMO, memory, vault and federation modules (independent single-row
writes with no invariant across rows). `PROJECT.json` lists each with its reason.
