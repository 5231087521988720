# TONAIAgent: TLA+ models, model checking and proofs

This directory holds formal models of the parts of TONAIAgent that decide what
happens to money, keys and scheduled work: the smart contracts that register
agents and keep and trade their funds, the scheduler that runs the agents' jobs,
the key manager with its threshold signatures, and the manager of the capital
that agents share. TLC checks each model on small instances; TLAPS proves what
matters most for every value of the constants. `PROJECT.json` lists the components, the runs, the
source lines of every definition, the known hazards and the findings.

Run from this directory:

    tlc -workers 2 -config wallet_custody.cfg MCAgentWallet
    tlapm AgentWalletProofs.tla

## 1. Inventory

Most of the repository (about 700 000 lines) is numeric simulation, user
interface or adapters. The parts below carry state that several actors change.

### AgentWallet (`contracts/agent-wallet.tact`)
* **State**: owner, agent, safe address; limits (per trade, per day, time-lock
  threshold); `dailySpent`/`dayStart`; allowed DEXes and `whitelistActive`;
  queued withdrawals by nonce; `isPaused`; the TON balance.
* **Operations**: `Deposit`, `WithdrawRequest`, `ClaimWithdrawal`,
  `AgentExecute`, `UpdateLimits`, `SetAllowedDex`, `SetAgent`, `SetPaused`,
  `SetSafeAddress`, `EmergencyDrain`.
* **Interaction**: messages of owner and agent in any order; sends to the
  outside with `SendIgnoreErrors`, whose failure the contract never sees.
* **Hard**: silent failures of sends, fees paid out of a reserve, a lazily reset
  daily window, orders that outlive the limits under which they were queued.
* **Correct when**: a queued withdrawal is issued unchanged, once, after its
  time lock; a paused wallet pays only the safe address; the agent stays within
  its daily window, the reserve and the whitelist.

### StrategyExecutor (`contracts/strategy-executor.tact`)
* **State**: strategies (terms, status, counters), the audit log keyed by
  `(id, seqno)` packed in one integer, the index from `(id, nonce)` to seqno,
  the orchestrator, `isHalted`.
* **Operations**: register, start, stop, `ExecuteSignal`, `ReportOutcome`,
  `SetOrchestrator`, `EmergencyHalt`.
* **Hard**: late, repeated and reordered signals and reports; packed keys;
  projected losses mixed with reported ones; competing ways to finish.
* **Correct when**: the audit log is gapless and append-only, its index agrees
  with it, outcomes reach their own signal, the limits hold, and stop, completion
  and halt are final.

### The path of a signal (executor to wallet)
* **State**: messages in flight between the contracts.
* **Hard**: the executor books a signal, then sends a message it never hears of
  again; either contract may be paused, halted or rekeyed meanwhile.
* **Correct when**: every trade of the wallet is covered by a booking, in the
  order of the signals, within the execution limit; a halt dries the path up.

### Worker pool (`services/distributed-scheduler/worker-pool.ts`)
* **State**: workers and their status, the queue of waiting calls.
* **Operations**: `start`, `stop`, `execute` (asynchronous), and inside it
  `acquireWorker` and `releaseWorker`.
* **Hard**: calls suspended at an `await` while others run, stop and restart
  with calls in flight, the queue at the pool's limit.
* **Correct when**: a worker serves one call at a time, concurrency keeps within
  its bound, and waiting calls are served.

### Scheduler, retry engine, event bus (`services/distributed-scheduler/`)
* **State**: jobs and their status, `nextRunAt`, retry timers (one entry per
  job), execution history, dead letter queue, suspended runs.
* **Operations**: register, pause, resume, cancel, trigger by hand, retry from
  the dead letters, cron tick, bus event, retry timer, end of a run, sweep of
  the history, start, stop.
* **Interaction**: calls the pool; publishes the end of runs on the bus, which
  may trigger further jobs.
* **Hard**: every one of these may come between the start and the end of a run;
  the job's status is one field written by all of them.
* **Correct when**: a job's own schedule never runs it twice at once, the status
  tells the truth, timers can be found and cleared, attempts are limited, and
  every run ends.

### AgentFactory (`contracts/agent-factory.tact`)
* **State**: treasury, deployment fee, cap per user, a switch for deployments;
  the registry of agents and its counters; upgrade proposals, administrators,
  recorded approvals; the TON balance.
* **Operations**: `DeployAgent` (anybody), the configuration messages,
  `AddUpgradeAdmin`, `RemoveUpgradeAdmin`, `ProposeUpgrade`, `ApproveUpgrade`.
* **Hard**: two sends that ignore errors after the books are written; map keys
  made of part of an address and a number, which can coincide; votes that go on
  while the electorate changes.
* **Correct when**: the counters that the caps rest on never fall short of the
  registry, an accepted fee is paid, and proposals take effect exactly by enough
  distinct approvals.

### Key manager (`core/security/key-management.ts`, class `SecureKeyManager`)
* **State**: keys and their status, key pairs in the storage, MPC shares, signing
  requests with their signatures. A storage that does not support ed25519 (AWS KMS,
  Azure) holds no key pair of a TON key: such a key exists in MPC shares only.
* **Operations**: `generateKey`, `rotateKey`, `revokeKey`, `deriveChildKey`,
  `generateMPCShares`, `createSigningRequest`, `addSignature`,
  `cancelSigningRequest`.
* **Interaction**: awaits the key storage, which may answer late or throw; is
  owned by the custody provider.
* **Hard**: a method checks before its `await` and writes after it; a rotation
  writes the status of two keys on either side of one.
* **Correct when**: one version of a key is active; a key that signing accepts has
  its key pair, or shares where the storage has none; a request is ready exactly
  when enough distinct signers are verified, and stays so.

### MPC custody (`core/security/custody.ts`, class `MPCCustodyProvider`)
* **State**: wallets with their key and status. **Operations**: `createWallet`,
  `revokeAgentAccess`, `initiateRecovery`, `completeRecovery`, `signTransaction`.
* **Correct when**: an active wallet can be signed for.

### Threshold signing (`core/security/mpc/coordinator.ts`, `signer.ts`)
* **State**: the current shares; per signer the pending nonces and the requests it
  has signed for; active sessions; calls of `thresholdSign()` in progress.
* **Operations**: `generateShares`, `openSigningSession`,
  `computeAndCollectPartialSignature`, `combineSignatures`, `clearSignatures`,
  and `thresholdSign`, which makes these calls in turn.
* **Hard**: awaits between participants, failures half-way that leave nonces and
  sessions behind, clears and retries, new shares while a session is open.
* **Correct when**: no share signs twice for a request, and what is returned
  verifies.

### Capital manager (`core/multi-agent/resources/capital-manager.ts`)
* **State**: pools (total, available, reserved, allocations). **Operations**:
  `createPool`, `requestCapital`, `releaseCapital`, `updatePerformance`,
  `rebalance`.
* **Hard**: the pool is chosen before an `await` and charged after it; releases,
  profits and reductions come in between.
* **Correct when**: no pool is overdrawn, the books balance, and an agent stays
  within its limit.

### Not modelled
| Part | State and why |
|---|---|
| `core/multi-agent` task queue, message bus, governance | in-process queues and votes; the next candidates |
| `core/runtime`, `core/agents` | life cycle of agents and the execution loop; candidates |
| `onchain-listener.ts` | a simulated poller; appears as the scheduler's external events |
| the cryptography of `core/security/mpc` | Shamir shares and Schnorr equations over a curve: numeric; abstracted to whether nonces, shares and keys match |
| `core/security` other than the above | HSM backends (external), the other custody providers, policies, audit |
| risk engine, trading and execution engines, AI, strategies, market data | numeric, simulated or external |
| `services/institutional-network` and the other services | record keeping over in-memory maps with one actor, generated reports, simulated numbers; nothing interleaves |
| payments, connectors, REST interfaces, `extended`, `research`, `apps`, `packages`, `infrastructure` | self-contained simulations, adapters, user interface, deployment |

The models cover a small share of the repository's lines for this reason: most
lines are such record keeping, formatting and simulation, in which no property
that a model checker could decide is at stake.

## 2. Modules

| Module | Models | Correspondence |
|---|---|---|
| `AgentWallet` | the wallet contract | one action per receiver, each with its sender, attached value and fields; a rejected message changes nothing and is no step |
| `TimeLockQueue` | the abstract promise about large withdrawals | implemented by `AgentWallet` (`TimeLockedQueue`) |
| `StrategyExecutor` | the executor contract | one action per receiver; map keys are packed as in the code |
| `Trading` | both contracts and the messages between them | instances `E` and `W`, `inFlight`, `settled` |
| `WorkerPool` | the pool | each method an operator on one record; `Execute`, `Continue`, `Finish` are the pieces of `execute()` between its awaits |
| `Scheduler` | scheduler, retry engine, event bus | extends `WorkerPool`, whose pool and `running` it shares; a *chain* is a run and its retries, and a caller of the pool; `SchedulerSpec` is its specification |
| `AgentFactory` | the factory contract | one action per receiver (the five configuration messages share one); gas, forwarding fees and skipped sends as in the TVM; map keys are bit vectors (the positions of their one bits), cut to `KeyWidth` bits and XORed with a multiple as in `addressKey`, `agentNonce` and `approverKey`; `voters` of a proposal is history |
| `UpgradeVote` | the abstract vote of an electorate that changes | implemented by `AgentFactory` (`UpgradesAreVoted`): ballots = the accounts whose approval of a proposal was counted |
| `KeyManager` | keys and signing requests | a method with an `await` is two steps; `calls` and `verifying` are the promises in between, `Resume` and `Fail` how they end; keys in `Foreign` have an algorithm that the storage does not support |
| `MPCCustody` | the MPC provider on top of the key manager | extends `KeyManager`, with the software storage the provider uses (`Foreign` is empty); what the provider does with a key belongs to the step that returns it, except that `createWallet` then awaits the address (`WalletCreated`) |
| `SigningSession` | coordinator and signers of one key | a nonce is a number, a share the generation it belongs to; `callers` are the `thresholdSign()` calls in progress, of which `Combine` and `Finish` are the last two pieces |
| `CapitalManager` | pools of capital | `waiting` holds the requests at their `await`, in the order in which microtasks run; amounts are whole units, shares rounded down; each pool has limits of its own |
| `Sums` | running sums of a function over `1..n` | `reduce` over an array, a recursive function; used by `CapitalManager` and `AgentWallet` |
| `MC...` of each | instances for TLC | |
| `AgentWalletProofs`, `StrategyExecutorProofs`, `TradingProofs`, `AgentFactoryProofs`, `KeyManagerProofs`, `SigningSessionProofs`, `CapitalManagerProofs` | theorems about the module of that name | |
| `SchedulerProofs` | theorems about `WorkerPool` and `Scheduler` | in one module, since the scheduler's proofs rest on the pool's lemmas |

Modelling conventions. A definition named `X_Something` above `X` is a faulty
variant of `X`; replacing `X` by it must break a property, which shows that the
property depends on the code. Money is counted in small integers; a fee is any
amount up to `MaxFee`. A send with `SendIgnoreErrors` that the balance does not
cover is recorded as unpaid. In the scheduler one step is what JavaScript runs
without returning to the event loop for a timer or a request: the microtasks that
follow a run's end (release of the worker, delivery of its bus event, the jobs
that triggers) belong to its step. Variables and record fields marked *history*
are not in the code; they only remember what the properties speak about.

## 3. Runs

| Run | Question | Bounds, and why they are enough |
|---|---|---|
| `wallet_custody` | do queued withdrawals behave as the abstract queue, does a pause stop all outflow | two queued withdrawals, one amount below and one above each threshold, a fee of 0 or 1, three instants around a time lock of up to 2: a claim can come early, on time, after a drain or a limit change |
| `wallet_spending` | daily window, reserve, whitelist | two venues, trades of 1 or 2, two window lengths of time, three transfers; reserve 3 exceeds two fees |
| `executor` | books, limits, finality | two strategies of up to two signals each, with an expiry, replays and skipped nonces; two reports, for the same signal or for two, of either strategy and in any order, before or after later signals and the end of the strategy |
| `trading` | what the wallet trades against what the executor booked | one strategy, two signals, two trades, any delay, bounces, rotation of agent and orchestrator, pause and halt in between |
| `workers` | exclusive workers, concurrency, who waits and that it is served | three calls over two workers, two starts, two stops: a call can be queued before, during and after a stop, and phantoms can arise |
| `workers_hang` (violated) | can a queued call hang | same instance |
| `scheduler` | overlap, status, timers, attempts, progress | a cron job with two attempts and an event job with one, triggered also by the other's failures; two chains, one worker, one stop and restart; only the cron job's owner intervenes and only its records age out of the history |
| `factory` | do counters cover the registry, do fees arrive, do approvals implement the vote | four users, two agents, keys of three bits: the first agent of one user has the key of the second one of another (so do their approvals), and two users' addresses differ in a bit that no key contains; fees of 1 and 2 with 2 attached and gas of 0 or 1 (so a fee arrives, is skipped, or brings its gas on top), caps of 1 and 2; the owner and two administrators, two proposals with quotas of 1 to 3 |
| `keys` | one active version, accepted keys can sign, quorums under overlapping calls | one root of the storage and one that exists in MPC only, in three versions (a rotation can be rotated, revoked or fail while another is in flight), one derived child, three keys in all of which one has shares, two calls in flight, one request with two signers and a quorum of 2 |
| `mpc` | one signature per share and request, valid signatures | 2 of 3 shares, two requests, two messages, two generations of shares, 8 nonces: both requests can fail, be cleared and be retried, with new shares in the middle |
| `custody_shares` (violated) | can an active wallet be signed for | two wallets, two keys in two versions |
| `capital` | no overdraft, balanced books, limit per agent | two agents, two pools of 8, each with loose limits (6 per agent, a fifth in reserve) or strict ones (3 per agent, nothing in reserve), requests of 3 and 5, three open requests or allocations: partial grants, a pool that is emptied between choice and decision, a release across pools, a profit, a reduction |

Most runs disable the deadlock check: those models have a bound (clock, number of
transfers, nonces, starts, calls) at which they stop, and so do contracts that
nobody sends a message to. `mpc` and `capital` keep it: a session can always be
cleared, an allocation always be released.

Properties that hold by the design of a single guard are not listed; each one
relates several steps or several pieces of state. Read them at the end of each
module, with their comments.

### Fairness
The contracts promise nothing about time: whether a message is sent is up to its
sender, so their models have no fairness and only safety is checked. The same
holds for keys, signing and capital, whose methods are called from outside and
whose storage may never answer.
`WorkerPool` assumes that a call that holds a worker continues (the event loop
runs a resolved promise) and ends (`withTimeout` arms a timer for every
execution). `Scheduler` assumes the same and that a retry timer fires. Nothing is
assumed about how runs end, about owners, cron or events.

`RunsEnd` is stated with `\/ stops > 0`: a stop clears timers and may leave
phantom workers (finding `workers_hang`). `WaitersAreServed` is conditional on
the absence of those phantoms for the same reason.

## 4. Where the code differs from its comments

Shown by a run (quoted in `PROJECT.json`):
* `workers_hang`: a second `stop()` revives stopped workers as draining ones, which
  take up room for good; as many of them as `maxWorkers` fill the pool.
* `custody_shares`: revoking an agent's access or completing a recovery rotates
  the wallet's key, and the new key gets no MPC shares: the wallet is active and
  can never be signed for again. Its address is not updated either.

Seen while modelling and part of the models, without a run of their own.

Contracts:
* A claim deletes the queued order before a send that ignores errors; when the
  balance no longer covers it, the recipient gets nothing and the order is gone
  (`agent-wallet.tact:213-222`; the comment at 214-216 promises the exact amount).
* A drain adds the attached value to a balance that contains it; with more than
  the reserve attached it sends nothing (`agent-wallet.tact:313`;
  `SELF_ASSESSMENT.md:58` says that it moves all funds).
* Reported losses are combined by maximum, not by sum, so reports below the limit
  never stop a strategy (`strategy-executor.tact:343`, comments at 16 and 346).
* The position limit is checked against the forwarded value, not against the
  amount in the payload that is traded (`strategy-executor.tact:268`, comment at 17).
* `SELF_ASSESSMENT.md:197` (KL-06) says that a report patches the audit log at
  `executionCount`, and so the wrong entry when reports arrive out of order. The
  code looks the entry up by the signal's nonce (`strategy-executor.tact:357`), as
  the test LOGIC-14 expects and `OutcomesBelongToTheirSignal` states: the claim is
  of an earlier version.
* `SELF_ASSESSMENT.md:166` (AF-I-01) says that only the owner approves upgrades, and
  119-123 (T-08) and 193 (KL-02) that the same owner can be counted repeatedly. In
  the code registered administrators approve, too, and every approver is recorded
  and counted once (`agent-factory.tact:310-337`); `UpgradesAreVoted` states what
  the code does.
* `SELF_ASSESSMENT.md:153` (AW-I-01) promises the full reserve after every outbound
  message. Fees are paid out of the reserve after the check, so what holds is the
  weaker bound `ReserveFloor`; a drain may leave less, too.
* The factory's map keys are not the "unique key" of the comment at
  `agent-factory.tact:382`. `addressKey` reads the first 256 of an address's 267
  bits, so addresses that differ in the last 11 share a counter and a cap;
  `agentNonce` XORs these bits with a multiple of the nonce, so two deployments can
  get the same key, and the later one overwrites the entry of the earlier one, which
  stays counted (`CountersCoverRegistry` is what holds). Approval keys can
  coincide, too ("to reduce collision risk", line 389): a registered administrator
  is then turned away as having approved.
* The factory's cap per user (`SELF_ASSESSMENT.md:167`) is checked at deployment
  only: lowering it leaves users above it.
* The factory counts a fee before a send that ignores errors. `FeeReachesTreasury`
  is what holds of AF-I-03: the fee arrives if the message brings its gas on top.
* An administrator's approval still counts after its removal; `isPaused` of the
  factory is set by no receiver; its `contractAddress` of an agent is a placeholder.
* "Rolling 24 h" (`agent-wallet.tact:232`; one budget in any 24 hours in
  `SELF_ASSESSMENT.md:60` and `:156`, T-01 and AW-I-04) is a fixed window: two full
  budgets fit into little more than an instant around its end (`TwoWindowsBound` is
  the bound that does hold).
* A drain works while the wallet is paused, and pauses it.
* The orchestrator, too, may stop a strategy.
* A trade that the wallet rejects stays in the audit log as executed; the value of
  a bounced message stays with the executor.
* `pauseJob` and `cancelJob` do not touch a run in flight, whose end sets the job
  back to pending (`scheduler.ts:875`); a retry timer ignores the status.
* `stop()` clears retry timers but leaves their jobs "failed"; nothing triggers
  them afterwards. The bus subscription survives `stop()`, so events go on
  triggering jobs, and a run that fails after `stop()` arms a new timer.
* Failures are counted over all runs in the history and a success does not reset
  them: a job with rare failures dies at its `maxRetries`-th one.
* A job subscribed to `scheduler.job_completed` triggers itself for ever.
* After a restart new workers can overtake calls queued before it, and exceed
  `maxWorkers` by `minWorkers` (`ConcurrencyBound`).
* A timed-out run is over for the pool while its body may still be executing.
* `triggerJobManually()` refuses a job that is running by its status, which pause,
  cancel and the end of another run overwrite: pausing a job and triggering it
  starts a second run beside the first (`scheduler.ts:601`, comment at 586-591).

Keys and signing:
* A rotation whose storage call fails leaves the old key `pending_rotation` for
  good: there is no `catch`.
* With a storage that does not support ed25519, `generateKey` makes TON keys without
  a key pair (`key-management.ts:1192-1207`; `docs/hsm-setup.md:53-65` recommends
  this setup). `rotateKey` then asks the storage for a key pair all the same
  (`key-management.ts:1265`), which throws: every rotation of such a key ends in
  the state just described. With `mpcEnabled` but no `mpcConfig` such a key is
  active without key pair and without shares; signing requests for it are refused
  (`key-management.ts:1408`) until shares are made for it.
* A revocation during a rotation is overwritten by `rotated`, and the new version
  becomes active.
* A request cancelled while a signature is being verified is revived by the end of
  the verification (`key-management.ts:1457` calls cancelled requests terminal).
* A child derived twice at once, with a revocation in between, can be active
  without its key pair (hence `Generated` in `AcceptedKeysCanSign`).
* With more participants than the threshold, `combineSignatures()` after
  `threshold` parts returns an invalid signature: the challenge was made for all
  commitments. `coordinator.ts:334` tells the caller that enough are collected.
  `thresholdSign()` asks all participants and is not affected.
* A signer that has signed for a request id refuses it until new shares are made:
  a request that failed after that can be retried only under another id.
* Two concurrent calls with one request id are excluded: ids are documented as
  unique (`coordinator.ts:257`).

Capital:
* `releaseCapital()` acts on the first allocation of the agent only, whatever the
  amount asked for, and returns `true`.
* A loss is remembered in `performance` but never taken from the pool; `dailyLimit`
  and `expiresAt` are never looked at; `maxPerAgent` is a limit per pool.
* With a negative average, half of it is above it, so agents that all did the same
  are all reduced as underperformers.
* A negative amount released, or a pool created under a used id, is not refused;
  the inputs of the model exclude both.

## 5. Proofs

TLAPS checks the following for all values of the constants, from the assumptions
named in the modules (fees and bounds are naturals, the packed key ranges exceed
what is stored in them, and the like). Type correctness, `QueueInv`, `IndexAgrees`
and `HaltIsFinal` are proved here and need no run of their own.

`AgentWalletProofs`
* `TypeCorrect`: `TypeOK` is inductive as it stands, because it includes that
  queued nonces are at most `withdrawalNonce`. Lemmas `KeepValueFacts`,
  `SendExactFacts`, `SendPlainFacts` and `SendWithRemainingFacts` say once what
  each way of sending does to balance and outbox.
* `QueueInvHolds`: a nonce is waiting or claimed, never both. Inductive with
  `TypeOK`: a new nonce is larger than all earlier ones, and a claim removes what
  it issues.
* `WalletImplementsTimeLock`: under the mapping `queued` = the queued orders,
  `issued` = the claims in the outbox, every step is one of the abstract queue or
  a stutter. `QueueInv` is what makes an issued nonce new and a claim's order the
  queued one.
* `PauseStopsOutflowHolds`, `ReserveFloorHolds`, `WhitelistStaysClosedHolds`
  (action properties) and `AcceptedTransfersArePaidHolds`, from `TypeOK` and the
  lemma `StepIssues`, which lists what any step may put into the outbox.
* `TwoWindowsBoundHolds`: any 24 hours see at most two budgets. The inductive
  `WindowInv` bounds, for *every* instant t, what was spent in the 24 hours from t
  on, by where the contract's window stands (`Budget`): nothing if the window has
  ended by t; else one limit for the time before the window, if t is earlier than
  its start, and `dailySpent` for the time in it, or a second limit once the 24 hours
  lie before the window. The sums of the spending are recursive functions; that
  they exist and are unique (`Summed`) is part of the invariant, so each step adds one
  term and no induction over the sequence of trades is needed.

`StrategyExecutorProofs`
* `PackedKeysDiffer`: distinct pairs within their widths have distinct packed
  keys; everything about the audit log rests on it.
* `BooksAgree`: `BookInv == TypeOK /\ AuditComplete /\ IndexAgrees` is inductive.
  The conjuncts need one another: the new entry's key is free because the log ends
  at `executionCount`, and the new index key is free because nonces increase.
* `OutcomesBelong`, `AuditAppendOnlyHolds`: from `BookInv`, as a report finds
  through the index the entry of its own signal.
* `FinishedStaysFinishedHolds`, `CompletionExact`, `HaltIsFinalHolds`: from
  `StrategyStep`, the list of what a step may do to one strategy. `CompletionExact`
  needs the strengthening that a running strategy is not exhausted and a pending
  one has not executed.
* `ProjectedLossBoundedHolds`: the inductive `LossInv` says that the losses
  announced so far add up to no more than `cumulativeLossNano`, which a report may
  only raise, and never passed the limit.

`TradingProofs`
* Every action of the composition is one of the executor or leaves the executor's
  variables alone, so its theorems carry over; that is a step of these proofs and
  no result of its own. `WireOK` types what is in flight.
* `HaltDrainsHolds`: by cases over the actions: after the halt none adds a message,
  and a delivery or a bounce moves one from `inFlight` to `settled`.
* `TradesAreAuditedHolds`, `TradesInSignalOrderHolds`, `TradesWithinExecutionsHolds`:
  none of the three is inductive, because a trade is made long after its signal was
  booked. `WireInv` fills the gap: what is in flight is booked in the audit log
  (`InFlightBooked`), what is settled is booked
  (`SettledBooked`), and what is settled, then what is in flight, is in the order of
  the nonces (`InOrder`). The executor's own assumptions are discharged for the
  instance. That trades do not outnumber the executions follows by counting: two
  trades of a strategy are booked in different entries of its audit log.

`SchedulerProofs`, the pool
* `OneCallPerWorkerHolds`: the inductive invariant `PoolInv` is the pool's type
  together with `OneCallPerWorker`, stated for any value of the pool's record.
  One lemma per method says that the method keeps it: `ReserveFacts` (giving
  away a worker that no call holds), `ReleaseFacts`, `AcquireFacts` and so on; an
  idle worker is never held, because a held one is busy or draining and stop()
  leaves it so. `FirstFacts` takes the least index from the well-foundedness of the
  naturals.
* `TypeOKHolds`: the queue holds the calls that wait, each once (`Queued`); the
  length of the queue is then the number of those calls, by a bijection.
* `ConcurrencyBoundHolds`: `BoundInv` counts the live workers, idle or held by a
  call, rather than the active ones: they are at most `MaxWorkers + MinWorkers *
  restarts`, and none is idle while the pool is stopped. One lemma per method says
  which workers it makes live; only `start()` and a new worker below
  `maxWorkers` add any.
* `WaitersHaveAServerHolds`: the safety part of `WaitersAreServed`. While calls
  wait, `maxWorkers` workers are held by calls, which will hand them on, or lost to
  phantoms of a second `stop()`. The invariant `Staffed` adds that a busy worker is
  always held: a call joins the queue only when every worker that counts against
  `maxWorkers` is busy or draining, hence held or a phantom; while calls wait a
  release hands its worker on, and phantoms stay. What is left to liveness is that
  a held worker's call goes on and ends.

`SchedulerProofs`, the scheduler
* `SchedulerTypeOKHolds`, `StatusIsHonestHolds`, `ScheduledRunsNeverOverlapHolds`,
  `RetryTimersTrackedHolds`, `ExhaustedJobsRestHolds`, all from one inductive
  invariant. `SchedulerInv` joins three parts: `StateOK` (exactly the chains in
  flight are calls of the pool, whose own invariant holds), `InRegistry` (the
  registry lists the registered jobs, each once) and `JobSound` of every job. The
  four properties need one another: a trigger of a pending job is harmless because a
  pending job has no chain; a success makes the job pending, which is harmless
  because the run that ended was its only chain; that it was so rests on the timers
  being the ones in `retryTimers`; and a job that has used up its attempts stays so
  because it has no run whose success could be recorded. Strengthenings that no
  property states: an unregistered job has no chain and is no dead letter, and a
  chain in flight is never in `retryTimers`.
* `JobSound` speaks of one job and of a record `Now` of what a trigger changes, so
  that most of a step is disposed of by one lemma (`Elsewhere`: the other jobs are
  as before), and so that it can be said of the state in the middle of a step.
* Cron ticks and bus events trigger a set of jobs one after the other:
  `LaunchAllSound` goes through the registry with the invariant and "the jobs still
  to come are pending and there are chains for them". It is an induction over the
  indices of the registry, done with the least counterexample (`Induction`,
  `LeastFacts`), as the library's induction theorems cannot be instantiated. The
  recursive function of `LaunchAll` is shown to exist on the way.
* The history: `RecordedFacts` and `TailFailures` say that the cap, the sweep and a
  success never add a failure, by an injection between the failures.

`AgentFactoryProofs`
* `TypeCorrect`; `CountersCoverRegistryHolds`, for any addresses and multiples. Every
  registered agent sits at the key of a nonce that has been handed out (`Keyed`),
  so the key of a new deployment is free where no other counter's agents can have
  it: multiples differ, and XOR is injective in each argument. Elsewhere a
  deployment may overwrite an entry, which raises one counter and takes at most
  one agent from another. Cardinalities go up by one through `FS_AddElement`.
* `FeeReachesTreasuryHolds`: at a deployment the balance still holds the attached
  value less gas, so the first send is covered.
* `UpgradesAreVotedHolds`: the contract implements `UpgradeVote`. The inductive
  `VoteInv` says that a proposal's count is the number of accounts counted for it
  and that its flag says whether the quota is reached; the type invariant adds that
  the keys of these accounts are recorded.
  Every action is then a registration, a proposal or a ballot of the abstract vote,
  or a stutter; an account whose key coincides with a recorded one is turned away,
  which the abstract vote allows.

`KeyManagerProofs`
* `QuorumIsVerifiedHolds`, `ReadyStaysReadyHolds`: the slots of a request only grow,
  so the state computed at the end of a verification is never stale.
* `OneActiveVersionHolds`: the versions of a generated key form a chain; the
  inductive `VersionInv` says that all but the newest are rotated or revoked, that
  a version being made is newer than all there are, and that only one is made.
* `AcceptedKeysCanSignHolds`: with `MaterialInv`, a deletion in flight belongs to a
  key that is rotated or revoked, and no step makes such a key active again; a key
  that the storage does not support gets its status only from `GenerateForMPC` and
  its requests only through the routing guard.

`SigningSessionProofs`
* `SignsOnceHolds`: the inductive `UsedUp` says that what a current share has signed
  is committed and no longer pending, so it can neither sign nor commit again.
* `SignaturesVerifyHolds`: the inductive `Sound` relates each session to the nonces
  its participants hold and to the generation of the shares it was opened with:
  a pending nonce belongs to one session only, and new shares begin with no pending
  nonces, so a session of old shares can never be completed by new ones.

`CapitalManagerProofs`
* The sums over pools and allocations are recursive functions (`Sums`); what they
  do is proved from their definition by least counterexamples: `PartialFacts`, and
  `TotalOfAppend`, `TotalOfUpdate` and `TotalOfRemoval` for the three ways in which
  the code changes an array.
* `TypeOKHolds` (no pool is overdrawn), `BooksBalanceHolds`, `PerAgentLimitHolds`: the
  invariant is the type, with amounts that are positive, together with the two
  equations. A request that waits at its `await` holds no claim on the pool: what it
  is granted is computed again from what is left, which is why no interleaving of
  requests, releases, profits and reductions breaks the books.

Only model-checked: the liveness properties `RunsEnd` and `WaitersAreServed`, which
need fairness and ENABLED, out of the prover's reach (the safety part of the second
is `WaitersHaveAServerHolds`). Every other property of the passing runs is a theorem. The findings are violations that TLC shows.

Assumptions on the constants worth knowing: `Call` of `Scheduler` is finite, because
the guard `Room` counts chains, and it is a bound of the model anyway (the code has
as many promises as it likes, of which finitely many exist at any time).

## 6. Plan

Done, in the order in which they were modelled: **AgentWallet**,
**StrategyExecutor**, **Trading**, **WorkerPool**, **Scheduler**, **AgentFactory**,
**KeyManager** with **MPCCustody**, **SigningSession**, **CapitalManager**.

Left for later:
1. `MPCCustody` composed with `SigningSession`, once rotated keys get shares: the
   session of a key that is rotated while it signs.
2. The task queue, the message bus and the governance of `core/multi-agent`, and
   the execution loop of `core/runtime`.
