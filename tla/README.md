# Formal models of the automaton system

`automaton` is a system in which stewards pay, in USDC on Base, for autonomous
agents ("automata") that live in Internet Computer canisters.  This directory
holds TLA+ models of the three parts that act on their own: the escrow contract
on Base, the factory canister that watches it, creates automata and pays the
escrow out, and the automaton canister itself, with its scheduler, its turns,
its money and its memory.  TLC checks small instances; TLAPS proves nearly
all of the safety properties of the three for every instance.

    tlc -workers 2 -config MC_Payouts.cfg MC_Payouts
    tlapm LocalEscrowProofs.tla

Paths below are relative to the root of the repository; `ic:` stands for
`components/ic-automaton/src/` and `factory:` for `backend/factory/src/`.

## 1. Inventory

### The parts

| Part | State | Operations | Modelled in |
|---|---|---|---|
| Escrow `evm/src/LocalEscrow.sol`, token `evm/src/MockUSDC.sol` | balance, payer and released flag per claim; token balances and allowances | deposit, depositReproduction, release, refund, releaseReproduction; mint, approve, transferFrom | `MockUSDC`, `LocalEscrow` |
| Session state machine `factory:session_transitions.rs`, `retry.rs`, `expiry.rs` | lifecycle state, payment status, deadline, derived flags | eight events | `SpawnSession` |
| Factory scheduler `factory:scheduler.rs` | one poll job, one spawn job per session: next run, lease, failures | enqueue, lease, finish, back off | `SchedulerJobs` |
| Payment scan `factory:escrow.rs`, `base_rpc.rs` | scan cursors, evidence, suspended polls | create session, poll, reconcile, expire | `PaymentScan` |
| Spawn execution `factory:spawn.rs`, `evm.rs`, `controllers.rs` | runtimes, registry, release records, nonce cursor | create, install, verify, hand over, release, resume, clean up, retry | `SpawnExecution` |
| Refund command `factory:api/public.rs`, `escrow.rs`, `evm.rs` | refund leases and records | claim, sign, send, confirm, finalise | `RefundCommand` |
| Artifact and administration `factory:api/admin.rs`, `init.rs` | the module with hash and commit, the upload under way, settings | upload whole or in chunks, commit, replace; pause | `FactoryArtifact`, `FactoryBirths` |
| Births `factory:reproduction.rs`, `strategy_repository.rs`, `api/public.rs` | registry, lineage, cooldown, repository | human and reproduction sessions, deaths | `FactoryBirths` |
| Spawn protocol `crates/spawn-protocol` | none | validate a constitution's mutation | `ConstitutionDrift` |
| Room `factory:api/public.rs`, its reader in `ic:scheduler.rs` | the retained messages, last_seen, observations | post, page, poll | `RoomPoll` |
| Automaton scheduler `ic:scheduler.rs`, `ic:storage/` | task schedules, jobs, mutating lease, survival tier, mortality | two ticks, five tasks, recovery, wake-ups | `AutomatonJobs`, `RecoveryPolicy`, `Mortality`, `AutomatonRuntime` |
| Agent loop `ic:agent.rs`, `ic:features/inference.rs` | inbox, outbox, waits, proxy jobs, the turn's lock | turns, rounds, callbacks, replies | `AgentTurn`, `InferenceProxy` |
| Tools `ic:tools.rs`, `ic:agent.rs` | records of calls, failures, usage, cycles | plan, suppress, gate, execute, remember | `ToolRounds`, `Outcalls` |
| Payments to peers and children `ic:tools.rs`, `ic:scheduler.rs` | notes, deals, pending transactions | pay_peer, reproduce, recovery | `Counterparty` |
| Strategies `ic:strategy/`, `ic:features/evm.rs` | templates, ABIs, executions, exposure, quarantine | register, discover, compile, execute, reconcile | `StrategyRegistry`, `StrategyDiscovery`, `AbiLayout`, `StrategyExecution` |
| EVM inbox `ic:scheduler.rs`, `ic:features/evm.rs`, `components/ic-automaton/evm/src/Inbox.sol` | cursor, seen events, balances | poll by windows, fast-forward, deliver | `InboxPoll` |
| Cycle top-up `ic:features/cycle_topup` | the saved stage | approve, lock, wait, swap, mint | `CycleTopUp` |
| Steward `ic:lib.rs`, `ic:http.rs` | steward, nonce, principal, settings, certified copy | proofs, rotation, commands | `Steward` |
| Memory `ic:storage/` | facts, goals, plans, lessons, journal, turns and their summaries | the memory tools, retention | `Memory` |
| Indexer, evaluator, RPC gateway, web | caches, views | - | not modelled: they read, or drive tests |

### How they interact

A steward creates a session and deposits into the claim of that session.  The
factory's timer leases the poll job; the poll asks an RPC node for the head, for
the `Deposited` logs and for the canonical hashes of their blocks, and writes
what it learned into the sessions.  A session that was paid in time gets a spawn
job, whose execution creates a canister, installs the artifact, verifies what
the child reports of itself, takes control and signs `release(claim,
automaton)`.  A session that failed or expired with money in it can be
refunded: the steward's signed command signs `refund(claim)`.  Release and
refund share the factory's key and one nonce cursor.

An automaton is driven by its own timer.  A tick recovers an expired lease,
materialises the jobs that are due and dispatches them one after the other under
one mutating lease.  `PollInbox` reads the Inbox contract and the factory's room,
`TopUpCycles` turns USDC into cycles, `CheckCycles` watches tier and mortality,
`Reconcile` follows transactions and prunes, and `AgentTurn` runs the model:
rounds of inference and tool calls, at the end of which the staged messages are
answered.  Inference may be deferred to a worker that calls back.  Endpoints
(a callback, a steward's command) enqueue a turn and start a tick at once.

### What is hard

A canister runs one message at a time, but a message is suspended at every
`await`, and anything may run before it goes on.  Every interesting defect lives
there:

* leases do not fence.  A poll, an execution, a refund command or a dispatch of
  the automaton that outlived its lease goes on when its answer comes.  What
  stops it is a guard that compares a snapshot with the present: the scan guard,
  the draft guard, the lease generation, the turn's number, compare-and-set on an
  execution row.  Where there is no guard a snapshot is written back over what
  others wrote (the inbox cursor, the room's last_seen);
* `write_state` of the factory commits whatever its closure wrote, **also when
  the closure returns an error**, so a refused event can leave half of a write
  behind;
* an upgrade or a trap drops a suspended message and keeps its lease, its lock
  and the effects of its calls;
* answers are lost after their request had its effect; callbacks come early,
  late, twice or never; blocks are replaced;
* every table of the automaton is bounded and evicts, notes about money in
  flight included;
* flags such as `retryable` are derived and then stored, so they can be stale.

`PROJECT.json` lists the hazards one by one with their lines.

### What makes each part correct

* escrow: solvent, the payer recorded for a claim owns all of it, one settlement
  per claim, an endowment is taken once;
* payment scan: no confirmed deposit skipped or counted twice, no spawn without
  payment, no session without a wake-up, no late poll that undoes anything;
* payouts: a session's final state, its release record and the registry agree
  with what the chain settled; one payout per nonce;
* births: children run attested code, a parent's cooldown holds against its own
  concurrent requests, generations count;
* automaton scheduler: one dispatch at a time as long as leases last, finished
  jobs stay finished, death is final;
* turns: every paid message is answered once, by an answer that saw it;
* money: a strategy call is sent once, the books follow the receipts, top-ups
  lock once per run, no payment to a peer or child is forgotten, outcalls keep
  the reserve;
* authority: a steward's nonce is spent once, a revoked template stays out,
  discovery is believed only about what was asked;
* memory: no turn is lost by retention, plans are worked off in order.

## 2. Modules

| Module | Contents |
|---|---|
| `EscrowPromise` | abstract: what the escrow owes whom, in four kinds of steps |
| `MockUSDC`, `LocalEscrow` | the contracts; one action per external function, a revert is a guard |
| `LocalEscrowProofs` | theorems about `LocalEscrow` |
| `SpawnSession`, `SchedulerJobs` | the factory's session state machine and job records, as operators |
| `PaymentScan` | state machine: chain, polls, sessions |
| `PayoutChain` | external: the chain as payout transactions meet it |
| `SpawnExecution` | actions of the spawn job |
| `RefundCommand` | the refund command composed with `SpawnExecution` and `PayoutChain`; `Spec` of the payouts |
| `FactoryArtifact` | the module the factory installs: upload, replacement, chunked install, verification |
| `FactoryBirths` | sessions, reproduction, repository, registry and deaths of the factory |
| `ConstitutionDrift` | the banded edit distance against the textbook one |
| `RecoveryPolicy`, `AutomatonJobs`, `Mortality`, `InferenceProxy` | parts of the automaton, as operators on a record |
| `AutomatonRuntime` | state machine: two ticks, the queue, survival and mortality |
| `AgentTurn` | state machine: messages, turns, callbacks |
| `StrategyExecution` | state machine: plans, sends, receipts, books |
| `InboxPoll`, `RoomPoll`, `CycleTopUp`, `ToolRounds`, `Counterparty`, `AbiLayout`, `StrategyRegistry`, `StrategyDiscovery`, `Steward`, `Memory`, `Outcalls` | one subsystem of the automaton each |
| `TableLemmas` | lemmas about numbers and tables that the proofs share |
| `PaymentScanProofs` | theorems about `PaymentScan` |
| `PayoutProofs` | theorems about `RefundCommand`, hence about spawn execution, refunds and chain together |
| `FactoryProofs` | theorems about `FactoryArtifact`, `FactoryBirths`, `RoomPoll`, `ConstitutionDrift` |
| `AutomatonRuntimeProofs` | theorems about `AutomatonRuntime`, `AgentTurn`, `StrategyExecution` and the three composed |
| `EffectsProofs` | theorems about `CycleTopUp`, `InboxPoll`, `Counterparty`, `Memory`, `Outcalls`, `ToolRounds` |
| `AuthorityProofs` | theorems about `StrategyRegistry`, `StrategyDiscovery`, `Steward`, `AbiLayout`, and about all of `MC_AutomatonEffects` together |
| `MC_AutomatonRuntime` | `AutomatonRuntime`, `AgentTurn` and `StrategyExecution`, one scene at a time |
| `MC_AutomatonEffects` | the fourteen subsystems that keep books of their own, one focus at a time |
| `MC_LocalEscrow`, `MC_PaymentScan`, `MC_Payouts` | instances and symmetry sets for TLC |

Definitions whose comment begins with `A mutant of` are deliberately wrong
variants of the definition that follows.  No specification uses them; putting
one in the place of its original must break a named property.

### How state and actions correspond to the code

`PaymentScan`.  A session record stands for `SpawnSession` and `EscrowClaim`
together, which the factory writes in the same message.  A deposit is worth one
unit and a claim gets at most one per block, so `payment_evidence` is a set of
blocks.  `poll[p]` is a suspended poll; `HeadReply`, `LogsReply` and `HashReply`
are the code between two awaits.  `WriteBack` is the whole final `write_state`
with the secrets' deletion and the job's end that follow it in the same message.
`ExpireOnClaim` is the part of a refund claim that touches a session in
`AwaitingPayment`.  Deposits enter by `Mine`, blocks that are not final lose
them by `Reorg`.

`SpawnExecution`.  `exec[e]` is a suspended `execute_spawn`; its `pc` names what
it waits for.  It carries the snapshot of the release record and of the deadline
that the code takes at the start.  Two awaits with no write between them are one
`pc` (deriving an address and then reading evidence; the two deletions of a
failed canister).  `GuardHolds` is the draft guard: the record's nonce stands
for `release_broadcast_draft_identity`.  A `Stale` branch is the guard's error.
`live` is the set of canisters that exist, `runtimes` what the factory believes.
`delete_canister` may fail or succeed.

`RefundCommand`.  `lease[s]` with generation 0 means that there is no lease, and
`steward_refunds_in_flight` is the set of sessions with a lease.  `call[k]` is a
suspended command.  The signature and proof of the steward are abstracted: every
claim in the model is authorised.

`PayoutChain`.  All payouts come from one key, so they are mined in the order of
their nonces.  A call on a settled claim reverts, which is what `LocalEscrow`
guarantees.  Only transactions beyond the confirmation depth are final; until
then they can be replaced, and return to the mempool or vanish.

`FactoryArtifact`.  A module is a sequence of pieces and its digest tells any two
apart; `declared` is a history of the pairs of hash and commit that admins named.
One session is followed through installation, verification, handover and
retries, with the admin free at every await.  `FactoryBirths` keeps the sessions'
other side: payment and execution are one step there, and what matters is who
may ask for a session, when, and what the registry says afterwards.

`AutomatonRuntime`.  `cpu` is the tick whose message is executing, so the
synchronous stretch from `TickStart` over the loop to a dispatch is not
interrupted although it is several actions.  `ticks[t]` is a suspended dispatch;
`until` is the expiry of the lease it took, which the code does not remember and
the properties need.  The queue of `AutomatonJobs` is a record that every operation
takes and returns, as the storage layer does with its tables.  An error is the
set of phrases its text contains, because that is how `RecoveryPolicy` classifies
it.  What a job of another kind does between its awaits is in its own module.

`AgentTurn`.  `turn[t]` is a suspended turn.  The end of a turn is part of the
message of its last step: replies, consumption and waits change together.  What
depends on the clock (the deadline, the age of a wait, the end of a suppression)
is a choice.  A job of the proxy is named by the turn that submitted it.

`StrategyExecution`.  A row is a plan's execution, identified by turn and plan as
the idempotency key is.  A snapshot is `fresh` as long as nobody wrote the row,
which is what the compare-and-set of `sqlite.rs` decides.  Quarantine, streak,
budget and exposure are the book; the template's fitness stands for staleness
and compilation.

`InboxPoll`, `RoomPoll`.  The poll carries the snapshot it began with and writes
its cursor back; a window is a range of blocks and a full page of logs ends it
early.  `CycleTopUp`.  The stage is what is saved; a dispatch goes on from what
it read.  Fees and rates are one unit each.  `Counterparty`.  A note is a memory
fact and may be evicted by others; a transaction is a number in the order of
sending.  `ToolRounds`.  A call is a pair of tool and arguments, which is its
fingerprint.  `Outcalls`.  Each call pays its cost before it waits, in units.
`AbiLayout`.  Words are counted, so 32 bytes are one; the reader is the
contract's decoder and independent of the compiler.  What the compiler does with
types and values nested `d` deep is `Codec[d]`, made from `Codec[d - 1]`, where
the code recurs; the width of a number is left out.  `Steward`.  A proof names
its command, steward, nonce and expiry; the contract wallet's verdict is an
await.  `Memory`.  Every tool is one message; a retention pass is one message.

## 3. Runs

| Run | Shows |
|---|---|
| `local_escrow` | `PayerOwnsTheClaim`, `Solvent`, `EndowedAtMostOnce`, and `KeepsPromise`: the contract implements `EscrowPromise` |
| `payment_scan` | `NoDepositSkipped`, `EvidenceSound`, `SpawnIffPaid`, `PollNeverForgotten`, `LateScansHarmless`, with two polls under way |
| `payment_settles` | `SessionSettles` under fairness |
| `payouts` | `BooksFollowTheChain`, `NonceUnique`: a spawn against two refund commands |
| `spawn_overlap` | `RecordedReleaseSettled`, `LateStepsHarmless`: two executions of a session, two canisters, retries |
| `automaton_runtime` | scene *scheduler*: `RunningHoldsTheLease`, `FinishedStaysFinished`, `DeathIsFinal`; scene *turn*: `AnsweredOnce`, `AnswerSawTheOldest`; scene *strategy*: `SentOnce`, `ExposureAccounted` |
| `automaton_effects` | one property per subsystem, see below |
| `expired_refund`, `refund_fence`, `secrets_for_retry`, `released_to_automaton`, `death_is_absolute` | violations: see section 6 |

`automaton_effects` asks of each subsystem what could go wrong with its books:

| Focus | Property |
|---|---|
| top-up | `TransitAccounted`: more locks than runs take an overlap or a trap, and nothing is left on the way by a run that ended well |
| inbox | `NoPaidMessageLost`: behind the cursor every confirmed event was delivered, once, or passed over by a fast-forward |
| room | `NoRoomMessagePassedOver`: what `last_seen` is past was observed |
| tools | `RepeatOnlyIfForgotten`: a call is repeated within its window only if its success was never recorded; terminal transfers are bounded |
| payments | `PaymentsRemembered`: a payment has a deal or a note; a note never pairs a stale deposit with a new approval |
| calldata | `CalldataReadsBack`: a decoder reads what the strategy meant |
| registry | `RevocationStands`: a revoked template is not executable again |
| discovery | `ValidatedWasAsked`: a result answers a job that was submitted with its watchlist |
| steward | `CommandsSpentOnce`: one command per nonce, and the certified settings are the stored ones |
| memory | `MemoryAccounted`: summaries and stored turns add up, journal ids are not reused, plans go in order |
| drift | `BandIsExact`: the band with its early exits decides as the full distance does |
| artifact | `AttestedCode`: a child runs what was declared with the commit it reports |
| births | `CooldownKept`: the cooldown holds against concurrent requests; lineage is consistent |
| outcalls | `OutcallsPaidFor`: reserve and terminal budget, searches per turn, handshake extracts |

The two composite runs hold one subsystem per behaviour: `scene` and `focus` are
chosen in the initial state and never change, and the subsystems that are not
chosen stay in one initial state.  The reachable states are the union of the
parts', not their product.  That is sound for what is claimed because these
modules share no variable; where subsystems do interact (jobs and turns, turns
and receipts, spawns and refunds) one module models the interaction.

### Bounds

* `local_escrow`: the releaser and two depositors, two claims, two tokens.  Two
  claims are needed for one to be paid with the other's money, two depositors
  for a payer that is not the contributor; two tokens let a claim hold more than
  one deposit and a settlement be split.  The proofs remove these bounds, here and
  below, for every property that has a theorem (section 4).
* `payment_scan`: two sessions (the reconciliation may stop between them), two
  polls (one late), a confirmation depth of 2 and a log window of one block on a
  chain of five, so that scans take several windows and a block can be replaced;
  at most two deposits, for one claim or for both; a lease of one tick, so that
  it runs out.  The factory has scanned block 0
  (`InitialCursor = 0`): section 6 says what happens before that.
* `payment_settles`: one session that needs two deposits, one poll, a factory
  that has never scanned on a chain that starts with block 0, a log window of
  two; backoff doubles once.
* `payouts`: one execution, two commands, one canister, two nonces (a release
  and a refund, which is what the race is about).  `spawn_overlap`: two
  executions, two canisters, no refund, and time for a retry while a late
  execution is still suspended.  Both hold with `Horizon = 3` as well (5.6 and
  1.9 million states).  The two bounds together are out of reach (over 50 million
  states), which is why they are two runs.
* `automaton_runtime`, scheduler: a clock of three instants, leases of one and of
  two, four jobs and one fault (trap, upgrade or controller's call), which is
  enough for a dispatch to expire, another to begin, and the first to come back.
  Turn: two messages in one batch or in two, three turns of which one may lose
  its lock or trap, two rounds, one tool call; a wait is closed at its third
  attempt; four turns of one round hold as well (4.7 million states); callbacks
  carry text or calls (what an error does is covered by the direct provider).  Strategy: one turn with an entry of two calls and an exit of
  one, three transactions, two overlapping reconciliations, one change of the
  template.  The policies that do not ask for simulation are left out: such an
  execution is one whose plan was simulated before.
* `automaton_effects`: two or three of whatever may overlap (dispatches, polls,
  calls, turns), tables of one to three entries so that they evict, and a page or
  window of one so that scans take several.  The inbox holds two events on a chain of four blocks with
  one log per page, so that a page is full and a fast-forward can happen.
  Calldata covers up to two arguments of eight types, nested two deep, and texts of
  0, 2, 31, 32 and 33 bytes, so that a word is full and one over; drift all
  pairs of texts up to length five over two letters, where the band is narrower
  than the row.  The values are in `MC_AutomatonEffects.cfg`.
* Time stops at its horizon.  Leases and deadlines are one or two ticks, so they
  expire within it.

`CHECK_DEADLOCK FALSE` is set where time, blocks and sessions run out; the
escrow can always be called, and deadlock is checked there.

### Fairness

`SessionSettles` assumes that the clock advances, that the chain grows (below
`evm_confirmation_depth` blocks a poll does nothing), that the interval timer
fires and starts a due poll (weak fairness: the IC runs timers of a canister with
cycles, and the configuration is complete), and that an RPC call which is made
again and again is eventually answered (strong fairness: a failed poll is
scheduled again by `finalize_job_failure`, and each attempt may fail).  Nothing
is assumed of stewards, deposits or upgrades.  The automaton's specifications
state no fairness: what is checked of them is safety.

## 4. Proofs

The runs show the properties on small instances.  The theorems show them for
every value of the constants: any number of holders, claims, sessions, polls,
blocks, commands, jobs, turns, messages and clock ticks, and any timing the
interleavings allow.  Every safety invariant and every action property of the
passing runs has one, but for those listed under *Only model-checked*.

Each proof has the same shape.  An inductive invariant is stated as a
conjunction of named parts; a lemma per action shows that the step keeps it; a
step lemma collects them over the disjuncts of the next-state relation; the
theorem combines initial states, steps and consequence with `PTL`.  Parts are
operators of the tables they speak of (`SessionsFit(sess, deposits, ...)`), so
that a lemma speaks of the state before and after as of two values.

Where a definition recurs over data (the sum of `Solvent`, the rows of the
distance, the books recomputed from the executions, the memory of a round) the
induction is written as the search for a least counterexample: a set of natural
numbers that is not empty has a least element (`LeastNat` of `TableLemmas`), and
the step from its predecessor refutes it.  The induction theorems of the library
take an operator as a parameter, which the provers cannot instantiate.

### `LocalEscrowProofs`

* `TypeTheorem`, `PayerTheorem`, `EndowmentTheorem`: `TypeOK`,
  `PayerOwnsTheClaim` and `EndowedAtMostOnce` are invariants.  `EscrowInv` is
  their conjunction, and none of them is inductive alone: that a deposit by the
  recorded payer keeps the payer the owner needs the types of the balances; that
  `depositReproduction`, which overwrites the payer, loses nobody's money needs
  that a claim with no balance has no stake of anybody; that it succeeds once
  needs that an endowed claim has money in it or was released, which a
  settlement must re-establish.
* `EscrowKeepsPromise`: `LocalEscrow` implements `EscrowPromise`.  The invariant
  is used for the two interesting steps: `refund` pays one account, and only
  because that account owns all of the claim does everybody get back its own; a
  deposit is a step of the promise only because nobody else has a stake.
* `SolventTheorem`: the contract's tokens are what its claims add up to.  A call
  changes one claim and the balance by the same amount; that two sums that differ
  in one term differ by that term is unfolded along the fold that computes them,
  for which the set of claims must be finite.

### `PaymentScanProofs`

`ScanInv`: types; the global cursor is not past the confirmed head; what a
session, the poll job and each suspended poll carry fits the chain
(`SessionsFit`, `JobFits`, `PollsFit`).  A suspended poll's head was confirmed
when it was read and stays so, because blocks are only replaced above the
confirmed part.  From it: `TypeOKAlways`, `EvidenceSoundAlways`,
`SpawnIffPaidAlways`, `PollNeverForgottenAlways` and, as an action property,
`LateScansHarmlessAlways`.

`NoDepositSkippedAlways` needs `CoverInv` besides: a poll that waits for logs
asks from no later than any session's cursor, one that waits for hashes carries
every deposit of its window that is not yet evidence, in the sessions as it saw
them.  Its hypothesis is `InitialCursor # NoBlock`: without it the statement is
false (section 6).

### `PayoutProofs`

`PayoutInv(own)` says that every nonce below the cursor has an owner, a kind and
a session: whatever carries it (a transaction in the pool or on the chain, a
record, a draft of a suspended execution or command) is that owner's.  The code
keeps no such table, so the theorem quantifies over it.  Besides, a draft is
known to nobody else before it is written (`DraftsPrivate`), the draft guard,
which compares identities, lets through only the very record
(`GuardIsExact`), and what the books call complete or refunded was settled so in
a final block (`Settled`).  From it: `NonceUniqueAlways`,
`BooksFollowTheChainAlways`, `RecordedReleaseSettledAlways`,
`GuardIsExactAlways`, and the action property `LateStepsHarmlessAlways`.

`PayoutsTyped`: `TypeOK` of `RefundCommand`, which is the type of everything the
factory, its executions, the refund commands and the chain share.  It is not
inductive: that what an execution sends is a transaction needs that a session
that is broadcasting its release has a canister to release to, that an execution
past the creation carries one, and that a signed draft has its nonce
(`SessTypes`, `ExecTypes`, `CallTypes`).  `PayoutTypes` states these per record,
and its step uses `PayoutInv` for the records two parties share.

### `FactoryProofs`

* `AttestedCodeTheorem`, with no assumption on the constants.  `AttestedCode` is
  not inductive: when a commit stores the upload, the pair that is stored must
  have been declared when the upload began (`UploadDeclared`); when code is
  installed, the module and commit that the suspended execution carries must have
  been declared when it read them (`ExecutionDeclared`); and a release is sent
  only for a child that exists because an execution that has passed the
  verification has a child (`VerifiedHasBody`).
* `CooldownKeptAlways`.  `BirthInv`: sessions of one parent are spaced out, what
  is registered stems from a complete session, a session for a child is one
  generation below a registered parent, requests under way are of registered
  parents.
* `NoRoomMessagePassedOverAlways`.  `RoomInv`: what `last_seen` is past is
  covered, and so is what each of the two polls asked after or was answered; a
  page is a prefix of what is left, so the last number of a page leaves nothing
  out below it.
* `BandIsExactAlways`.  `DriftInv` relates each row of the band to the textbook
  distance: a cell is exact where the distance is within the threshold and above
  it elsewhere.  The arguments are that the distance of two prefixes is at least
  the gap of their lengths (so what lies outside the band is far), that a row
  that is far everywhere stays far (so the early exit is right), and that the
  code's minimum of a row may leave column 0 out, because column 1 of a row is no
  further than column 0.  The share must be below the
  whole: see `DriftAssumption`.
* `RoomTyped`, `DriftTyped`, `BirthTyped`, `ArtifactTyped`: types and limits.  The
  limit of the room and of the observations needs a count: the `n` newest of a set
  of numbers are at most `n` (`NewestAreFew`, by the oldest of them: the others are
  newer than it and fewer than `n`).  For the artifact, an upload carries the
  digest of a whole module from its beginning on, so that what is committed under
  that digest is one; an execution sends no more pieces than its module has.  For
  the births, what is registered has a session and requests are of registered
  parents (`BirthInv`), and requests are no later than the clock.

### `AutomatonRuntimeProofs`

* `DeathIsFinalAlways`.  `MortalityInv`: the terminal turn has a number, and from
  `TerminalInProgress` on it is not above the turn counter; the dead hold no lock.
* `RunningHoldsTheLeaseAlways` and the action property
  `FinishedStaysFinishedAlways`.  `RtInv`: a lease names a job in flight
  (`Queue`), two suspended dispatches have different jobs and different turns, those
  that outlived their leases included (`JobsApart`, `TurnsApart`), and a suspended dispatch within the time of
  the lease it took still holds it.
* `AnsweredOnceAlways`, `AnswerSawTheOldestAlways`.  `AgentInv` relates inbox,
  turns, replies, batches and waits: a staged message is held by the turn with
  the lock or was taken from one that lost it; a wait names what its job saw; a
  proxy result is used by one turn (`MailOk`, `ProxyOk`).  The beginning of a
  turn and its first step are one message of the canister; the proof separates
  them by a state in between that is never stored.
* `SentOnceAlways`, `ExposureAccountedAlways`.  `SendsInv`: rows, the turn and the
  scans in flight, and transactions agree, where a snapshot is still `fresh` or
  the row has moved on; a transaction that no row knows lost a compare-and-set.
  `BooksInv`: a row is created once and booked at most once; as long as no exit
  was begun blind, each confirmed exit has an earlier confirmed entry, the
  exposure is the balance of the two, and recomputing it from the rows gives the
  same.
* `AutomatonTyped`, from `RtTyped`, `AgentTyped` and `StrategyTyped`: a step of
  one of the three is a step or a stutter of each.  Each type invariant is
  inductive only beside the invariants above, and says more than types.
  `RtTyped`: the lease, the schedules and the suspended dispatches name jobs that
  exist, since the table of jobs only grows (`QueueTyped`); a tick takes at most its
  limit of jobs; the response limit stays between its bounds and the counts of
  failures at their thresholds, whatever is tuned and in any order.
  `AgentTyped`: a wait is closed before its attempts reach the limit, no turn
  exceeds its rounds or its budget of tools, rejections stop at theirs
  (`CountersOk`).  `StrategyTyped`: a hash in a row or in a snapshot, however
  stale, is the number of a transaction that was sent (`HashInv`), and the counts
  that lead to quarantine stop at their thresholds (`LimitsInv`).

### `EffectsProofs`

* `TransitAccountedAlways`.  `TopUpInv`: every lock, made or still to come,
  belongs to a run or to a lapse; the units on the way, those two dispatches are
  about to move included, are covered by failures, lapses and the run under way.
* `NoPaidMessageLostAlways`.  `InboxInv`: every cursor, the stored one and those
  of the suspended polls, has only settled events before it; a page that was
  answered is the route's prefix of its range.  Hence a late poll may set the cursor
  back, but never to a place with unsettled events before it.
* `PaymentsRememberedAlways`.  `PayInv`: a turn that pays has its note or lost it,
  and what it sent before is accounted for without it; a recovery's snapshot of
  the child's note fits the action it was chosen for.
* `MemoryAccountedAlways`.  `MemoryInv`: per window, summaries and stored turns
  add up to the turns recorded; the newest entry of the journal is the last one
  published; before a plan's step all is done, after it all is pending.
* `OutcallsPaidForAlways`.  `OutcallInv`: the balance is above each reserve but
  for what was spent by calls that are not held to it or go unchecked; reservations of searches are in the order of turns
  but for one that comes late, so that eviction never takes a live turn's.
* `RepeatOnlyIfForgottenAlways`.  `RoundInv`: what the first round of an
  autonomous turn executes was not deduplicated by the memory as it still is, a
  success is recorded with the time it had, and the count of a terminal turn's
  transfers is no lower than the attempts.
* `TopUpTyped`, `PollTyped`, `CounterpartyTyped`, `MemoryTyped`, `OutcallTyped`,
  `ToolTyped`: types and limits, each from the invariant above and one of its own.
  `TopUpLimits`: the units of all places add up to the wallet, and the polls of the
  bridge are below their limit in the copies two dispatches carry too.
  `PollLimits`: the cursor a poll carries is one, so that the one it writes back
  late is.  `PayLimits`: deals and receipts are of transactions that were sent;
  with `NoteFits` so are the hashes of a child's note.  `TablesInv`: a subject
  has one lesson, so that noting a success adds none; a full table of facts gives
  up an evictable one for the one it takes in, or takes in none.  `OutcallLimits`: the size of a
  request doubles up to the largest, and a new reservation evicts.  `RoundLimits`:
  the calls of the rounds before and of the one under way are within the budget
  together; the trackers after a round are those of its calls one after the other,
  again by the least call for which it would fail.

### `AuthorityProofs`

* `RevocationStandsAlways`: what was withdrawn is among the revocations.
* `ValidatedWasAskedAlways`.  `DiscoveryInv`: a pending job carries the watchlist
  an acknowledged submission had.
* `CommandsSpentOnceAlways`.  `StewardInv`: within a tenure spent nonces lie below
  the stored one and differ; the certified settings are the stored ones.
* `CalldataTyped`, `CalldataAlwaysReadsBack`: for types and arguments of any size
  nested to any depth `MaxDepth`, what a contract reads is what the agent wrote.
  The step from `Codec[d - 1]` to `Codec[d]` is the argument: the head of a
  parameter lies where the sizes before it add up to, its tail where the offset
  in the head says (wherever the block of words is put, offsets being relative to
  its beginning), and a part that lies whole in the data is read back by the codec
  below.  Two facts carry it: a type of fixed size is encoded in just that many
  words, and chunks of 32 bytes give back every byte of a text.  That the step gives
  every depth is shown by the least depth at which it would fail, since the
  library's induction theorems cannot be used.
* `RegistryTyped`, `DiscoveryTyped`, `StewardTyped`: types and limits.  For the
  steward, the nonce is no higher than the calls made, and the nonce of a proof
  that waits is below them, so that what it spends when the wallet's answer comes
  is still covered by a call.
* `EffectsTyped`: `EffectsTypeOK`.  A step of the subsystem in focus is a step of its
  own specification and leaves the others alone, and the focus stays, so that a
  behaviour of the composition is one of every subsystem that starts as its own
  specification says; calldata and drift do when they are in focus.  The fourteen
  theorems of the parts then apply.

### Assumptions

All are evaluated by TLC on the runs.  Bounds, times, prices and table sizes are
natural numbers, positive where the code's constants are (`SchedulerAssumption`,
`SessionTtlAssumption`, `RefundAssumption`, `RoomAssumption`,
`PolicyAssumption`, `JobsAssumption`, `TurnAssumption`, `TopUpAssumption`,
`PollAssumption`, `MemoryAssumption`, `RoundsAssumption`, `StrategyAssumption`,
`CounterpartyAssumption`, `ArtifactAssumption`, `RegistryAssumption`,
`DiscoveryAssumption`, `StewardAssumption`, `SupplyAssumption`).  The others:

* `EscrowAssumption`, `ReleaserAssumption`, `NoAddressAssumption`: the escrow's
  address is not a holder's, the releaser is a holder, `address(0)` is not;
* `ClaimsAssumption`, `ScanAssumption`, `SpawnAssumption`: there are finitely
  many claims and sessions; a factory that has scanned lives on a chain long
  enough for it; the mark of no canister is no canister;
* `PowersAssumption`, `PolicyAssumption`: powers of two up to the cap of failures,
  and up to the exponent at which the backoff is cut off, are numbers, which the
  provers do not know; the least response limit is not above the greatest;
* `RtAssumption`: what is observed are tiers of mortality and of survival, each
  tier has a cadence, the tasks that are switched on are tasks;
* `DriftAssumption`: the share of a constitution that a child may change is
  below the whole (2,000 of 10,000 in the code);
* `OutcallAssumption`: the automaton starts with at least its reserves, three
  entries or more are kept of search usage, and the first size of a response is
  not above the last (64 and 512 KiB in the code);
* `BirthAssumption`: there is a chain for the releases, chains have positive
  numbers, and times are numbers;
* `AskedAssumption`: the commands stewards ask for are commands;
* `AbiAssumption`: the arguments' types and values are types and values nested no
  deeper than `MaxDepth`.

### Only model-checked

* `SessionSettles`: liveness under fairness, which is out of the provers' reach.
* The five violations of section 6, which are counterexamples.

## 5. Plan

Done: all modules of section 2, and a theorem for every safety property of the
passing runs but those of *Only model-checked*.  Left:

1. Liveness of spawns, for TLC, once the two ways to lose a spawn job (hazards) are
   stated as properties of their own.

## 6. Findings

* `expired_refund`.  `docs/local-development.md:136` promises "(refund
  available)" for expired sessions.  A refund claim that arrives after the
  deadline and before the scan has seen a confirmed deposit expires the session
  first and then refuses the refund; the session is never scanned again.
* `refund_fence`.  The test at `backend/factory/src/lib.rs:1803` states that a
  stale completion is fenced.  When a lease is removed its generation is
  forgotten, so the next command gets generation 1 again, and a command that was
  suspended under the first generation 1 passes all checks.
* `secrets_for_retry`.  `plans/001-redact-spawn-provider-secrets.md:145` wants
  secrets kept for a retry.  They are deleted after the installation; a strategy
  failure after it makes the retry install a new canister without them.
* `released_to_automaton`.  `README.md:37` says the funds are released to the
  automaton.  The receipt of an earlier release record is accepted without
  comparing its recipient, so a canister created by a later retry is registered
  although the escrow went to the address of a canister that was deleted.
* `death_is_absolute`.  The comment at `ic:scheduler.rs:161` says that after death
  no queue or recovery path may act again.  Only the beginning of a tick looks at
  the phase: a tick that is in its loop when the automaton dies takes and
  dispatches the next pending job.

### Observed while modelling

These are what the code does, as far as the models show it; none has a run of
its own, and the properties above are stated so that they hold beside them.

The factory: with `payment_last_scanned_block` still unset and two sessions, a
reconciliation that stops half-way moves the global cursor past a deposit of a
session that has no cursor of its own (`PaymentScan` with `InitialCursor <-
NoBlock` violates `NoDepositSkipped`); a release whose send answer is lost is
followed by a second one that reverts; a refund whose send answer is lost is sent
again, refused as already known and never finalised; a late execution's `Skip`
clears the job of a retried session; a late execution can register the canister
it resumed with while a retry builds another one, so that one session has two
registered automata (the draft guard compares release records, which are the
same); a reserved nonce that is never sent leaves a gap; the first scan reaches
back 10,000 blocks only; a session expired by a refund claim keeps its secrets; a
failed cleanup leaves a runtime marked as installed, and the retry resumes the
handover of a canister that is gone (`spawn.rs:1944`); an artifact replaced
between installation and retry makes the retry's verification fail
(`spawn.rs:346`), and a resumed release records the commit of that moment
(`spawn.rs:1587`); `report_death` replaces a death of the infrastructure; a share
of a constitution's edits of the whole or more would refuse an empty child text,
whose band has no column (the constant is far below).

The automaton's scheduler: the deduplication of jobs looks for a status no job
ever has, so a job in flight keeps no second one out (`sqlite.rs:3752`); the
pending id that an enqueue records is overwritten by a stale save in
`refresh_due_jobs`; an expired lease is overwritten (`stable.rs:5540`) and a late
`complete_job` changes a job that was timed out and raises its attempts; a trap in
the terminal turn leaves the phase `TerminalInProgress` for ever, and a trap in a
spawned tick leaves `SCHEDULER_WAKE_IN_FLIGHT` set until an upgrade
(`lib.rs:2060`); a controller may switch scheduler and loop on again during the
terminal turn or after death, and then the phase alone keeps turns from beginning.

Turns and tools: a callback before its acknowledgement is taken for a duplicate
and lost (`stable.rs:5196`); with batches of several messages a turn that lost
its lock could answer the oldest one and the job of its wait be taken as the answer
to the rest, which the code's batches of one message (`agent.rs:68`) rule out and
`AnswerSawTheOldest` excuses by the lost lock; a deadline that passes during the tools drops the
records of what was executed (`agent.rs:3867`); alternating failures never reach
the degrade cap (`agent.rs:1420`); evicting memory facts may drop notes of
pending payments; `pay_peer` called twice in a turn uses one pending key
(`tools.rs:1791`); recovery of a reproduction's payment, and a top-up, wait for
ever for a transaction that was dropped; a top-up that fails after its lock
strands the funds; a fast-forward passes over paid messages (`evm.rs:364`); the
RPC fallback is called without a second look at the balance (`evm.rs:874`).

Strategies and stewards: the loser of a compare-and-set has sent a transaction
that the row does not know, and the call is sent again (`evm.rs:3040`); a
confirmed exit without an exposure is an error that repeats; a quarantine never
ends (`tools.rs:4606`); `register_from_recipe` replaces the shared ABI even when it
then fails; `Activate` stores the status before its dry run (`lib.rs:2310`); a
rotation starts the steward's nonce anew (`stable.rs:2074`), expiry is not looked
at again after the await, and a failed command spends its nonce.

## 7. Not modelled

* The indexer (a read-side cache), the evaluator (a test harness), the RPC gateway
  (stateless) and the web applications.
* Amounts beyond counting: fees, quotes, royalties' percentages, exchange rates,
  cycle estimates, the numeric limits of a strategy's policy, scores of the
  learner.
* Formats: RLP, signatures and their verification, candid compatibility, SQL
  schema and migrations, stable memory layout, JSON of arguments and answers.
  The one encoding that is modelled is the ABI layout of strategy calls.
* Text: prompts, replies, sanitising beyond the sequence of tool messages, pages,
  logs, the audit trail, read-only routes and display queries.
* The rest of the administration: setters that store one value.
* Reorganisations deeper than the confirmation depth, on both sides.
* The limit of eight jobs per tick of the factory: it delays jobs and the models
  let any job wait.
