# Verification of the isA_Chain node

TLA+ models of the isA_Chain node (`src/core/blockchain`), the TLC configurations that
check them and the TLAPS proofs about them.

## The system

A node holds one `Blockchain` behind a tokio `RwLock`. Clients reach it through JSON-RPC; a
block producer task ticks on an interval; RocksDB keeps what must survive the process. Around
this ledger the crate has many managers (payment channels, compute market, bridges, governance,
staking, wallets) that are plain structs with `&mut self` methods: each call is atomic, and what
is hard about them is the order in which legal calls arrive.

| Component | State | Operations | Talks to | Hard part | Correct when |
|---|---|---|---|---|---|
| Ledger (`blockchain/`, `bin/node.rs`) | head, height, blocks, accounts | start, restart, submit, faucet, build, execute | mempool, storage, RPC, producer | crash between two puts, a block that fails half-way, stale account map | no transaction mined twice, tokens conserved, stored chain opens again |
| Mempool (`mempool.rs`) | pending transactions | add, order, remove | ledger | stale entries at its limits | what can be mined is mined |
| Block producer (`consensus.rs`) | a tick | read section, write section | ledger, proof of stake | writes between the two sections | acts on what holds when it writes |
| Storage (`storage/rocks.rs`) | blocks, height index, latest height, accounts | one put per key | ledger | no batch around the puts | every prefix of the puts can be opened |
| Payment channels (`channel/`) | channels | open, update, close, dispute, finalize, top up, expire | batch settlement | an old state submitted late; a dispute that races a close | deposits add up; the newest signed state stands |
| Batch settlement (`batch_settlement/`) | batches, settled channels | create, process | channels | a batch processed twice, overlapping batches | a channel is settled once |
| Compute market (`compute_market/`) | providers, jobs, disputes, escrow | register, update, exit, create, accept, start, settle, cancel, dispute, resolve | subnet | disputes after settlement, exits during jobs | escrow and capacity match the open jobs |
| Finality (`finality/`) | votes per block | register, vote, finalize, prune | its caller | conflicting votes, late votes, a changing total | conflicting quorums share voters; the finalized height does not go back |
| Proof of stake (`pos/`, `staking.rs`) | validators, stakes | register, remove, select, stake, unbond, slash | its caller | selection order after removals, copies of stakes | only validators propose, each in its turn; stakes are accounted for |
| Sync (`network/`) | requests in flight | request, receive, peer height | peers | overlapping batches, lost replies | the node catches up |
| Deposits, withdrawals, credits, bridges | requests and totals | initiate, complete, fail, refund | ledger, off-chain services | repeated and colliding requests | nothing is paid twice |
| Settlement pipeline (`settlement*/`) | events, batches, proofs, deferred charges | ingest, batch, prove, retry, defer, expire | credits | duplicates, retries, deadlines | an event is charged once or reported |
| Governance, vote escrow | proposals, locks | propose, vote, tally, execute, lock, extend, withdraw | staking | order of calls, decaying power | a proposal is executed once |
| Staking, treasury, emission | stakes, totals | stake, unbond, slash, collect, distribute, emit | ledger | totals beside the records | totals match the records |
| Agent wallets, budgets, billing | limits, windows | spend, freeze, reset, charge | credits | windows, pauses | a limit is never exceeded |
| Agent tokens, registry, reputation, incentives | curves, scores, programs | buy, sell, register, report, decay, reward | administrators | rounding, indexes, several kinds of events on one score | reserves follow the curve; every score is explained by its events |
| Subnets, oracles (`subnet/`, `oracle/`, `quality/`) | providers of subnets, prices, scores | register, join, leave, submit, revoke | administrators, feeders, reporters | an index beside the entries, revoked reporters | index and entries agree; a price moves by its bound |
| Account stakes, validator set (`account/account.rs`, `validator.rs`) | delegations, unbonding, total power | become validator, delegate, undelegate, process, add, remove | nothing calls them | merged and removed entries | what was delegated is delegated, unbonding or back |
| Peers (`p2p/`) | peers, bans | connect, disconnect, ban | callers | a ban that ends, a refused connection | nobody is connected who was banned since |

The other parts (sync messages, RPC reads, encodings, the Solidity contracts, the API services,
the wallet library) are listed in `PROJECT.json` with the reason they have no module.

## Plan

1. `Chain`: the ledger, mempool, producer and storage (done).
2. `ComputeMarket`; `PaymentChannels`, `BatchSettlement` and `Payments` over them (done).
3. `Finality`, `ProofOfStake`, `BlockSync` and `Consensus` over them (done).
4. `Managers` over the managers around the ledger: `Deposits`, `Withdrawals` (with `Escrow`),
   `Credits` (with the credit bridge), `CrossChain`; `SettlementPipeline`, `SettlementFallback`,
   `BalanceSync`; `Governor`, `VoteEscrow`; `TokenSupply`, `Fees` (with the emission),
   `SubnetStaking`, `Delegations`; `AgentWallets`, `Budgets`, `CreditBilling`, `Incentives`,
   `AgentTokens`, `AgentRecords`; `Subnets` (with the oracles), `PeerTable` (done).
5. Theorems for every safety property that a run checks, for every value of the constants
   (done): `ChainProofs`, `ComputeMarketProofs`, `PaymentsProofs`, `ConsensusProofs`,
   `CustodyProofs`, `EconomyProofs` and `ManagersProofs`, on the lemmas of `Sums`.
6. Left: a chain as an append-only sequence of blocks, which `Chain` should implement across
   restarts; `CrossChain` and the channels as escrows too; what a crash leaves of the books of
   accounts, of which so far the first life alone is proved; the widths that are still taken not
   to be left (see "Widths").

Each component gets an MC module with one or two configurations (two or three parties, two or
three objects, amounts below ten), and the properties that matter most as theorems.

## Proofs: what they share

A theorem about a component holds for every value of its constants that its assumptions allow:
any number of addresses, jobs or agents, any rates and heights, and any amounts of the width
that the module has (see "Widths" for what is taken to fit). The assumptions are in
the component's module, and TLC evaluates them on each run. They say that inputs are numbers, that a
missing record is none, that a rate in basis points is at most 10 000 where the code checks it, and
that a sum is over finitely many (addresses, jobs, channels, holders, voters), since a map holds
finitely many entries. The theorems in which more is assumed name it as a hypothesis.

Books of accounts are sums, and a sum over a set is a fold, about which an SMT solver knows nothing.
`Sums` derives what is needed from the definition of the fold: `MinimalSubset` gives induction over a
finite set (a smallest violating subset, found by the order of the natural numbers), `TableExists` and
`TablesAgree` that the fold has a value and only one, in whatever order it takes the elements. Then
come the lemmas that the other modules cite: a sum after one entry changed
(`SumUpdate`), was added (`SumExtend`, `SumAppend`) or left out, a sum of a part (`SumOfPart`), sums
compared term by term (`SumMonotone`), rounded shares of an amount that stay within it
(`SharesWithin`, `PartIsWithin`), and what the standard library lacks about quotients and
remainders, with which the proofs about wrapping sums reason (`ModPlus`, `ModSmall`, `DivMod`).

An induction has one lemma per operation (what it keeps of the invariant), one for
the initial state and one that the invariant implies the property; the theorem combines them.
`Chain`'s invariants and those of the managers were checked by TLC before they were proved.

Liveness (`PendingSettles`, `CatchesUp`) stays with TLC: fairness and ENABLED are beyond the prover. Every
other property of the runs is also a theorem; what a theorem needs that the run does not is said
where the component's proofs are described. `PROJECT.json` lists them all.

## Chain: the ledger, its storage and its producer

| In the model | In the code |
|---|---|
| `head`, `height`, `blocks`, `accounts`, `mempool` | fields of `Blockchain` |
| `phase`, `current`, `todo`, `unsaved` | the operation that holds the write lock and how far it is |
| `producer` | whether the producer's read section has run |
| `dbBlocks`, `dbIndex`, `dbLatest`, `dbAccounts` | RocksDB's keys |
| `acked` | blocks for which `produce_block` returned Ok (history) |
| `issued`, `burned`, `dropped` | tokens put in and taken out, transactions of given-up blocks (history) |

A transaction is its own hash, a block has a fresh id: hashing is injective. The hash is the one
that the client sends with the transaction and that the mempool compares (`mempool.rs:27`), so that
one signed transaction under two hashes is two transactions, in the code as in the model. Signatures are
taken as checked. `BuildBlock` is one action, since `build_block` and the removal from the mempool touch
memory only. A block's execution is one action per transaction, with no rollback when
one fails (`Abort`), because `add_block` has none. Each put is its own action, and `Crash` may
come between any two: memory goes, the database stays. A put may also fail (`BlockPutFails`,
`FaucetPutFails`, `BootPutFails`), with what the code does then: `add_block` returns with the block still the
head, the faucet ignores the error, the node's start gives up. Amounts wrap at
`AmountModulus`, as u128 does in the release build that the Dockerfile makes: balances, and the
sum of amount and fee that both balance checks compare (`Cost`, execution.rs:167, 197). A transfer
of nearly 2^128 costs next to nothing there, passes, and fails in execution, its block with it.
`SoleTransferExecutes` leaves such transfers out, and says so; `chain_live` has one.

### Runs

| Run | What it shows |
|---|---|
| `chain_live` | One life of the node, with and without RocksDB, RPC writes between the producer's sections, a failing put: no double inclusion, nonces count executions, tokens are conserved, a transfer alone in its block executes unless its cost wrapped, and a minable transaction in reach is mined. |
| `chain_crash` | Two crashes anywhere: the stored chain opens, acknowledged blocks stay, at most the block being written is lost, an acknowledged block's accounts are stored. |
| `chain_replay` | Violation: after a restart the account map is empty and the nonce reads 0, so a mined transaction is accepted and mined again. |
| `chain_gap` | Violation: one failed put leaves the block as head; the next block is stored above the gap and the node cannot restart. |
| `chain_balance` | Violation: a transaction that passed `build_block`'s balance check fails in execution and its block is given up. |

Bounds: two wallets, the faucet and the zero address; six transactions that cover every kind the
execution distinguishes, including two that compete for one nonce, one of them with a cost that
wraps, and a stake that costs more than its fee;
blocks of at most two transactions, so that what is left behind for the next block, and a
block whose second transaction fails, both occur; four blocks, three drips, two crashes, one
failing put. Two blocks are enough for replay and for a gap, two transactions of one sender for
every interleaving inside a block. `MaxMempool = 3` is below the number of transactions, so the
pool fills.

Fairness (`FairSpec`): the task that holds the lock runs on (weak fairness of `Holder`), and the
producer's two sections get their turn (strong fairness of `Observe` and `Produce`, since RPC
writes may take the lock in between again and again). The interval keeps ticking
(`consensus.rs:97`), and tokio's `RwLock` queues its waiters first in, first out. Nothing
is assumed of clients, of crashes or of puts. `PendingSettles` is about transactions within
reach of a block: the code never removes a transaction whose nonce has passed, and 100 of them
(the block's limit) with a high gas price keep every later block empty.

### Proofs

`ChainProofs` proves, for every finite set of addresses and of transactions, and every amount and
bound:

- `TypeCorrect`: `Spec => []TypeOK`. The strengthening `TypeInv` adds what each phase says of the
  block in progress, of its height and of the entries in memory; without it a put has no typed
  block to write.
- `NoReplayInFirstLife`: until the process first ends (by a crash, or a put that fails while it
  starts; later puts may fail), no transaction is in two blocks, assuming `PositiveCosts` (a
  transaction costs something also after its sum wrapped, so that its sender
  needs an account with a balance) and `SelfSettled` (a settlement is signed by the user it charges). `NoReplay` is
  not inductive: `ReplayInv` says that the nonce of a mined transaction is below its sender's,
  that two transactions of a sender in one block have the same nonce as the account had when
  the block was built, and that whoever is stored is in memory, so that no credit
  starts an account afresh.
- `NoncesAreExecutions`, under the same hypotheses: an account's nonce is the number of its
  transactions that were executed. `CountInv` adds that a transaction of a block that was given
  up is spent, so that it is not counted twice.
- `SupplyIsConserved` and `SoleTransfersExecute`, in the first life and while what was issued is an
  amount. `SupplyInv` joins the two: a transfer that is its sender's only transaction in the block can
  still pay, since nobody else's transaction lowers a balance, and as no account then overflows or
  underflows, each transaction moves what it says. The hypotheses are what the code does not check: no fee of a
  settlement above its gross amount (`SettlementsCovered`), no drip above the initial supply
  (`DripsCovered`; the faucet takes any amount from the RPC), and no unstake above the balance when it executes
  (`UnstakesCovered`, execution.rs:85), with `PositiveCosts` and `SelfSettled`. That a sole transfer
  executes is said of those whose amount and fee together are an amount. In the constants of
  `chain_live` all of them are met.
- `ChainSurvivesCrashes`, `AckedBlocksSurvive` and `OneBlockAtRisk`: as long as no put failed,
  however often the node
  crashed, the database opens, keeps the acknowledged blocks and lacks at most the block being
  written. `StorageInv` relates memory and database in every phase: which of the three
  puts of a block are done.
- `ChainStaysLinked`, under the same condition: parent links lead from the head through every height to
  genesis. `LinkInv` says that ids are unique among all blocks ever built, that the index leads from block
  to parent, and that the head is on it or is the block being written.
- `AckedBlocksAreSaved`: an action property, with crashes and failing puts.

Only model-checked: liveness (`PendingSettles`), and the first life without the hypotheses above,
in which `chain_replay`, `chain_gap` and `chain_balance` show what goes wrong.

### Not modelled

A faucet request for the faucet's own address; `mint`, `mint_tokens` and `burn_tokens`, which
only tests and set-up call; asking the consensus engine for the proposer and recording the
block, which the shipped configuration leaves without validators; an unstake above its
sender's balance in `chain_live` (it is subtracted unchecked, wraps the balance and breaks
`SupplyConserved`); read-only RPC methods; gas, which the
execution never charges.

## ComputeMarket: providers, jobs and disputes

| In the model | In the code |
|---|---|
| `providers`, `jobs`, `providerJobs`, `disputes` | the maps of `ComputeMarketState`, `None` for a missing key |
| `totalEscrow`, `totalStake`, `activeProviders` | `total_escrow`, `total_provider_stake`, `stats.active_providers` |
| `now` | the timestamps the callers pass |
| `reopened` | jobs disputed after they had been settled (history) |
| `overGiven` | providers given capacity that none of their jobs had taken (history) |

The state is a plain struct whose methods take `&mut self`, so every call is one action, and any
caller may make any call: the code checks that a job's user or provider is the one who cancels
or disputes, and lets anyone settle, resolve and register. A call that returns an error and
changes nothing is left out; `UpdateRejected` is the one that changes the capacity first.
Nothing removes a provider, a job or a dispute.

The four fields of a `ComputeCapacity` are one number, since every method treats them alike.
Amounts are natural numbers; a total that reaches 2^128 is not modelled.

### Runs

| Run | What it shows |
|---|---|
| `market_calls` | Every order of calls: the escrow is that of the unfinished jobs until a settled job is disputed and never more; jobs fit into a provider's capacity unless the code gave it capacity nobody had taken; a provider that left has no work; an open dispute is the only one about its job; the stake total and the active count never claim more than the records show. |
| `market_escrow` | Violation: a settled job is disputed within its window, and the ruling releases its escrow again, out of the escrow of another job. |

Bounds: two providers, one user, two jobs and two dispute ids. One provider has room for either
job but not for both, and may shrink to where it has room for one of them only; the other is too
small for the job it may take, but has a stake and a place in the counts, so that what one
does to the totals can hurt the other. A dispute id is reused, and one job's ruling can touch another's
escrow. The clock has two values and the
window is 0, so that a dispute in time and a late one both occur. A stake is 1, which a slash may
take and the provider put in again (`MaxStake`). Providers and jobs differ in what they may register or ask for,
so only dispute ids are symmetric. The system may stop (all jobs over), so
deadlock is not checked; there is no liveness to check, since nothing in the code acts by itself.

Two properties have a condition, and both conditions are places where the code lets the records
drift: `EscrowAccounted` gives up equality once a settled job is disputed (`market_escrow` shows
what happens then), and `NotOverbooked` leaves out providers whose capacity was changed during a job
(providers.rs:70) or given back by cancelling a job they had not accepted (jobs.rs:239).

### Proofs

`ComputeMarketProofs` proves, for any numbers of providers, jobs and disputes:

- `MarketTypeCorrect`, `ExitedProviderHasNoWork` and `OneOpenDisputePerJob` from `MarketInv`. It adds
  that a disputed job exists, without which a ruling has no typed job to write, and that a job
  that holds capacity is on its provider's list, without which the check in `provider_exit` says
  nothing about that job. Jobs move on by themselves, so the proof needs what each kind of
  step leaves alone: `JobEffect` and `DisputeEffect`.
- `ActiveProvidersNotOvercounted`, by induction over the calls, with the count of a finite set that
  gains or loses one provider.
- `EscrowIsAccounted`, `CapacityIsNotOverbooked` and `StakesAreOnRecord`, the three books, from
  `BooksInv` over `MarketInv`. It adds that a job disputed after its settlement does not run again,
  without which a second settlement could be paid, and that a provider with work is on record. A
  subtraction saturates at 0, so that the total escrow is equal to the sum only while no settled job was
  disputed, and at most the sum afterwards.

The sets of providers and of jobs are finite (`ProvidersFinite`, `JobsFinite`).

## Payments: channels and the batches that settle them

| In the model | In the code |
|---|---|
| `channels` (`PaymentChannels`) | `ChannelManager.channels`; a channel's id is its sender, receiver and opening height, of which the code takes the hash |
| `since` in a channel | `initiated_at` of `Closing`, `disputed_at` of `Disputed` |
| `height` | the block height that callers pass |
| `deposited`, `paidOut`, `replaced`, `changedAt` | what went in, what `finalize_channel` returned, what a second opening at one height replaced, when the balances last changed (history) |
| `batches`, `settledChannels`, `totalSettled`, `totalBatchesProcessed` (`BatchSettlement`) | fields of `BatchProcessor`; a batch's id is its place in the list, which the code hashes |
| `overlap`, `repeat` | whether two pending batches held one channel, whether a completed batch was processed again (history) |

Both managers are structs with `&mut self` methods: every call is one action, in any order.
`ChannelManager` checks who closes or disputes, and nothing else about its caller; an update
carries no signature, so it may state any balances that add up. They add up as u128 does in a
release build: nothing checks the sum of two balances (`channel/manager.rs:123`, `193`), so that one
above the deposit and one of nearly 2^128 are accepted, and paid out as they are
(`channel/manager.rs:232`). `wrapped` (history) has the channels for which a sum left its width. A
batch's total and the running total saturate (`processor.rs:127`, `194`). `Payments` puts the two side by
side. They share the ids of channels and no state: the processor never asks whether a channel
exists or what it holds, and a settlement changes no channel. Therefore one run checks
both, and its properties are about one of them each.

### Runs

| Run | What it shows |
|---|---|
| `payments_calls` | Every order of calls: balances add up to the deposit as the code adds, and exactly unless a sum wrapped; as long as none did, each deposit is held, paid out once or lost to a second opening at the same height, and otherwise what is missing is a multiple of the width; an ended channel stays as it is and its id is not given again, a payout comes a whole dispute period after the balances last changed. Batches that are processed once, and do not share a channel while both are pending, settle a channel once. |
| `payments_settled` | Violation: two pending batches share a channel, and processing both settles it twice. |

Bounds: two channels of one pair, whose ids differ in the opening height only; heights 0 to 3, a
dispute period and an expiry of one block: a channel closed at 0 and disputed at 1 is
paid at 2, a close, a dispute, a finalisation and an expiry compete at one height, and there is a
later one. Deposits are 1 and may add up to 3, so that there are top-ups, a second opening and a
second channel, in every mix. Balances from 0 to 2 and two nonces include updates that are too old
or do not add up. Amounts wrap at 3: two balances of 2 add up to a deposit of 1, and two top-ups
bring a deposit back to 0. Three batches of up to two entries, three offered; amounts of 0 and 2, of
which two saturate; three calls of
`process_batch`, on one batch or on several. A behavior moves the channels or the batches, as `part`
picks at the start, because the two share no state. The system may stop when the bounds are
used up, and nothing in the code acts by itself (`check_expired` runs only when called), so
deadlock is not checked and no liveness is claimed.

`DepositsAccounted` counts what an expired channel holds as held. No operation takes it out
again: that is what the code does, and the property does not say that it should.

### Proofs

`PaymentsProofs` proves, for any set of channels and any deposits, balances, nonces and
heights, assuming that the dispute period and the expiry are not 0 (with a period of 0 a channel
could be paid out and opened again at one height):

- `ChannelTypeCorrect` and `PayoutIsCovered`, the latter modulo the width of amounts for every
  channel and exactly for those without a sum that left it;
- `EndIsFinal` and `PayoutWaitsForPeriod`, which are action properties.

They follow from `ChannelInv`: the types, the balances, and `HeightsInOrder`, which says that a
channel that is closing or in dispute has been so since its last change or later, and that a channel
that ended did so above its opening height. Without the former the period of a close says
nothing about the balances that are paid, and without the latter an opening could fall on
a closed channel. `GoodStep` is what all operations have in common.

- `DepositsAreAccounted`, for finitely many ids: each call changes one channel, and the sum of what
  channels hold changes by what went in, out or was replaced. It is exact while no sum wrapped, and
  holds modulo the width always.
- `PaymentsTypeCorrect` and `BatchesSettleOnce`, about both managers together. `BatchInv` says that as long as
  no batch is processed twice the settled channels are those of the completed batches, that a
  pending batch shares no channel with them or with another pending one (`Disjoint`), and that the total is the
  sum of the completed batches' totals.

## Consensus: finality votes, proof of stake and block sync

| In the model | In the code |
|---|---|
| `finality` (`Finality`) | `FinalityTracker.blocks`, with the voters' names for the votes; a block stands for its hash and has one height |
| `finalizedHeight`, `finalizedHash`, `totalValidatorPower` | fields of `FinalityTracker` |
| `justifiedUnder`, `everFinalized` | the total power when a block got its quorum, which blocks were finalized (history) |
| `stakes`, `totalStaked` (`ProofOfStake`) | `StakingVault.stakes`, without `staked_at`, and `total_staked` |
| `validators`, `currentProposer` | fields of `PoSConsensus`, in the engine's order, without the counters of blocks |
| `putIn`, `released`, `slashed`, `movedDirectly` | what was staked, released and slashed; whose stake changed by a call to the vault itself (history) |
| `localHeight`, `bestPeerHeight`, `pendingRequests` (`BlockSync`) | fields of `SyncManager`; of a pending request, its start |
| `underWay`, `lost` | answers on their way and answers lost (the network, which the repository does not have) |

The three are structs with `&mut self` methods, and none of them calls or reads another: the node
produces blocks by proof of authority (`Chain`), and the tracker is told the voters' powers.
Because they share no state, a behavior of `Consensus` moves one of them, which `part` picks at
the start, and one run checks all three without the product of their states.

`SelectProposer` also stands for `validate_block`, which selects for whatever height it is asked
about and so changes `current_proposer`, although its comment says that it does not
(`pos/engine.rs:140`).

### Runs

| Run | What it shows |
|---|---|
| `consensus_parts` | Votes: two blocks of one height are both justified only if enough voters voted for both, and the finalized height never goes back. Stake: every token is active, unbonding, released or slashed; the engine's stakes and weights are the vault's; the proposer is a validator; over any total-weight heights each validator proposes as often as its weight. Sync: the node catches up with its best peer. |

Bounds: two blocks of height 1 and one of height 2; three voters of power 2, 1 and 1, so that
6667 of 10000 takes the first and another one; total powers of 1 and 4, since the code never checks
the total that it is told (with 1, a single vote is a quorum). Three stakers with at most 6
tokens between them and a minimum of 2: three validators of weight 1, or two of weights
1 and 2, which leave and swap places; one slash of 90 percent, which is capped at 50; an unbonding
period of one block and heights 0 and 1. Peers have up to 5 blocks, of which two requests of one
or two are pending and at most one answer is lost. The system may stop when the bounds are used
up, so deadlock is not checked.

`AccountableSafety` is about blocks that got their quorum when the tracker was told the power of
all voters. It says that those who voted for both can be named and not that there is one such block:
the tracker lets a voter vote for two blocks of one height, although its comment on the check
says otherwise (`finality/tracker.rs:74`). `EngineFollowsVault` leaves out stakers whose stake
was moved by a call to the vault, a public field: the engine does not notice these. A block that
has no votes can be finalized: `Finalize` has the code's guard, which does not look for a quorum,
although the comment above it says that the block must be justified (`finality/tracker.rs:153`).

Fairness: the caller keeps asking for blocks, and answers under way come in. Both are the
manager's purpose and not code of this repository. `CatchesUp` claims nothing once an answer is
lost: the request then stays pending, and there is no timeout.

### Proofs

`ConsensusProofs` proves about finality, for any blocks, powers and quorum and any finite set of voters:

- `FinalityTypeCorrect`;
- `HighestIsFinalized`: `HighestFinalized` always holds;
- `ConflictsAreAccountable`: `AccountableSafety` always holds.

The invariant is `FinalityInv`: the types; `VotesCounted`, a record's power is that of its voters,
without which a quorum says nothing about who voted; `JustifiedHadQuorum`, a justified block still
has the votes of its quorum, which more votes, a changed total and pruning must not disturb; and
`NoneFinalized`. Accountability then is arithmetic: two quorums and at most all of the
power leave the common part. That the powers of two sets of voters add up, less what they share, is
a lemma on sums (`SumOnUnion`).

About the engine and the vault, for any finite set of stakers, any amounts, heights and percentages:

- `ProposerIsAlwaysValidator`, `StakesAreConserved` and `EngineKeepsUp` from `StakingInv`, which adds
  the types of the validators and of the active stakes: a slash takes at
  most what there is, so the engine's records stay records, and the sum of the stakes moves by what
  the vault's total moves by. The step that needs thought is a
  removal: `OthersStay` says that every other validator survives `swap_remove`, at its place or at the
  removed one's. `PickIsValidator` covers the choice, whatever the weights add up to, with its
  fallback to the last validator.
- `RotationIsFair`: `RoundRobinIsFair` for any number of validators and all weights. Each validator
  has an interval of remainders as long as its weight (`RemaindersInWindow`), the intervals cover
  those below the total weight, and of any such number of heights in a row each remainder occurs once.

`ConsensusTypeCorrect` adds block sync: a request's next block is one of its own, and the walk to
the next free height ends since the pending requests are finitely many (`CandidateIsFree`).

Only model-checked: that the node catches up (`CatchesUp`), which is liveness.

## Managers: what is around the ledger

Twenty-one modules model the managers, one each or two small ones together. `Common` has what
they share: the height that callers pass, and sums. In the crate only the token state and the treasury
are fields of `Blockchain`; the other managers are public structs of the library that nothing but
their tests make yet. Every operation is a `&mut self` method, hence one action, whose guards are the code's early returns in their order. A call
that fails and changes nothing is left out; one that fails and changes something
is an action (a refused spending that opens a window anew, a refused connection that lifts a ban).

| Module | State in the code | Actions | What its property says |
|---|---|---|---|
| `Deposits` | `DepositManager`: deposits, totals | initiate, complete, fail, refund | implements `Escrow` |
| `Withdrawals` | `WithdrawalManager`: requests, lists by user, totals | initiate, complete after the cooldown, cancel | implements `Escrow`; the daily limit covers what is open |
| `Credits` | `CreditSystem`: accounts, price, totals | purchase, spend, grant, set the price | issued less burned is what the accounts hold, modulo 2^128 |
| `Credits` | `CreditBridge`: events, counters | initiate, complete, fail | counters are those of the events |
| `CrossChain` | `CrossChainBridge`: transfers, relayers, totals | initiate, confirm, refund, add chains and relayers | what went in is locked, over there, refunded or a fee |
| `SettlementPipeline` | `SettlementBridge`, `SettlementEngine`, `ProofStore` | ingest, batch, flush, record a proof, confirm | every event is queued, settled, flushed or forgotten; doubles only outside the window; proofs are of settlements |
| `SettlementFallback` | `SettlementFallback`: records, deferred | shortfall, resolve, expire | a deferred charge waits, is resolved in time or is reported |
| `BalanceSync` | `BalanceSyncEngine`: passes, discrepancies | pass, resolve | an account that differed is known, with its latest difference, until it is resolved |
| `Governor` | `Governor.proposals` | create, vote, tally, execute, expire | executed only on votes that passed, once per tally |
| `VoteEscrow` | `VeISASystem`: locks, totals | lock, extend, increase, withdraw | the stale total covers the powers of all voters |
| `TokenSupply` | `TokenState`, vesting schedules | mint, burn, authorize, start, release | supply is minted less burned; nothing is released before it vests |
| `Fees` | `EmissionController` | emit at a height | a height emits at most its reward; shares by stake, never more than there is; totals are those of the records |
| `Fees` | `Treasury`, `FeeRouter` | collect, deposit, three distributions, route, distribute pools | collected is held or distributed, routed is with somebody, rounding or wrapping of products or not, exactly while no sum wrapped |
| `SubnetStaking` | `SubnetStakingManager`, `DiscountManager` | stake, add, unstake, complete, slash, add a tier | every token is active, unbonding, released or slashed |
| `Delegations` | `StakingInfo` of an account, `ValidatorSet` | become validator, delegate, undelegate, process, add, remove | what was taken out comes back once; the total power is that of the set, with what replacements added |
| `AgentWallets` | `AgentWalletFactory.wallets` | create, deposit, spend, freeze, unfreeze, close, set limit, reset, restrict | at most twice the limit in any stretch as long as a window, if the window's end is a height |
| `Budgets` | `BudgetManager.delegations` | create, spend, pause, resume, revoke, increase, check expiry | never above the total, after the expiry or after a revocation |
| `CreditBilling` | `CreditBillingEngine` | charge, enable, disable | totals are those of the records; at most twice the rate limit in a stretch as long as a window |
| `Incentives` | `IncentiveManager.programs` | create, reward, pause, resume, expire | rewards within the budget, up to the expiry |
| `AgentTokens` | `AgentTokenFactory`, `BondingCurve` | create, buy, sell | the reserve is the integral of a linear price but for one rounding per trade; on a quadratic curve, what the code asks for the supply |
| `AgentRecords` | `AgentRegistry`, `ReputationSystem` | register, update, capabilities, jobs; events, slash, bonus, decay | index and entries agree; a score stays within what its events and decays explain |
| `Subnets` | `SubnetRegistry` | defaults, register, join, leave, score, weight, status | a provider's index lists the subnets it is in |
| `Subnets` | `PriceOracle`, `ProviderQualityOracle` | submit, authorize, revoke | a price moves by its bound; a score is the mean of its reports |
| `PeerTable` | `P2PNetwork`: peers, bans | connect, disconnect, ban, height | nobody is connected who was banned since |

An id that the code hashes is what it is a hash of. Where that takes in a sequence number, an
object is its place in a list (`CrossChain`, `SettlementFallback`, the credit bridge); where it does not
(`Deposits`, `Withdrawals`, `Governor`), the same request at the same height meets its predecessor and
replaces it, whatever became of it. A manager's properties therefore speak of what a
replacement drops (`replacedIsa`, `replacedCredits`) and do not deny it. Variables under
"History" are read by no guard except the bounds of the exploration.

### Widths

Amounts are u128, and a release build wraps where nothing checks. A module that keeps a width has a
constant for it (`AmountModulus`, `FeeModulus`, ...), which a configuration makes small so that sums and
products leave it. Kept are:

- balances and costs of the ledger, which wrap (`Chain`); balances of channels, which wrap, and totals of
  batches, which saturate;
- credits and their totals, which wrap, but for the price's product, which saturates (`Credits`);
- the supply, whose additions are checked; the sum of the allocations of a configuration, which wraps;
  the product of an allocation and its time, which saturates (`TokenSupply`);
- everything in the treasury, the pools and the emission: rates times amounts
  (`treasury/treasury.rs:59`, `fee_routing.rs:153`), totals times stakes
  (`treasury/treasury.rs:172`, `237`, `emission/controller.rs:211`), the sums of recipients, stakes and
  weights, and the totals, which all wrap (`Fees`);
- the total power of the validator set, a plain sum and difference that wrap (`Delegations`);
- the product of a slash in a subnet, which saturates (`SubnetStaking`); a budget's total, which
  saturates (`Budgets`); points of a score, an unsigned number read as a signed one (`AgentRecords`);
- the end of a wallet's window and of a ban, sums in u64 of what callers chose, which wrap
  (`AgentWallets`, `PeerTable`).

Taken to fit, although nothing checks it: the totals of stakes in the vault and in subnets, an account's
delegations and their sum, what is put into one agent's wallet, locked amounts and weights of votes, the
products of prices and tokens on a bonding curve (`agent_token/curve.rs`, whose quadratic case saturates
where the model is exact), the totals of the compute market and of rewards, and heights plus a configured
or constant number of blocks. The product of a deposit and a price that exceeds u128 is left out
(`Deposits`).

Two inputs are left out. The cross-chain fee is assumed to be at most the amount, since the constructor
takes any rate (`cross_chain/bridge.rs:53`). `get_twap` is asked for existing lengths of at least one:
with 0 it divides by zero and panics (`oracle/oracle.rs:227`).

### The part device

The managers share nothing but the height. `part` picks one of them at the start of a behavior,
and only that one moves. Every behavior of all managers together, restricted to the variables of
one, is (up to stuttering and the clock) a behavior in which that one was picked, so that
an invariant that speaks of one manager at a time holds of all together if it holds here. The
product of their states, which is out of reach, would show nothing else. Managers that do not
ask for the height (`Timeless`) run without a clock.

### Runs

| Run | What it shows |
|---|---|
| `managers` | Every order of calls and heights, of each manager: what is held is accounted for, limits and votes bind, records agree with what happened. |
| `managers_curve` | Violation: on a quadratic curve tokens are bought for nothing, and the reserve falls behind the integral of the price that it is documented to track. |

`managers` checks all of them, with eight properties, each of which joins what the modules promise:
`ManagersTypeOK`, `CustodyAccounted`, `SettlementAccounted`, `GovernanceAccounted`,
`EconomyAccounted`, `SpendingWithinLimits`, `RecordsAgree` and `EscrowsKept`. The last says that
deposits and withdrawals implement `Escrow`, under the refinement mapping in their modules: what
an unfinished request holds is `held`, the totals are `paid` and `returned`.

Bounds (`MCManagers`): two users or agents, one or two objects, amounts from 0 to 5, heights 0 to 2.
Each is chosen for a case: the same deposit twice at a height and once at another one; requests
below a minimum and two that fill a limit together; a window against duplicates of one event, so that a
late one comes through; a vote at the last height, a tally on too little stake, two tallies; a lock that is
extended after it began to decay, and after its end; a schedule whose cliff is its end; weights and stakes
of 0; a split that leaves a rest; a slash above its cap; day, month and period
windows of different lengths, one of them empty and one whose end wraps; an expired budget that is paused; a trade that
rounds; a score at either bound; a peer table of one place and a ban past the last timestamp. Additions
at a modulus of 8, 16 or 32 wrap: sums of fees and of stakes, products of a stake and a reward that wrap
after both reductions, a sum of stakes and one of weights that wraps, an allocation whose product
saturates. The calls per behavior are bounded (`MaxDepositCalls`, `MaxTrades`,
`MaxEvents` and the like), since records only grow. The managers may stop when the
bounds are used up, nothing in the code acts by itself (`check_expired`, `expire_deferred`,
`process_unbonding` run when called), so deadlock is not checked and no liveness is claimed.

### Proofs

The theorems are in `ManagersProofs`; the lemmas about each manager's calls are in `CustodyProofs`
(custody and spending), `EconomyProofs` (economy and governance) and `ManagersProofs` (settlement,
records, peers). Each group of managers has one lemma that takes its part out of a
step of all managers (`CustodySteps`, `EconomySteps` and so on), so that the proof about one
does not depend on what the others do.

`EscrowsImplemented` proves `ManagersSpec => EscrowsKept` for any users, amounts,
prices, fees and heights. The inductive invariant is `EscrowInv`: the height is a
number and both managers' records have their types, without which a write to a record leaves
something that is none. In `CustodyProofs`, `DepositStep` and `WithdrawalStep` are what all calls have in
common, and `StepKeepsDepositEscrow` and `StepKeepsWithdrawalEscrow` map each of their cases to a step of
the escrow. Completing a request of amount 0, which the constants allow, is a stutter.

`CustodyIsAccounted`, from `CustodyInv`: `CreditsInv` has the books modulo 2^128, which an
overflow leaves right up to multiples of the modulus (`WrapPlus`); `CreditBridgeInv` and `BridgeInv`
have totals that are sums over lists, of which one entry changes at a time; `WithdrawalsInv` has
the limit, and that a request that was made is in its user's list (`RequestsListed`): the code counts a
request as often as it is listed, hence never less than it holds.

`SettlementIsAccounted`, from `SettlementInv`. `PipelineInv` says that a settlement's batch is below
`batchesCreated`, so that a new batch's settlements are no old ones, and that a proof is of a
settlement that is there. `WindowInv` says that the window is the end of what was taken in (`EndOf`):
`WindowMovesOn` keeps this when the oldest id is dropped, and `LastOnesInWindow` finds in the window
each id taken in no longer ago than its size (`DuplicatesAreLate` states this part by itself, for any
window). `FallbackInv` says that an expired charge stays past its deadline and is
therefore never resolved; `BalanceSyncInv` says which pass was the latest that differed on an account.

`GovernanceIsAccounted`. `GovernorInv` says that what was tallied is what was voted, also after the
tally, because nobody votes after the end of the voting, before which no tally is made. `VoteEscrowInv` says that
the total is what each lock was worth when last touched, and what had decayed by the time an extension took
it off the total (`decayed`), and `PowerDecays` that a lock is never worth more later.

`EconomyIsAccounted`, from `EconomyInv`, with all heights up to `MaxNow`. `SupplyInv`: what has
vested is part of a schedule and never becomes less (`VestedGrows`), and the schedules add up to at most the
supply if their sum fits. `EmissionInv`: one emission per height, whose subnets' amounts are quotients of one
reward; a product that wraps only becomes less, so that they add up to at most the reward
(`SharesWithin`) wherever the sum of weights fits, and a provider's shares to at most the amount wherever the sum of stakes
does (`ShareIsPart`). A share is the exact part, rounded down, although the code divides in steps, when the
product left after its two reductions fits. `FeesInv`: the treasury's books modulo their width, and exactly, with the
pools', while no sum of amounts or stakes left it (`BooksAgree`, `PoolMoves`). `SubnetStakingInv`: each stake is
active, unbonding, released or slashed, with sums over the heights at which parts are released.
`AccountsInv` and `ValidatorSetInv`: what comes back, at which height, and the power of replaced records,
modulo the width of powers.

`SpendingIsLimited`, from `SpendingInv`. For wallets, budgets, rates and programs it keeps what was spent at
each height. A window knows what was spent since it began, and what was spent in the stretch of its
length before it began was at most one window's; hence any stretch has at most two windows'
(`WalletKept`, `RateKept`). Two things had to be added: that no window
starts after the current height (`WalletsBegun`, `WindowsBegun`), and the highest limit of
an agent so far, since an owner may lower a limit below what was spent. All this is about windows whose
end is a height; one whose end wraps is over at once, and nothing is said of it.

`RecordsAreTrue`, from `AllRecordsInv`. A score is bounded by sums over its history of gains and of losses;
the index of capabilities lists an agent as often as its registration names the capability, and that of subnets
lists each subnet that an address is in, once. `ReservesTrackCurve` holds because each trade pays the
rounded difference of one potential, so that each one is off by less than 1. On a linear curve the potential
is the integral of the price; on a quadratic one it is what `buy_cost` asks, which `managers_curve` shows not to be
the integral. A price is within its bound
of the one before, and a score is the mean of the reports. `BannedNeverConnected` is the part about peers,
from `PeersInv`: a record must be distinguishable from an empty place for the size of the table to be known.

`ManagersTypeCorrect` collects the types from these invariants; `SupplyBounded` is the only one it needs
besides: the supply, the minted and the burned tokens stay below the modulus.

Assumed of the constants, besides numbers and records that are none: finitely many holders, owners,
voters, subnets, providers, programs and ids of withdrawals where something is summed over them;
budgets of at most `BudgetMax`; an initial quality of at most `MaxQuality` (`subnet/registry.rs:188` sets
5000 of 10 000); and for the emission that the rewards of all heights are numbers (`RewardsTyped`), since the
prover knows nothing of powers and TLC computes them.

Three definitions are written in a form that the prover reads. An address is taken out of a subnet's list by
`Without`, not by `SelectSeq`; `subnetProviders` is a function of pairs; and `AddEvent` names
the old record instead of nesting `@`.

### Where the code may surprise

The models do what the code does, and these are places where a reader may expect something else:

- A delegation or a validator's own stake is recorded without being taken off the balance
  (`account/account.rs:130`, `180`), and what comes back is added to it.
- A tally has no status guard: an executed proposal can be tallied, passed and executed again
  (`governance/governor.rs:164`). `ExecutedByVote` says that this takes a tally each time.
- The window against duplicates forgets events by count, so that a late duplicate is charged again
  (`settlement_bridge/bridge.rs:94`); `DuplicatesOutsideWindow` says that only this can happen.
- An emission adds up the subnets' weights unchecked, as u32 (`emission/controller.rs:91`), although
  a comment has them sum to 10 000 (`:64`): weights that wrap give subnets more than the reward, and
  `EmissionOnSchedule` bounds the others.
- A comment says that the two reductions make the product of a share fit into u128
  (`emission/controller.rs:199`). They need not: 5 * 10^18 over stakes of 10^24 + 1 and 2 * 10^24 wraps, and
  the share is too small. The treasury's products do so at 100 tokens by 100 tokens in wei.
- A wallet's period of `u64::MAX`, for one that is never to end, ends at once: the sum wraps, every
  spending opens it anew, and the limit does not bind (`agent_wallet/factory.rs:172`, `338`).
- A state of a channel whose balances wrap to the deposit is accepted and paid out
  (`channel/manager.rs:123`, `193`, `232`).
- A quadratic curve asks for the integral divided by `SCALE` once more, and for nothing up to the next multiple
  of `SCALE` (`agent_token/curve.rs:61`).
- The peer table keeps who disconnected, and a peer in the table is refused: nobody comes back.

### Not modelled

`compute_subnet.rs` passes its calls on to the market that `ComputeMarket` models and counts what
was settled. `billing/calculator.rs` is arithmetic on prices, without state. `network/message_handler.rs`
answers messages out of the chain, and nothing brings it any. `state.rs` and `storage/inmemory.rs` have
no caller in the node. The Solidity contracts and the Rust token contract
(`contracts/rust/advanced_token`, which belongs to no crate and does not compile) are programs of
their own. The API services and the wallet library are front ends over the RPC without protocol
state, and key storage in the wallet library is a stub. Hashing and signatures are taken as
injective and unforgeable throughout.
