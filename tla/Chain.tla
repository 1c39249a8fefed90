------------------------------- MODULE Chain -------------------------------
(***************************************************************************)
(* The ledger of an isA_Chain node: the in-memory Blockchain (head,        *)
(* blocks, accounts), its Mempool, the RocksDB storage behind it, the      *)
(* BlockProducer task and the two RPC handlers that write (transaction     *)
(* submission and the faucet).                                             *)
(*                                                                         *)
(* One tokio RwLock guards the Blockchain, so at most one operation is in  *)
(* progress: phase says which one, and every other operation waits for     *)
(* phase = "idle".  An operation that only touches memory is one action.   *)
(* One that writes to RocksDB is one action per key written, because the   *)
(* process can die between two puts and only the puts survive.  The loop   *)
(* that executes a block is one action per transaction.                    *)
(***************************************************************************)
EXTENDS Integers, FiniteSets, Functions

CONSTANTS
  Address,          \* account addresses
  Zero,             \* Address::ZERO, which collects settlement fees
  Faucet,           \* the testnet faucet, address 0xFA..FA
  Transactions,     \* the signed transactions that clients may submit
  NoAccount,        \* a missing entry of an account map
  NoBlock,          \* no block in progress
  StorageModes,     \* TRUE for a node with RocksDB (PERSIST=true), FALSE for one without
  ProduceEmpty,     \* PRODUCE_EMPTY_BLOCKS
  GenesisAccounts,  \* addresses with an immediate genesis allocation
  InitialSupply,    \* what a genesis account, or the refilled faucet, holds
  MinStake,         \* VALIDATOR_MIN_STAKE
  MaxMempool,       \* Mempool::max_size
  MaxTxs,           \* max_txs_per_block
  AmountModulus,    \* amounts are u128: 2^128
  DripAmounts       \* amounts a faucet request asks for

\* Bounds of the exploration, which the code does not have.
CONSTANTS
  MaxBlocks,        \* blocks built after genesis
  MaxDrips,         \* faucet requests
  MaxRestarts,      \* crashes of the node process
  MaxIOErrors       \* RocksDB puts that fail

Amount == 0 .. AmountModulus - 1
Account == [balance : Amount, nonce : Nat]

TransferKind == "Transfer"
\* Kinds whose execution changes no balance.
NonceOnly == {"CreditSpend", "AgentWalletSpend", "Other"}
Kinds == {TransferKind, "Stake", "Unstake", "CreditPurchase", "Settlement"} \cup NonceOnly

\* A transaction is its own hash; the code takes the hash that the client computed, so one
\* that is sent under two hashes is two transactions here as there.  amount is the
\* transferred, staked or gross amount, charge the fee_amount of a settlement, to the
\* recipient or provider.
Transaction ==
  [from : Address, nonce : Nat, kind : Kinds, user : Address, to : Address,
   amount : Amount, charge : Amount, gasLimit : Nat, gasPrice : Nat]

\* A block's id stands for its hash; -1 is Hash::ZERO, the parent of genesis.
Block == [id : Nat, height : Nat, parent : Nat \cup {-1}, txs : SUBSET Transactions]
Heights == 0 .. MaxBlocks

ASSUME AddressAssumption ==
  /\ Zero \in Address
  /\ Faucet \in Address
  /\ GenesisAccounts \subseteq Address
  /\ IsFiniteSet(Address)

ASSUME TransactionAssumption ==
  /\ Transactions \subseteq Transaction
  /\ IsFiniteSet(Transactions)
  \* fees are products of two u64
  /\ \A tx \in Transactions : tx.gasLimit * tx.gasPrice \in Amount

ASSUME SentinelAssumption ==
  /\ NoAccount \notin Account
  /\ NoBlock \notin Block

ASSUME ParameterAssumption ==
  /\ StorageModes \subseteq BOOLEAN
  /\ ProduceEmpty \in BOOLEAN
  /\ AmountModulus \in Nat \ {0}
  /\ InitialSupply \in Amount
  /\ DripAmounts \subseteq Amount
  /\ MinStake \in Nat
  /\ MaxMempool \in Nat
  /\ MaxTxs \in Nat
  /\ MaxBlocks \in Nat
  /\ MaxDrips \in Nat
  /\ MaxRestarts \in Nat
  /\ MaxIOErrors \in Nat

----------------------------------------------------------------------------

\* The Blockchain value behind the lock; lost when the process dies.
VARIABLES
  head,       \* id of the head block
  height,     \* its height
  blocks,     \* blocks held in memory
  accounts,   \* in-memory account map
  mempool     \* pending transactions

\* The operation in progress under the write lock, and the producer task.
VARIABLES
  phase,      \* what the holder of the lock does next; "idle" when nobody holds it
  current,    \* the block being executed or stored
  todo,       \* transactions of that block not executed yet
  unsaved,    \* accounts still to be put by the operation in progress
  producer    \* "tick" between two ticks, "observed" after the read section

\* RocksDB; survives the process.
VARIABLES
  persist,    \* whether the node has storage; never changes
  dbBlocks,   \* column family of blocks by hash
  dbIndex,    \* column family of block hashes by height, -1 where missing
  dbLatest,   \* latest height, -1 when the key is missing
  dbAccounts  \* column family of accounts

\* History and bounds, not part of the program.
VARIABLES
  nextId,     \* id of the next block built
  acked,      \* blocks whose produce_block returned Ok
  issued,     \* tokens that entered memory since the node started: allocations, refills
  dropped,    \* transactions executed since then in blocks that were given up
  burned,     \* tokens that stakes, unstakes and credit purchases removed since then
  drips,
  restarts,   \* times the process ended: crashes, and starts that failed
  ioErrors

memory == <<head, height, blocks, accounts, mempool>>
lock == <<phase, current, todo, unsaved>>
db == <<persist, dbBlocks, dbIndex, dbLatest, dbAccounts>>
counters == <<drips, restarts, ioErrors>>
vars == <<memory, lock, producer, db, nextId, acked, issued, burned, dropped, counters>>

Phases == {"down", "idle", "execute", "put_block", "put_index", "put_latest",
           "put_faucet", "put_accounts"}

----------------------------------------------------------------------------
(* Accounts *)

\* u128 arithmetic of a release build: one addition or subtraction wraps.
Wrap(n) == IF n < 0 THEN n + AmountModulus
           ELSE IF n >= AmountModulus THEN n - AmountModulus ELSE n

NewExternal(amount) == [balance |-> amount, nonce |-> 0]

NoAccounts == [a \in Address |-> NoAccount]

\* Mutant: crediting an existing account replaces it, nonce included.
CreditReplaces(accts, a, amount) ==
  [accts EXCEPT ![a] = NewExternal(IF accts[a] = NoAccount THEN amount
                                   ELSE Wrap(accts[a].balance + amount))]

\* entry(a).and_modify(+= amount).or_insert_with(new_external(amount))
Credit(accts, a, amount) ==
  [accts EXCEPT ![a] =
     IF accts[a] = NoAccount THEN NewExternal(amount)
     ELSE [balance |-> Wrap(accts[a].balance + amount), nonce |-> accts[a].nonce]]

\* Mutant: the debit forgets the nonce.
DebitKeepsNonce(accts, a, amount) ==
  IF accts[a] = NoAccount THEN accts
  ELSE [accts EXCEPT ![a].balance = Wrap(@ - amount)]

\* entry(a).and_modify(balance -= amount, nonce += 1): nothing when a is missing
Debit(accts, a, amount) ==
  IF accts[a] = NoAccount THEN accts
  ELSE [accts EXCEPT ![a] = [balance |-> Wrap(accts[a].balance - amount),
                             nonce |-> accts[a].nonce + 1]]

\* A cache miss reads the balance from storage, but not the nonce.
Balance(a) ==
  IF accounts[a] # NoAccount THEN accounts[a].balance
  ELSE IF dbAccounts[a] # NoAccount THEN dbAccounts[a].balance ELSE 0

Nonce(a) == IF accounts[a] # NoAccount THEN accounts[a].nonce ELSE 0

Loaded == {a \in Address : accounts[a] # NoAccount}

----------------------------------------------------------------------------
(* Transactions *)

Fee(tx) == tx.gasLimit * tx.gasPrice
\* Mutant: the amount of a transfer is left out of its cost.
CostOfFeeOnly(tx) == Fee(tx)
\* The u128 sum wraps: a transfer of nearly 2^128 costs next to nothing.
Cost(tx) == IF tx.kind = TransferKind THEN Wrap(tx.amount + Fee(tx)) ELSE Fee(tx)

\* validate_data, for the kinds modelled in full
Valid(tx) ==
  /\ tx.kind = TransferKind => tx.amount > 0
  /\ tx.kind = "Stake" => tx.amount >= MinStake

\* What both submit_transaction and build_block require of the current state.
Includable(tx) == tx.nonce = Nonce(tx.from) /\ Balance(tx.from) >= Cost(tx)

\* execute_transaction returns InsufficientBalance.  The fee is not charged.
ExecutionFails(tx) ==
  /\ tx.kind \in {TransferKind, "Stake", "CreditPurchase", "Settlement"}
  /\ Balance(tx.from) < tx.amount

\* Mutant: the provider is paid the gross amount.
AfterGrossSettlement(tx) ==
  Credit(Credit(Debit(accounts, tx.user, tx.amount), tx.to, tx.amount), Zero, tx.charge)

AfterSettlement(tx) ==
  LET net == IF tx.amount > tx.charge THEN tx.amount - tx.charge ELSE 0
  IN Credit(Credit(Debit(accounts, tx.user, tx.amount), tx.to, net), Zero, tx.charge)

AfterUnstake(tx) ==
  IF accounts[tx.from] = NoAccount THEN Credit(accounts, tx.from, tx.amount)
  ELSE Debit(accounts, tx.from, tx.amount)

\* The account map after a successful execute_transaction.
AfterExecution(tx) ==
  CASE tx.kind = TransferKind ->
         Credit(Debit(accounts, tx.from, tx.amount), tx.to, tx.amount)
    [] tx.kind \in {"Stake", "CreditPurchase"} -> Debit(accounts, tx.from, tx.amount)
    [] tx.kind = "Unstake" -> AfterUnstake(tx)
    [] tx.kind = "Settlement" -> AfterSettlement(tx)
    [] OTHER -> Debit(accounts, tx.from, 0)

BurnedBy(tx) ==
  IF tx.kind \in {"Stake", "CreditPurchase", "Unstake"} THEN tx.amount ELSE 0

\* The mempool's order: gas price descending, then nonce ascending.
Before(t, u) ==
  \/ t.gasPrice > u.gasPrice
  \/ t.gasPrice = u.gasPrice /\ t.nonce < u.nonce

\* What get_pending_transactions(max) may return: ties are in map order.
IsPending(taken, max) ==
  /\ taken \subseteq mempool
  /\ Cardinality(taken) = IF Cardinality(mempool) < max THEN Cardinality(mempool) ELSE max
  /\ \A t \in taken, u \in mempool \ taken : ~Before(u, t)

----------------------------------------------------------------------------
(* Starting the node *)

Genesis == [id |-> 0, height |-> 0, parent |-> -1, txs |-> {}]

Init ==
  /\ head = -1 /\ height = 0 /\ blocks = {} /\ accounts = NoAccounts /\ mempool = {}
  /\ phase = "down" /\ current = NoBlock /\ todo = {} /\ unsaved = {}
  /\ producer = "tick"
  /\ persist \in StorageModes
  /\ dbBlocks = {} /\ dbIndex = [h \in Heights |-> -1] /\ dbLatest = -1
  /\ dbAccounts = NoAccounts
  /\ nextId = 1 /\ acked = {} /\ issued = 0 /\ burned = 0 /\ dropped = {}
  /\ drips = 0 /\ restarts = 0 /\ ioErrors = 0

\* Blockchain::new: everything in memory, no account.
BootInMemory ==
  /\ phase = "down" /\ ~persist
  /\ phase' = "idle"
  /\ head' = 0 /\ blocks' = {Genesis}
  /\ UNCHANGED <<height, accounts, mempool, current, todo, unsaved, producer, db, nextId,
                 acked, issued, burned, dropped, counters>>

\* new_with_storage on a database without a latest height: the genesis block is
\* put first, then each allocation.
BootFresh ==
  /\ phase = "down" /\ persist /\ dbLatest = -1
  /\ phase' = "put_block"
  /\ head' = 0 /\ blocks' = {Genesis}
  /\ accounts' = [a \in Address |->
                    IF a \in GenesisAccounts THEN NewExternal(InitialSupply) ELSE NoAccount]
  /\ issued' = InitialSupply * Cardinality(GenesisAccounts)
  /\ current' = Genesis
  /\ UNCHANGED <<height, mempool, todo, unsaved, producer, db, nextId, acked, burned, dropped,
                 counters>>

StoredBlock(h) == {b \in dbBlocks : b.id = dbIndex[h]}

\* get_block_by_height finds every block from genesis to the latest height; it
\* reports DataCorruption otherwise and the process exits.
Bootable == \A h \in 0 .. dbLatest : StoredBlock(h) # {}

\* Mutant: the walk over the heights leaves out the latest one.
BootRestoreShort ==
  /\ phase = "down" /\ persist /\ dbLatest >= 0 /\ Bootable
  /\ phase' = "idle"
  /\ height' = dbLatest
  /\ head' = dbIndex[dbLatest]
  /\ blocks' = UNION {StoredBlock(h) : h \in 0 .. dbLatest - 1}
  /\ UNCHANGED <<accounts, mempool, current, todo, unsaved, producer, db, nextId, acked,
                 issued, burned, dropped, counters>>

\* new_with_storage on an existing database: the blocks come back, the accounts
\* and the mempool do not.
BootRestore ==
  /\ phase = "down" /\ persist /\ dbLatest >= 0 /\ Bootable
  /\ phase' = "idle"
  /\ height' = dbLatest
  /\ head' = dbIndex[dbLatest]
  /\ blocks' = UNION {StoredBlock(h) : h \in 0 .. dbLatest}
  /\ UNCHANGED <<accounts, mempool, current, todo, unsaved, producer, db, nextId, acked,
                 issued, burned, dropped, counters>>

\* The process dies; nothing but the database survives.
Crash ==
  /\ phase # "down" /\ restarts < MaxRestarts
  /\ restarts' = restarts + 1
  /\ phase' = "down" /\ current' = NoBlock /\ todo' = {} /\ unsaved' = {}
  /\ producer' = "tick"
  /\ head' = -1 /\ height' = 0 /\ blocks' = {} /\ accounts' = NoAccounts /\ mempool' = {}
  /\ issued' = 0 /\ burned' = 0 /\ dropped' = {}
  /\ UNCHANGED <<db, nextId, acked, drips, ioErrors>>

----------------------------------------------------------------------------
(* RPC: submission and faucet *)

\* The mempool's own checks.
Admitted(tx) ==
  tx \notin mempool /\ Cardinality(mempool) < MaxMempool /\ tx.gasLimit > 0

\* submit_transaction; a rejected transaction changes nothing.
Submit(tx) ==
  /\ phase = "idle"
  /\ Valid(tx) /\ Includable(tx) /\ Admitted(tx)
  /\ mempool' = mempool \cup {tx}
  /\ UNCHANGED <<head, height, blocks, accounts, lock, producer, db, nextId, acked,
                 issued, burned, dropped, counters>>

\* The faucet's entry is loaded from storage, or created full.
FaucetBalance ==
  IF accounts[Faucet] = NoAccount /\ dbAccounts[Faucet] = NoAccount
  THEN InitialSupply ELSE Balance(Faucet)

FaucetNonce ==
  IF accounts[Faucet] = NoAccount /\ dbAccounts[Faucet] # NoAccount
  THEN dbAccounts[Faucet].nonce ELSE Nonce(Faucet)

\* An empty faucet is refilled to the initial supply.
DripFrom(amount) == IF FaucetBalance < amount THEN InitialSupply ELSE FaucetBalance

\* Tokens that were in no account before the drip.
Refill(amount) ==
  DripFrom(amount) - IF accounts[Faucet] = NoAccount THEN 0 ELSE accounts[Faucet].balance

\* faucet_transfer: the faucet's account is put, then the recipient's.  The
\* recipient's entry is not loaded from storage.  A request for the faucet's
\* own address is left out.
FaucetTransfer(to, amount) ==
  /\ phase = "idle" /\ to # Faucet /\ drips < MaxDrips
  /\ drips' = drips + 1
  /\ accounts' =
       Credit([accounts EXCEPT ![Faucet] = [balance |-> Wrap(DripFrom(amount) - amount),
                                            nonce |-> FaucetNonce]], to, amount)
  /\ issued' = issued + Refill(amount)
  /\ IF persist
     THEN phase' = "put_faucet" /\ unsaved' = {to}
     ELSE UNCHANGED <<phase, unsaved>>
  /\ UNCHANGED <<head, height, blocks, mempool, current, todo, producer, db, nextId, acked,
                 burned, dropped, restarts, ioErrors>>

----------------------------------------------------------------------------
(* The block producer *)

\* A tick with nothing to do, or past the bound on blocks.
SkipTick ==
  /\ producer = "tick" /\ phase = "idle"
  /\ (mempool = {} /\ ~ProduceEmpty) \/ nextId > MaxBlocks
  /\ UNCHANGED vars

\* Mutant: a single pending transaction does not count.
ObserveTwo ==
  /\ producer = "tick" /\ phase = "idle"
  /\ Cardinality(mempool) > 1 \/ ProduceEmpty
  /\ nextId <= MaxBlocks
  /\ producer' = "observed"
  /\ UNCHANGED <<memory, lock, db, nextId, acked, issued, burned, dropped, counters>>

\* The read section of a tick, before the proposer is asked for.
Observe ==
  /\ producer = "tick" /\ phase = "idle"
  /\ mempool # {} \/ ProduceEmpty
  /\ nextId <= MaxBlocks
  /\ producer' = "observed"
  /\ UNCHANGED <<memory, lock, db, nextId, acked, issued, burned, dropped, counters>>

\* The write section: build_block checks every pending transaction against the
\* same state, and produce_block removes the chosen ones from the mempool before
\* add_block executes them.
BuildBlock(taken) ==
  /\ producer = "observed" /\ phase = "idle" /\ nextId <= MaxBlocks
  /\ IsPending(taken, MaxTxs)
  /\ LET txs == {tx \in taken : Includable(tx)}
     IN /\ current' = [id |-> nextId, height |-> height + 1, parent |-> head, txs |-> txs]
        /\ mempool' = mempool \ txs
        /\ todo' = txs
  /\ nextId' = nextId + 1
  /\ phase' = "execute"
  /\ UNCHANGED <<head, height, blocks, accounts, unsaved, producer, db, acked, issued,
                 burned, dropped, counters>>

\* One iteration of add_block's loop, in the block's order.
Execute(tx) ==
  /\ phase = "execute" /\ tx \in todo
  /\ \A u \in todo : ~Before(u, tx)
  /\ ~ExecutionFails(tx)
  /\ accounts' = AfterExecution(tx)
  /\ burned' = burned + BurnedBy(tx)
  /\ todo' = todo \ {tx}
  /\ UNCHANGED <<head, height, blocks, mempool, phase, current, unsaved, producer, db,
                 nextId, acked, issued, dropped, counters>>

\* add_block returns the error of a transaction: what the block's earlier
\* transactions did stays, the block is dropped.
Abort(tx) ==
  /\ phase = "execute" /\ tx \in todo
  /\ \A u \in todo : ~Before(u, tx)
  /\ ExecutionFails(tx)
  /\ phase' = "idle" /\ current' = NoBlock /\ todo' = {}
  /\ producer' = "tick"
  /\ dropped' = dropped \cup (current.txs \ todo)
  /\ UNCHANGED <<memory, unsaved, db, nextId, acked, issued, burned, counters>>

\* The block becomes the head; without storage produce_block is done.
Append ==
  /\ phase = "execute" /\ todo = {}
  /\ blocks' = blocks \cup {current}
  /\ head' = current.id
  /\ height' = height + 1
  /\ IF persist
     THEN phase' = "put_block" /\ UNCHANGED <<current, producer, acked>>
     ELSE /\ phase' = "idle" /\ current' = NoBlock /\ producer' = "tick"
          /\ acked' = acked \cup {current}
  /\ UNCHANGED <<accounts, mempool, todo, unsaved, db, nextId, issued, burned, dropped, counters>>

----------------------------------------------------------------------------
(* Storage: one action per put *)

\* Mutant: the latest height is written with the block, before the index.
PutBlockAndLatest ==
  /\ phase = "put_block"
  /\ dbBlocks' = dbBlocks \cup {current}
  /\ dbLatest' = current.height
  /\ phase' = "put_index"
  /\ UNCHANGED <<memory, current, todo, unsaved, producer, persist, dbIndex, dbAccounts,
                 nextId, acked, issued, burned, dropped, counters>>

PutBlock ==
  /\ phase = "put_block"
  /\ dbBlocks' = dbBlocks \cup {current}
  /\ phase' = "put_index"
  /\ UNCHANGED <<memory, current, todo, unsaved, producer, persist, dbIndex, dbLatest,
                 dbAccounts,
                 nextId, acked, issued, burned, dropped, counters>>

PutIndex ==
  /\ phase = "put_index"
  /\ dbIndex' = [dbIndex EXCEPT ![current.height] = current.id]
  /\ phase' = "put_latest"
  /\ UNCHANGED <<memory, current, todo, unsaved, producer, persist, dbBlocks, dbLatest,
                 dbAccounts, nextId, acked, issued, burned, dropped, counters>>

\* Mutant: the latest height is written one too high.
PutLatestNext ==
  /\ phase = "put_latest"
  /\ dbLatest' = current.height + 1
  /\ phase' = "put_accounts"
  /\ unsaved' = Loaded
  /\ UNCHANGED <<memory, current, todo, producer, persist, dbBlocks, dbIndex, dbAccounts,
                 nextId, acked, issued, burned, dropped, counters>>

\* Mutant: the latest height is only moved when it is more than one behind.
PutLatestLate ==
  /\ phase = "put_latest"
  /\ dbLatest' = IF current.height > dbLatest + 1 \/ dbLatest = -1 THEN current.height
                 ELSE dbLatest
  /\ phase' = "put_accounts"
  /\ unsaved' = Loaded
  /\ UNCHANGED <<memory, current, todo, producer, persist, dbBlocks, dbIndex, dbAccounts,
                 nextId, acked, issued, burned, dropped, counters>>

\* Mutant: only the senders' accounts count as dirty.
PutLatestSenders ==
  /\ phase = "put_latest"
  /\ dbLatest' = IF current.height > dbLatest THEN current.height ELSE dbLatest
  /\ phase' = "put_accounts"
  /\ unsaved' = Loaded \cap {tx.from : tx \in current.txs}
  /\ UNCHANGED <<memory, current, todo, producer, persist, dbBlocks, dbIndex, dbAccounts,
                 nextId, acked, issued, burned, dropped, counters>>

\* The latest height only grows; every account in memory is put next.
PutLatest ==
  /\ phase = "put_latest"
  /\ dbLatest' = IF current.height > dbLatest THEN current.height ELSE dbLatest
  /\ phase' = "put_accounts"
  /\ unsaved' = Loaded
  /\ UNCHANGED <<memory, current, todo, producer, persist, dbBlocks, dbIndex, dbAccounts,
                 nextId, acked, issued, burned, dropped, counters>>

PutFaucet ==
  /\ phase = "put_faucet"
  /\ dbAccounts' = [dbAccounts EXCEPT ![Faucet] = accounts[Faucet]]
  /\ phase' = "put_accounts"
  /\ UNCHANGED <<memory, current, todo, unsaved, producer, persist, dbBlocks, dbIndex, dbLatest,
                 nextId, acked, issued, burned, dropped, counters>>

PutAccount(a) ==
  /\ phase = "put_accounts" /\ a \in unsaved
  /\ dbAccounts' = [dbAccounts EXCEPT ![a] = accounts[a]]
  /\ unsaved' = unsaved \ {a}
  /\ UNCHANGED <<memory, phase, current, todo, producer, persist, dbBlocks, dbIndex, dbLatest,
                 nextId, acked, issued, burned, dropped, counters>>

\* The operation returns Ok: of a block, when there is one.
Finish ==
  /\ phase = "put_accounts" /\ unsaved = {}
  /\ phase' = "idle"
  /\ IF current = NoBlock THEN UNCHANGED <<current, producer, acked>>
     ELSE /\ current' = NoBlock
          /\ producer' = "tick"
          /\ acked' = acked \cup {current}
  /\ UNCHANGED <<memory, todo, unsaved, db, nextId, issued, burned, dropped, counters>>

\* A put fails while the node starts: the process exits.
BootPutFails ==
  /\ current = Genesis
  /\ phase = "put_accounts" => unsaved # {}
  /\ ioErrors < MaxIOErrors
  /\ ioErrors' = ioErrors + 1 /\ restarts' = restarts + 1
  /\ phase' = "down" /\ current' = NoBlock /\ unsaved' = {}
  /\ head' = -1 /\ height' = 0 /\ blocks' = {} /\ accounts' = NoAccounts
  /\ issued' = 0 /\ burned' = 0 /\ dropped' = {}
  /\ UNCHANGED <<mempool, todo, producer, db, nextId, acked, drips>>

\* A put fails in add_block: the error is returned and the later puts are not
\* tried, but the block stays the head in memory.
BlockPutFails ==
  /\ current \notin {NoBlock, Genesis}
  /\ \/ phase \in {"put_block", "put_index", "put_latest"}
     \/ phase = "put_accounts" /\ unsaved # {}
  /\ ioErrors < MaxIOErrors
  /\ ioErrors' = ioErrors + 1
  /\ phase' = "idle" /\ current' = NoBlock /\ unsaved' = {} /\ producer' = "tick"
  /\ UNCHANGED <<memory, todo, db, nextId, acked, issued, burned, dropped, drips, restarts>>

\* A put fails in faucet_transfer, which ignores the error.
FaucetPutFails ==
  /\ current = NoBlock /\ ioErrors < MaxIOErrors
  /\ ioErrors' = ioErrors + 1
  /\ \/ phase = "put_faucet" /\ phase' = "put_accounts" /\ UNCHANGED unsaved
     \/ phase = "put_accounts" /\ unsaved # {} /\ unsaved' = {} /\ UNCHANGED phase
  /\ UNCHANGED <<memory, current, todo, producer, db, nextId, acked, issued, burned, dropped, drips,
                 restarts>>

----------------------------------------------------------------------------

\* What the holder of the write lock does; also the last steps of a start.
Holder ==
  \/ \E tx \in todo : Execute(tx) \/ Abort(tx)
  \/ Append
  \/ PutBlock \/ PutIndex \/ PutLatest \/ PutFaucet
  \/ \E a \in unsaved : PutAccount(a)
  \/ Finish

Boot == BootInMemory \/ BootFresh \/ BootRestore

Produce == \E taken \in SUBSET mempool : BuildBlock(taken)

PutFails == BootPutFails \/ BlockPutFails \/ FaucetPutFails

Next ==
  \/ Boot \/ Crash
  \/ \E tx \in Transactions : Submit(tx)
  \/ \E to \in Address, amount \in DripAmounts : FaucetTransfer(to, amount)
  \/ SkipTick \/ Observe \/ Produce
  \/ Holder
  \/ PutFails

Spec == Init /\ [][Next]_vars

\* The interval keeps ticking, the runtime keeps running the task that holds the
\* lock, and tokio's RwLock queues its waiters first in, first out, so that the
\* producer's turn comes however many RPC writes arrive.
FairSpec ==
  /\ Spec
  /\ WF_vars(Holder)
  /\ SF_vars(Observe)
  /\ SF_vars(Produce)

----------------------------------------------------------------------------
(* Properties *)

\* Types of the node's memory, of the operation in progress and of the database.
TypeOK ==
  /\ head \in Nat \cup {-1} /\ height \in Nat
  /\ blocks \subseteq Block /\ dbBlocks \subseteq Block /\ acked \subseteq Block
  /\ accounts \in [Address -> Account \cup {NoAccount}]
  /\ dbAccounts \in [Address -> Account \cup {NoAccount}]
  /\ mempool \subseteq Transactions /\ todo \subseteq Transactions
  /\ phase \in Phases
  /\ current \in Block \cup {NoBlock}
  /\ unsaved \subseteq Address
  /\ producer \in {"tick", "observed"} /\ persist \in BOOLEAN
  /\ dbIndex \in [Heights -> Nat \cup {-1}]
  /\ dbLatest \in Heights \cup {-1}
  /\ nextId \in Nat /\ issued \in Int /\ burned \in Nat /\ dropped \subseteq Transactions
  /\ drips \in Nat /\ restarts \in Nat /\ ioErrors \in Nat

\* A transaction is in at most one block of the chain: the nonce check at
\* submission and at block building (execution.rs:156, 193), together with the
\* increment at execution, keeps a mined transaction from being mined again.
NoReplay ==
  \A b1, b2 \in blocks : b1 # b2 => b1.txs \cap b2.txs = {}

\* The transactions of the chain, those executed for the block being added, and those of
\* blocks that were given up half-way.
Executed ==
  {tx \in Transactions :
     \/ \E b \in blocks : tx \in b.txs
     \/ tx \in dropped
     \/ phase = "execute" /\ tx \in current.txs \ todo}

\* An account's nonce is the number of its transactions on the chain, or executed in
\* the block being added or in one given up half-way: no execution is lost, and none
\* happens outside a block (execution.rs:52).
NonceCountsExecutions ==
  \A a \in Loaded : accounts[a].nonce = Cardinality({tx \in Executed : tx.from = a})

\* What an account of a map holds, and what they hold together.
Held(accts, a) == IF accts[a] = NoAccount THEN 0 ELSE accts[a].balance
Total(accts) == SumFunction([a \in Address |-> Held(accts, a)])

\* Within one life of the node no token appears or disappears: what the accounts
\* hold is what was issued minus what stakes, unstakes and credit purchases took,
\* at every point of a block's execution (execution.rs:52, chain.rs:221).  An unstake
\* above its sender's balance would wrap it and break this.
SupplyConserved == phase # "down" => Total(accounts) + burned = issued

\* A transfer that is its sender's only transaction in the block executes: checking it
\* against the state before the block is enough, whatever the other senders'
\* transactions do (execution.rs:191), unless amount and fee together leave their width and
\* the checks compare what is left of them (execution.rs:167, 197).
SoleTransferExecutes ==
  phase = "execute" =>
    \A tx \in todo :
      /\ tx.kind = TransferKind /\ tx.amount + Fee(tx) < AmountModulus
      /\ \A u \in current.txs : u.from = tx.from => u = tx
      => ~ExecutionFails(tx)

\* Every transaction build_block selected executes, its balance check having made sure
\* that the sender can pay (execution.rs:191).
BuiltBlockExecutes == phase = "execute" => \A tx \in todo : ~ExecutionFails(tx)

\* From the head, parent links lead through every height down to genesis, and
\* memory holds no other block (execution.rs:11).
ChainLinked ==
  phase # "down" =>
    /\ \E b \in blocks : b.id = head /\ b.height = height
    /\ \A b \in blocks :
         IF b.height = 0 THEN b = Genesis
         ELSE \E p \in blocks : p.id = b.parent /\ p.height = b.height - 1
    /\ Cardinality(blocks) = height + 1

\* Whenever the process dies, the database it leaves can be opened again: every
\* height up to the latest has its block (rocks.rs:52, chain.rs:89).
RestartFindsChain == phase = "down" => Bootable

\* A block whose production was reported successful stays on the stored chain, in
\* its place, through every later crash (rocks.rs:52).
AckedBlocksDurable ==
  persist => \A b \in acked :
    b.height <= dbLatest /\ dbIndex[b.height] = b.id /\ b \in dbBlocks

\* A crash costs at most the block being written: the stored height is the height
\* of the head, or one less while that block is put (execution.rs:33).
CrashLosesAtMostOneBlock ==
  persist /\ phase # "down" =>
    \/ dbLatest = height
    \/ phase \in {"put_block", "put_index", "put_latest"} /\ dbLatest = height - 1

\* When produce_block reports success, every account in memory is stored as it
\* stands (execution.rs:36).
AckIsSaved ==
  acked' # acked /\ persist =>
    \A a \in Address : accounts'[a] # NoAccount => dbAccounts'[a] = accounts'[a]
AckedMeansSaved == [][AckIsSaved]_vars

\* The transactions that get_pending_transactions may put before tx leave room for it.
InReach(tx) == Cardinality({u \in mempool : ~Before(tx, u)}) <= MaxTxs

\* A pending transaction that could be mined, and is within reach of a block, is mined,
\* or stops being minable, or loses its place to better-paying ones: the producer never
\* leaves it behind (consensus.rs:130).
PendingSettles ==
  \A tx \in Transactions :
    (tx \in mempool /\ Includable(tx) /\ InReach(tx)) ~>
      (tx \notin mempool \/ ~Includable(tx) \/ ~InReach(tx) \/ nextId > MaxBlocks)
=============================================================================
