---------------------------- MODULE ChainProofs ----------------------------
(* Theorems about the ledger of module Chain, for every value of its constants. *)
EXTENDS Chain, Sums

AccountMap == [Address -> Account \cup {NoAccount}]

\* What TypeOK needs to be inductive: heights stay below the id of the next block,
\* which the bound on blocks keeps within the index, and an operation on a block
\* has one.
HeightsBounded ==
  /\ nextId <= MaxBlocks + 1 /\ nextId >= 1
  /\ height < nextId /\ dbLatest < nextId
  /\ current # NoBlock => current.height < nextId
  /\ phase \in {"execute", "put_block", "put_index", "put_latest"} => current # NoBlock
  /\ phase = "execute" => current.height = height + 1

TypeInv == TypeOK /\ HeightsBounded

----------------------------------------------------------------------------
(* Lemmas about the operators on accounts *)

\* One addition or subtraction of amounts, wrapped, is an amount.
LEMMA WrapType ==
  ASSUME NEW x \in Amount, NEW y \in Amount
  PROVE  Wrap(x + y) \in Amount /\ Wrap(x - y) \in Amount
  BY ParameterAssumption DEF Wrap, Amount

\* Crediting keeps an account map an account map.
LEMMA CreditType ==
  ASSUME NEW m \in AccountMap, NEW c \in Address, NEW x \in Amount
  PROVE  Credit(m, c, x) \in AccountMap
  <1>1. CASE m[c] = NoAccount
    BY <1>1 DEF Credit, AccountMap, NewExternal, Account
  <1>2. CASE m[c] # NoAccount
    <2>1. m[c] \in Account
      BY <1>2 DEF AccountMap
    <2>2. m[c].balance \in Amount /\ m[c].nonce \in Nat
      BY <2>1 DEF Account
    <2>3. Wrap(m[c].balance + x) \in Amount
      BY <2>2, WrapType
    <2>4. [balance |-> Wrap(m[c].balance + x), nonce |-> m[c].nonce] \in Account
      BY <2>2, <2>3 DEF Account
    <2> QED BY <1>2, <2>4 DEF Credit, AccountMap
  <1> QED BY <1>1, <1>2

\* So does debiting.
LEMMA DebitType ==
  ASSUME NEW m \in AccountMap, NEW c \in Address, NEW x \in Amount
  PROVE  Debit(m, c, x) \in AccountMap
  <1>1. CASE m[c] = NoAccount
    BY <1>1 DEF Debit
  <1>2. CASE m[c] # NoAccount
    <2>1. m[c] \in Account
      BY <1>2 DEF AccountMap
    <2>2. m[c].balance \in Amount /\ m[c].nonce \in Nat
      BY <2>1 DEF Account
    <2>3. Wrap(m[c].balance - x) \in Amount
      BY <2>2, WrapType
    <2>4. [balance |-> Wrap(m[c].balance - x), nonce |-> m[c].nonce + 1] \in Account
      BY <2>2, <2>3 DEF Account
    <2> QED BY <1>2, <2>4 DEF Debit, AccountMap
  <1> QED BY <1>1, <1>2

\* A transaction has typed fields.
LEMMA TransactionFields ==
  ASSUME NEW tx \in Transactions
  PROVE  /\ tx.from \in Address /\ tx.user \in Address /\ tx.to \in Address
         /\ tx.amount \in Amount /\ tx.charge \in Amount /\ tx.nonce \in Nat
         /\ tx.gasLimit \in Nat /\ tx.gasPrice \in Nat /\ tx.kind \in Kinds
  BY TransactionAssumption DEF Transaction

\* Executing a transaction keeps the account map typed.
LEMMA ExecutionType ==
  ASSUME TypeOK, NEW tx \in Transactions
  PROVE  AfterExecution(tx) \in AccountMap
  <1> USE TransactionFields
  <1>1. accounts \in AccountMap
    BY DEF TypeOK, AccountMap
  <1>2. 0 \in Amount /\ Zero \in Address
    BY ParameterAssumption, AddressAssumption DEF Amount
  <1>3. \A c \in Address, x \in Amount : Debit(accounts, c, x) \in AccountMap
    BY <1>1, DebitType
  <1>4. \A m \in AccountMap, c \in Address, x \in Amount : Credit(m, c, x) \in AccountMap
    BY CreditType
  <1>5. AfterUnstake(tx) \in AccountMap
    BY <1>1, <1>3, <1>4 DEF AfterUnstake
  <1>6. AfterSettlement(tx) \in AccountMap
    <2> DEFINE net == IF tx.amount > tx.charge THEN tx.amount - tx.charge ELSE 0
    <2>1. net \in Amount
      <3>1. tx.amount \in Amount /\ tx.charge \in Amount
        OBVIOUS
      <3> QED BY <3>1, ParameterAssumption DEF Amount
    <2>2. Credit(Debit(accounts, tx.user, tx.amount), tx.to, net) \in AccountMap
      BY <2>1, <1>3, <1>4
    <2> HIDE DEF net
    <2>3. Credit(Credit(Debit(accounts, tx.user, tx.amount), tx.to, net), Zero, tx.charge)
            \in AccountMap
      BY <2>2, <1>2, <1>4
    <2> QED BY <2>3 DEF AfterSettlement, net
  <1>7. Credit(Debit(accounts, tx.from, tx.amount), tx.to, tx.amount) \in AccountMap
    BY <1>3, <1>4
  <1>8. Debit(accounts, tx.from, 0) \in AccountMap
    BY <1>2, <1>3
  <1>9. Debit(accounts, tx.from, tx.amount) \in AccountMap
    BY <1>3
  <1> QED
    BY <1>5, <1>6, <1>7, <1>8, <1>9 DEF AfterExecution, Kinds, NonceOnly, TransferKind

----------------------------------------------------------------------------
(* Type correctness *)

LEMMA TypeInit == Init => TypeInv
  <1>1. \A S : [S -> {-1}] \subseteq [S -> Nat \cup {-1}]
    OBVIOUS
  <1>2. NoAccounts \in AccountMap
    BY DEF NoAccounts, AccountMap
  <1> QED
    BY <1>2, ParameterAssumption, SentinelAssumption
       DEF Init, TypeInv, TypeOK, HeightsBounded, AccountMap, Phases, Heights

\* Genesis is a block, and its height is the first.
LEMMA GenesisType == Genesis \in Block /\ Genesis.height = 0
  BY DEF Genesis, Block

\* Starting, stopping and the operations that only touch memory.
LEMMA TypeNodeStep ==
  ASSUME TypeInv, BootInMemory \/ BootFresh \/ BootRestore \/ Crash
  PROVE  TypeInv'
  <1> USE DEF TypeInv, TypeOK, HeightsBounded, Phases, memory, lock, db, counters
  <1>0. NoAccounts \in AccountMap
    BY DEF NoAccounts, AccountMap
  <1>1. CASE BootInMemory
    BY <1>1, GenesisType DEF BootInMemory
  <1>2. CASE BootFresh
    <2>1. accounts' \in [Address -> Account \cup {NoAccount}]
      BY <1>2, ParameterAssumption DEF BootFresh, NewExternal, Account
    <2>2. issued' \in Int
      <3>1. Cardinality(GenesisAccounts) \in Nat
        BY AddressAssumption, FS_Subset, FS_CardinalityType
      <3> QED BY <1>2, <3>1, ParameterAssumption DEF BootFresh, Amount
    <2> QED BY <1>2, <2>1, <2>2, GenesisType, SentinelAssumption DEF BootFresh
  <1>3. CASE BootRestore
    <2>1. dbLatest \in Heights /\ dbLatest \in Nat
      BY <1>3, ParameterAssumption DEF BootRestore, Heights
    <2>2. head' \in Nat \cup {-1}
      BY <1>3, <2>1 DEF BootRestore
    <2>3. blocks' \subseteq Block
      BY <1>3 DEF BootRestore, StoredBlock
    <2> QED BY <1>3, <2>1, <2>2, <2>3 DEF BootRestore
  <1>4. CASE Crash
    BY <1>0, <1>4 DEF Crash, AccountMap
  <1> QED BY <1>1, <1>2, <1>3, <1>4

LEMMA TypeRpcStep ==
  ASSUME TypeInv,
         \/ \E tx \in Transactions : Submit(tx)
         \/ \E to \in Address, amount \in DripAmounts : FaucetTransfer(to, amount)
  PROVE  TypeInv'
  <1>1. CASE \E tx \in Transactions : Submit(tx)
    BY <1>1 DEF Submit, TypeInv, TypeOK, HeightsBounded, lock, db, counters
  <1>2. ASSUME NEW to \in Address, NEW amount \in DripAmounts, FaucetTransfer(to, amount)
        PROVE  TypeInv'
    <2> USE AddressAssumption
    <2>1. amount \in Amount /\ InitialSupply \in Amount /\ 0 \in Amount
      BY ParameterAssumption DEF Amount
    <2>2. \A c \in Address : /\ accounts[c] # NoAccount => accounts[c] \in Account
                             /\ dbAccounts[c] # NoAccount => dbAccounts[c] \in Account
      BY DEF TypeInv, TypeOK
    <2>3. \A c \in Account : c.balance \in Amount /\ c.nonce \in Nat
      BY DEF Account
    <2>4. FaucetBalance \in Amount
      BY <2>1, <2>2, <2>3 DEF FaucetBalance, Balance
    <2>5. FaucetNonce \in Nat
      BY <2>2, <2>3 DEF FaucetNonce, Nonce
    <2>6. DripFrom(amount) \in Amount
      BY <2>1, <2>4 DEF DripFrom
    <2>7. Wrap(DripFrom(amount) - amount) \in Amount
      BY <2>1, <2>6, WrapType
    <2> DEFINE drained == [accounts EXCEPT ![Faucet] =
                             [balance |-> Wrap(DripFrom(amount) - amount),
                              nonce |-> FaucetNonce]]
    <2>8. drained \in AccountMap
      <3>1. [balance |-> Wrap(DripFrom(amount) - amount), nonce |-> FaucetNonce] \in Account
        BY <2>5, <2>7 DEF Account
      <3> QED BY <3>1 DEF AccountMap, TypeInv, TypeOK
    <2>9. accounts' \in AccountMap
      <3>1. accounts' = Credit(drained, to, amount)
        BY <1>2 DEF FaucetTransfer
      <3> HIDE DEF drained
      <3> QED BY <3>1, <2>1, <2>8, CreditType
    <2>10. Refill(amount) \in Int
      BY <2>2, <2>3, <2>6 DEF Refill, Amount
    <2>11. issued' \in Int
      BY <1>2, <2>10 DEF FaucetTransfer, TypeInv, TypeOK
    <2>12. phase' \in Phases /\ unsaved' \subseteq Address
      BY <1>2 DEF FaucetTransfer, TypeInv, TypeOK, Phases
    <2> HIDE DEF drained
    <2>13. phase' = phase \/ phase' = "put_faucet"
      BY <1>2 DEF FaucetTransfer
    <2>14. /\ drips' = drips + 1
           /\ UNCHANGED <<head, height, blocks, mempool, current, todo, producer, db, nextId,
                          acked, burned, dropped, restarts, ioErrors>>
      BY <1>2 DEF FaucetTransfer
    <2> QED
      BY <2>9, <2>11, <2>12, <2>13, <2>14 DEF TypeInv, TypeOK, HeightsBounded, AccountMap, db
  <1> QED BY <1>1, <1>2

LEMMA TypeProducerStep ==
  ASSUME TypeInv, SkipTick \/ Observe \/ Produce
  PROVE  TypeInv'
  <1> USE DEF TypeInv, TypeOK, HeightsBounded, memory, lock, db, counters
  <1>1. CASE SkipTick
    BY <1>1 DEF SkipTick, vars
  <1>2. CASE Observe
    BY <1>2 DEF Observe
  <1>3. ASSUME NEW taken \in SUBSET mempool, BuildBlock(taken)
        PROVE  TypeInv'
    <2> DEFINE txs == {tx \in taken : Includable(tx)}
    <2>1. txs \subseteq Transactions
      OBVIOUS
    <2>2. current' = [id |-> nextId, height |-> height + 1, parent |-> head, txs |-> txs]
      BY <1>3 DEF BuildBlock
    <2>3. current' \in Block /\ current'.height = height + 1
      <3> HIDE DEF txs
      <3> QED BY <2>1, <2>2 DEF Block
    <2>4. current' # NoBlock
      BY <2>3, SentinelAssumption
    <2>5. todo' \subseteq Transactions /\ mempool' \subseteq Transactions
      BY <1>3, <2>1 DEF BuildBlock
    <2>6. /\ phase' = "execute" /\ nextId' = nextId + 1 /\ nextId <= MaxBlocks
          /\ UNCHANGED <<head, height, blocks, accounts, unsaved, producer, db, acked,
                         issued, burned, dropped, counters>>
      BY <1>3 DEF BuildBlock
    <2> HIDE DEF txs
    <2>7. TypeOK'
      BY <2>3, <2>5, <2>6 DEF Phases
    <2>8. HeightsBounded'
      <3>1. nextId \in Nat /\ height \in Nat /\ dbLatest \in Int /\ MaxBlocks \in Nat
        BY ParameterAssumption DEF Heights
      <3> QED BY <2>3, <2>4, <2>6, <3>1
    <2> QED BY <2>7, <2>8
  <1> QED BY <1>1, <1>2, <1>3 DEF Produce

LEMMA TypeBlockStep ==
  ASSUME TypeInv, (\E tx \in todo : Execute(tx) \/ Abort(tx)) \/ Append
  PROVE  TypeInv'
  <1>1. ASSUME NEW tx \in todo, Execute(tx)
        PROVE  TypeInv'
    <2>1. tx \in Transactions
      BY DEF TypeInv, TypeOK
    <2>2. accounts' \in AccountMap
      BY <1>1, <2>1, ExecutionType DEF Execute, TypeInv
    <2>3. BurnedBy(tx) \in Nat
      BY <2>1, TransactionFields, ParameterAssumption DEF BurnedBy, Amount
    <2> QED
      BY <1>1, <2>2, <2>3
         DEF Execute, TypeInv, TypeOK, HeightsBounded, AccountMap, db, counters
  <1>2. ASSUME NEW tx \in todo, Abort(tx)
        PROVE  TypeInv'
    <2>1. dropped' \subseteq Transactions
      BY <1>2 DEF Abort, TypeInv, TypeOK, HeightsBounded, Block
    <2> QED
      BY <1>2, <2>1 DEF Abort, TypeInv, TypeOK, HeightsBounded, memory, db, counters, Phases
  <1>3. CASE Append
    <2>1. current \in Block /\ current.height = height + 1 /\ current.height < nextId
      BY <1>3 DEF Append, TypeInv, TypeOK, HeightsBounded
    <2>2. current.id \in Nat
      BY <2>1 DEF Block
    <2> QED
      BY <1>3, <2>1, <2>2 DEF Append, TypeInv, TypeOK, HeightsBounded, Phases, db, counters
  <1> QED BY <1>1, <1>2, <1>3

LEMMA TypeStorageStep ==
  ASSUME TypeInv,
         \/ PutBlock \/ PutIndex \/ PutLatest \/ PutFaucet
         \/ \E c \in unsaved : PutAccount(c)
         \/ Finish \/ PutFails
  PROVE  TypeInv'
  <1> USE DEF TypeInv, TypeOK, HeightsBounded, memory, db, counters, Phases
  <1>0. current # NoBlock => current.height \in Heights /\ current.id \in Nat
    BY ParameterAssumption DEF Block, Heights
  <1>1. CASE PutBlock
    BY <1>1 DEF PutBlock
  <1>2. CASE PutIndex
    BY <1>0, <1>2 DEF PutIndex
  <1>3. CASE PutLatest
    BY <1>0, <1>3 DEF PutLatest, Loaded
  <1>4. CASE PutFaucet
    BY <1>4, AddressAssumption DEF PutFaucet
  <1>5. ASSUME NEW c \in unsaved, PutAccount(c)
        PROVE  TypeInv'
    BY <1>5 DEF PutAccount
  <1>6. CASE Finish
    BY <1>6 DEF Finish
  <1>7. CASE BootPutFails
    BY <1>7 DEF BootPutFails, NoAccounts
  <1>8. CASE BlockPutFails
    BY <1>8 DEF BlockPutFails
  <1>9. CASE FaucetPutFails
    BY <1>9 DEF FaucetPutFails
  <1> QED BY <1>1, <1>2, <1>3, <1>4, <1>5, <1>6, <1>7, <1>8, <1>9 DEF PutFails

LEMMA TypeNext == TypeInv /\ [Next]_vars => TypeInv'
  <1> SUFFICES ASSUME TypeInv, [Next]_vars
               PROVE  TypeInv'
    OBVIOUS
  <1>1. CASE Next
    BY <1>1, TypeNodeStep, TypeRpcStep, TypeProducerStep, TypeBlockStep, TypeStorageStep
       DEF Next, Boot, Holder
  <1>2. CASE UNCHANGED vars
    BY <1>2 DEF vars, memory, lock, db, counters, TypeInv, TypeOK, HeightsBounded
  <1> QED BY <1>1, <1>2

LEMMA TypeInvariant == Spec => []TypeInv
  BY TypeInit, TypeNext, PTL DEF Spec

\* Every state of the node is typed, and the stored heights stay in the index
\* (chain.rs:13, rocks.rs:52).
THEOREM TypeCorrect == Spec => []TypeOK
  <1>1. TypeInv => TypeOK
    BY DEF TypeInv
  <1> QED BY <1>1, TypeInvariant, PTL

----------------------------------------------------------------------------
(* No transaction is mined twice *)

\* Every transaction costs its sender something, also when amount and fee wrap.
PositiveCosts == \A tx \in Transactions : Cost(tx) > 0

LEMMA CostType ==
  ASSUME NEW tx \in Transactions
  PROVE  /\ Cost(tx) \in Nat /\ Fee(tx) \in Amount /\ tx.amount \in Amount
         /\ tx.kind = TransferKind /\ tx.amount + Fee(tx) < AmountModulus =>
              tx.amount <= Cost(tx)
  <1>1. Fee(tx) \in Amount /\ tx.amount \in Amount
    BY TransactionFields, TransactionAssumption DEF Fee
  <1>2. Wrap(tx.amount + Fee(tx)) \in Amount
    BY <1>1, WrapType
  <1>3. tx.amount + Fee(tx) < AmountModulus => Wrap(tx.amount + Fee(tx)) = tx.amount + Fee(tx)
    BY <1>1, ParameterAssumption DEF Wrap, Amount
  <1> QED BY <1>1, <1>2, <1>3 DEF Cost, Amount

\* A settlement is signed by the user it charges.
SelfSettled == \A tx \in Transactions : tx.kind = "Settlement" => tx.user = tx.from

\* The process has not ended since its first start; puts may have failed.
FirstLife == restarts = 0

\* The sender's nonce is past that of tx.
Spent(tx) == accounts[tx.from] # NoAccount /\ tx.nonce < accounts[tx.from].nonce

\* In its first life a node is down only before it starts, and no account is stored
\* that is not in memory: a nonce read from memory is the real one.
NoncesInMemory ==
  /\ phase = "down" => dbLatest = -1 /\ dbAccounts = NoAccounts
  /\ \A c \in Address : dbAccounts[c] # NoAccount => accounts[c] # NoAccount

\* What is on the chain, or executed for the next block, is spent.
MinedIsSpent ==
  /\ \A b \in blocks : \A tx \in b.txs : Spent(tx)
  /\ phase = "execute" => \A tx \in current.txs \ todo : Spent(tx)

\* The block being executed holds nothing of the chain, and what it has yet to execute
\* will spend its nonce.
BlockIsNew ==
  phase = "execute" =>
    /\ todo \subseteq current.txs
    /\ \A b \in blocks : b.txs \cap current.txs = {}
    /\ \A tx \in todo : accounts[tx.from] # NoAccount /\ tx.nonce <= accounts[tx.from].nonce

ReplayInv == FirstLife => NoncesInMemory /\ MinedIsSpent /\ BlockIsNew /\ NoReplay

\* n holds every account of m, with a nonce at least as high.
Grows(m, n) ==
  \A c \in Address : m[c] # NoAccount => n[c] # NoAccount /\ m[c].nonce <= n[c].nonce

LEMMA GrowsTransitive ==
  ASSUME NEW m \in AccountMap, NEW n \in AccountMap, NEW p \in AccountMap,
         Grows(m, n), Grows(n, p)
  PROVE  Grows(m, p)
  <1> SUFFICES ASSUME NEW c \in Address, m[c] # NoAccount
               PROVE  p[c] # NoAccount /\ m[c].nonce <= p[c].nonce
    BY DEF Grows
  <1>1. n[c] # NoAccount /\ m[c].nonce <= n[c].nonce
    BY DEF Grows
  <1>2. p[c] # NoAccount /\ n[c].nonce <= p[c].nonce
    BY <1>1 DEF Grows
  <1>3. m[c].nonce \in Nat /\ n[c].nonce \in Nat /\ p[c].nonce \in Nat
    BY <1>1, <1>2 DEF AccountMap, Account
  <1> QED BY <1>1, <1>2, <1>3

LEMMA CreditGrows ==
  ASSUME NEW m \in AccountMap, NEW c \in Address, NEW x \in Amount
  PROVE  Grows(m, Credit(m, c, x))
  <1> SUFFICES ASSUME NEW d \in Address, m[d] # NoAccount
               PROVE  /\ Credit(m, c, x)[d] # NoAccount
                      /\ m[d].nonce <= Credit(m, c, x)[d].nonce
    BY DEF Grows
  <1>1. m[d] \in Account /\ m[d].nonce \in Nat
    BY DEF AccountMap, Account
  <1>2. CASE d = c
    <2>1. Credit(m, c, x)[d] = [balance |-> Wrap(m[d].balance + x), nonce |-> m[d].nonce]
      BY <1>2 DEF Credit, AccountMap
    <2>2. Wrap(m[d].balance + x) \in Amount
      BY <1>1, WrapType DEF Account
    <2>3. Credit(m, c, x)[d] \in Account
      BY <1>1, <2>1, <2>2 DEF Account
    <2> QED BY <1>1, <2>1, <2>3, SentinelAssumption
  <1>3. CASE d # c
    BY <1>1, <1>3 DEF Credit, AccountMap
  <1> QED BY <1>2, <1>3

\* A debit raises the nonce of its account by one and leaves the others.
LEMMA DebitSpends ==
  ASSUME NEW m \in AccountMap, NEW c \in Address, NEW x \in Amount, m[c] # NoAccount
  PROVE  Debit(m, c, x)[c] # NoAccount /\ Debit(m, c, x)[c].nonce = m[c].nonce + 1
  <1>1. m[c] \in Account /\ m[c].nonce \in Nat /\ m[c].balance \in Amount
    BY DEF AccountMap, Account
  <1>2. Debit(m, c, x)[c] = [balance |-> Wrap(m[c].balance - x), nonce |-> m[c].nonce + 1]
    BY DEF Debit, AccountMap
  <1>3. Wrap(m[c].balance - x) \in Amount
    BY <1>1, WrapType
  <1>4. Debit(m, c, x)[c] \in Account
    BY <1>1, <1>2, <1>3 DEF Account
  <1> QED BY <1>2, <1>4, SentinelAssumption

LEMMA DebitGrows ==
  ASSUME NEW m \in AccountMap, NEW c \in Address, NEW x \in Amount
  PROVE  Grows(m, Debit(m, c, x))
  <1> SUFFICES ASSUME NEW d \in Address, m[d] # NoAccount
               PROVE  /\ Debit(m, c, x)[d] # NoAccount
                      /\ m[d].nonce <= Debit(m, c, x)[d].nonce
    BY DEF Grows
  <1>1. m[d].nonce \in Nat
    BY DEF AccountMap, Account
  <1>2. CASE d = c
    BY <1>1, <1>2, DebitSpends
  <1>3. CASE d # c
    BY <1>1, <1>3 DEF Debit, AccountMap
  <1> QED BY <1>2, <1>3

\* Executing a transaction loses no account and lowers no nonce; its sender's nonce
\* grows when the sender has an account.
LEMMA ExecutionSpends ==
  ASSUME TypeOK, SelfSettled, NEW tx \in Transactions, accounts[tx.from] # NoAccount
  PROVE  /\ Grows(accounts, AfterExecution(tx))
         /\ AfterExecution(tx)[tx.from] # NoAccount
         /\ accounts[tx.from].nonce < AfterExecution(tx)[tx.from].nonce
  <1>1. accounts \in AccountMap
    BY DEF TypeOK, AccountMap
  <1>2. /\ tx.from \in Address /\ tx.to \in Address /\ Zero \in Address
        /\ tx.amount \in Amount /\ tx.charge \in Amount /\ 0 \in Amount
    BY TransactionFields, AddressAssumption, ParameterAssumption DEF Amount
  <1>3. ASSUME NEW x \in Amount, NEW n \in AccountMap,
               Grows(Debit(accounts, tx.from, x), n)
        PROVE  /\ Grows(accounts, n)
               /\ n[tx.from] # NoAccount
               /\ accounts[tx.from].nonce < n[tx.from].nonce
    <2> DEFINE m == Debit(accounts, tx.from, x)
    <2>1. m \in AccountMap /\ Grows(accounts, m)
      BY <1>1, <1>2, DebitType, DebitGrows
    <2>2. m[tx.from] # NoAccount /\ m[tx.from].nonce = accounts[tx.from].nonce + 1
      BY <1>1, <1>2, DebitSpends
    <2>3. Grows(m, n)
      BY <1>3
    <2> HIDE DEF m
    <2>4. Grows(accounts, n)
      BY <1>1, <2>1, <2>3, GrowsTransitive
    <2>5. n[tx.from] # NoAccount /\ m[tx.from].nonce <= n[tx.from].nonce
      BY <1>2, <2>2, <2>3 DEF Grows
    <2>6. accounts[tx.from].nonce \in Nat /\ n[tx.from].nonce \in Nat
      BY <1>1, <1>2, <2>5 DEF AccountMap, Account
    <2> QED BY <2>2, <2>4, <2>5, <2>6
  <1>4. \A x \in Amount : /\ Debit(accounts, tx.from, x) \in AccountMap
                          /\ Grows(Debit(accounts, tx.from, x), Debit(accounts, tx.from, x))
    <2> SUFFICES ASSUME NEW x \in Amount
                 PROVE  /\ Debit(accounts, tx.from, x) \in AccountMap
                        /\ Grows(Debit(accounts, tx.from, x), Debit(accounts, tx.from, x))
      OBVIOUS
    <2> DEFINE m == Debit(accounts, tx.from, x)
    <2>1. m \in AccountMap
      BY <1>1, <1>2, DebitType
    <2> HIDE DEF m
    <2>2. Grows(m, m)
      BY <2>1 DEF Grows, AccountMap, Account
    <2> QED BY <2>1, <2>2 DEF m
  <1>5. ASSUME NEW x \in Amount, NEW c \in Address, NEW y \in Amount
        PROVE  LET m == Debit(accounts, tx.from, x)
               IN Credit(m, c, y) \in AccountMap /\ Grows(m, Credit(m, c, y))
    BY <1>4, CreditType, CreditGrows
  <1>6. CASE tx.kind = TransferKind
    <2> DEFINE m == Debit(accounts, tx.from, tx.amount)
               n == Credit(m, tx.to, tx.amount)
    <2>1. AfterExecution(tx) = n
      BY <1>6 DEF AfterExecution, TransferKind, NonceOnly
    <2>2. n \in AccountMap /\ Grows(m, n)
      BY <1>2, <1>5
    <2> HIDE DEF n
    <2>3. /\ Grows(accounts, n)
          /\ n[tx.from] # NoAccount
          /\ accounts[tx.from].nonce < n[tx.from].nonce
      BY <1>2, <1>3, <2>2
    <2> QED BY <2>1, <2>3
  <1>7. CASE tx.kind \in {"Stake", "CreditPurchase"}
    BY <1>2, <1>3, <1>4, <1>7 DEF AfterExecution, TransferKind
  <1>8. CASE tx.kind = "Unstake"
    BY <1>2, <1>3, <1>4, <1>8 DEF AfterExecution, AfterUnstake, TransferKind
  <1>9. CASE tx.kind = "Settlement"
    <2> DEFINE net == IF tx.amount > tx.charge THEN tx.amount - tx.charge ELSE 0
               m == Debit(accounts, tx.from, tx.amount)
               p == Credit(m, tx.to, net)
               n == Credit(p, Zero, tx.charge)
    <2>1. net \in Amount
      BY <1>2, ParameterAssumption DEF Amount
    <2>2. AfterExecution(tx) = n
      <3>1. tx.user = tx.from
        BY <1>9 DEF SelfSettled
      <3> QED BY <1>9, <3>1 DEF AfterExecution, AfterSettlement, TransferKind
    <2>3. m \in AccountMap
      BY <1>2, <1>4
    <2> HIDE DEF net
    <2>4. p \in AccountMap /\ Grows(m, p)
      BY <1>2, <1>5, <2>1
    <2> HIDE DEF m
    <2>5. n \in AccountMap /\ Grows(p, n)
      <3> HIDE DEF p
      <3> QED BY <1>2, <2>4, CreditType, CreditGrows
    <2> HIDE DEF p, n
    <2>6. Grows(m, n)
      BY <2>3, <2>4, <2>5, GrowsTransitive
    <2>7. Grows(Debit(accounts, tx.from, tx.amount), n)
      BY <2>6 DEF m
    <2>8. tx.amount \in Amount /\ n \in AccountMap
      BY <1>2, <2>5
    <2>9. /\ Grows(accounts, n)
          /\ n[tx.from] # NoAccount
          /\ accounts[tx.from].nonce < n[tx.from].nonce
      BY <1>3, <2>7, <2>8
    <2> QED BY <2>2, <2>9
  <1>10. CASE tx.kind \in NonceOnly
    BY <1>2, <1>3, <1>4, <1>10 DEF AfterExecution, NonceOnly, TransferKind
  <1>11. tx.kind \in Kinds
    BY TransactionFields
  <1> QED BY <1>6, <1>7, <1>8, <1>9, <1>10, <1>11 DEF Kinds

\* The faucet keeps its nonce.
LEMMA FaucetGrows ==
  ASSUME TypeInv, NEW to \in Address, NEW amount \in DripAmounts, FaucetTransfer(to, amount)
  PROVE  Grows(accounts, accounts')
  <1> DEFINE entry == [balance |-> Wrap(DripFrom(amount) - amount), nonce |-> FaucetNonce]
             drained == [accounts EXCEPT ![Faucet] = entry]
  <1>1. accounts \in AccountMap /\ amount \in Amount /\ Faucet \in Address
    BY ParameterAssumption, AddressAssumption DEF TypeInv, TypeOK, AccountMap
  <1>2. entry \in Account
    <2>1. accounts[Faucet] # NoAccount =>
            accounts[Faucet].balance \in Amount /\ accounts[Faucet].nonce \in Nat
      BY <1>1 DEF AccountMap, Account
    <2>2. dbAccounts[Faucet] # NoAccount =>
            dbAccounts[Faucet].balance \in Amount /\ dbAccounts[Faucet].nonce \in Nat
      BY <1>1 DEF TypeInv, TypeOK, Account
    <2>3. InitialSupply \in Amount /\ 0 \in Amount
      BY ParameterAssumption DEF Amount
    <2>4. DripFrom(amount) \in Amount
      BY <2>1, <2>2, <2>3 DEF DripFrom, FaucetBalance, Balance
    <2>5. Wrap(DripFrom(amount) - amount) \in Amount
      BY <1>1, <2>4, WrapType
    <2>6. FaucetNonce \in Nat
      BY <2>1, <2>2 DEF FaucetNonce, Nonce
    <2> QED BY <2>5, <2>6 DEF Account
  <1>3. drained \in AccountMap
    <2> HIDE DEF entry
    <2> QED BY <1>1, <1>2 DEF AccountMap
  <1>4. Grows(accounts, drained)
    <2>1. accounts[Faucet] # NoAccount => entry.nonce = accounts[Faucet].nonce
      BY DEF FaucetNonce, Nonce
    <2> HIDE DEF entry
    <2>2. entry # NoAccount
      BY <1>2, SentinelAssumption
    <2>3. \A c \in Address : accounts[c] # NoAccount => accounts[c].nonce \in Nat
      BY <1>1 DEF AccountMap, Account
    <2> QED BY <1>1, <2>1, <2>2, <2>3 DEF Grows, AccountMap
  <1>5. accounts' = Credit(drained, to, amount)
    BY DEF FaucetTransfer
  <1> HIDE DEF drained
  <1>6. accounts' \in AccountMap /\ Grows(drained, accounts')
    BY <1>1, <1>3, <1>5, CreditType, CreditGrows
  <1> QED BY <1>1, <1>3, <1>4, <1>6, GrowsTransitive

\* What is spent stays spent.
LEMMA SpentGrows ==
  ASSUME TypeInv, TypeInv', Grows(accounts, accounts'), NEW tx \in Transactions, Spent(tx)
  PROVE  Spent(tx)'
  <1>1. tx.from \in Address /\ tx.nonce \in Nat
    BY TransactionFields
  <1>2. accounts'[tx.from] # NoAccount /\ accounts[tx.from].nonce <= accounts'[tx.from].nonce
    BY <1>1 DEF Grows, Spent
  <1>3. accounts[tx.from].nonce \in Nat /\ accounts'[tx.from].nonce \in Nat
    BY <1>1, <1>2 DEF TypeInv, TypeOK, Spent, Account
  <1> QED BY <1>1, <1>2, <1>3 DEF Spent

LEMMA MinedTransactions ==
  ASSUME TypeOK
  PROVE  /\ \A b \in blocks : b.txs \subseteq Transactions
         /\ current # NoBlock => current.txs \subseteq Transactions
  BY DEF TypeOK, Block

\* A put that fails without ending the process leaves the memory alone.
LEMMA FailingPutInLife ==
  ASSUME TypeInv, FirstLife, FirstLife', PutFails
  PROVE  /\ phase \in {"put_block", "put_index", "put_latest", "put_faucet", "put_accounts"}
         /\ phase' \in {"idle", "put_accounts"}
         /\ UNCHANGED <<blocks, accounts, dbAccounts, dropped, issued, burned>>
  <1>1. ~BootPutFails
    BY DEF BootPutFails, FirstLife
  <1> QED BY <1>1 DEF PutFails, BlockPutFails, FaucetPutFails, memory, db

LEMMA ReplayNodeStep ==
  ASSUME TypeInv, ReplayInv, FirstLife, FirstLife', Boot \/ Crash \/ PutFails
  PROVE  ReplayInv'
  <1> USE DEF ReplayInv, NoncesInMemory, MinedIsSpent, BlockIsNew, NoReplay
  <1>1. CASE BootInMemory
    BY <1>1 DEF BootInMemory, Genesis, db
  <1>2. CASE BootFresh
    BY <1>2 DEF BootFresh, Genesis, db, NoAccounts
  <1>3. CASE BootRestore
    BY <1>3 DEF BootRestore
  <1>4. CASE Crash
    BY <1>4 DEF Crash, FirstLife
  <1>5. CASE PutFails
    BY <1>5, FailingPutInLife DEF Spent
  <1> QED BY <1>1, <1>2, <1>3, <1>4, <1>5 DEF Boot

LEMMA ReplayRpcStep ==
  ASSUME TypeInv, TypeInv', ReplayInv, FirstLife,
         \/ \E tx \in Transactions : Submit(tx)
         \/ \E to \in Address, amount \in DripAmounts : FaucetTransfer(to, amount)
         \/ SkipTick \/ Observe
  PROVE  ReplayInv'
  <1>1. ASSUME NEW to \in Address, NEW amount \in DripAmounts, FaucetTransfer(to, amount)
        PROVE  ReplayInv'
    <2>1. Grows(accounts, accounts')
      BY <1>1, FaucetGrows
    <2>2. /\ phase = "idle" /\ phase' \in {"idle", "put_faucet"}
          /\ blocks' = blocks /\ dbAccounts' = dbAccounts
      BY <1>1 DEF FaucetTransfer, db
    <2>3. NoncesInMemory'
      BY <2>1, <2>2 DEF ReplayInv, NoncesInMemory, Grows
    <2>4. MinedIsSpent'
      <3>1. \A b \in blocks : \A tx \in b.txs : Spent(tx) /\ tx \in Transactions
        BY MinedTransactions DEF ReplayInv, MinedIsSpent, TypeInv
      <3>2. \A b \in blocks : \A tx \in b.txs : Spent(tx)'
        BY <2>1, <3>1, SpentGrows
      <3> QED BY <2>2, <3>2 DEF MinedIsSpent
    <2>5. BlockIsNew' /\ NoReplay'
      BY <2>2 DEF ReplayInv, BlockIsNew, NoReplay
    <2> QED BY <2>3, <2>4, <2>5 DEF ReplayInv
  <1>2. CASE (\E tx \in Transactions : Submit(tx)) \/ SkipTick \/ Observe
    <2>1. UNCHANGED <<blocks, accounts, phase, current, todo, dbAccounts, dbLatest>>
      BY <1>2 DEF Submit, SkipTick, Observe, vars, memory, lock, db
    <2> QED
      BY <2>1 DEF ReplayInv, NoncesInMemory, MinedIsSpent, BlockIsNew, NoReplay, Spent
  <1> QED BY <1>1, <1>2

\* A transaction that may be included has a sender in memory: its nonce is that
\* account's, and nothing on the chain is.
LEMMA IncludableIsNew ==
  ASSUME TypeOK, NoncesInMemory, PositiveCosts, NEW tx \in Transactions, Includable(tx)
  PROVE  accounts[tx.from] # NoAccount /\ tx.nonce = accounts[tx.from].nonce
  <1>1. tx.from \in Address
    BY TransactionFields
  <1>2. Cost(tx) > 0 /\ Cost(tx) \in Nat
    BY CostType DEF PositiveCosts
  <1>3. accounts[tx.from] # NoAccount
    <2> SUFFICES ASSUME accounts[tx.from] = NoAccount
                 PROVE  FALSE
      OBVIOUS
    <2>1. dbAccounts[tx.from] = NoAccount
      BY <1>1 DEF NoncesInMemory
    <2>2. Balance(tx.from) = 0
      BY <2>1 DEF Balance
    <2> QED BY <1>2, <2>2 DEF Includable
  <1> QED BY <1>3 DEF Includable, Nonce

LEMMA ReplayBuildStep ==
  ASSUME TypeInv, PositiveCosts, ReplayInv, FirstLife, NEW taken \in SUBSET mempool,
         BuildBlock(taken)
  PROVE  ReplayInv'
  <1> DEFINE txs == {tx \in taken : Includable(tx)}
  <1>1. \A tx \in txs : /\ tx \in Transactions
                        /\ accounts[tx.from] # NoAccount
                        /\ tx.nonce = accounts[tx.from].nonce
                        /\ accounts[tx.from].nonce \in Nat
    <2> SUFFICES ASSUME NEW tx \in txs
                 PROVE  /\ tx \in Transactions
                        /\ accounts[tx.from] # NoAccount
                        /\ tx.nonce = accounts[tx.from].nonce
                        /\ accounts[tx.from].nonce \in Nat
      OBVIOUS
    <2>1. tx \in Transactions /\ Includable(tx)
      BY DEF TypeInv, TypeOK
    <2>2. tx.nonce \in Nat
      BY <2>1, TransactionFields
    <2> QED BY <2>1, <2>2, IncludableIsNew DEF TypeInv, ReplayInv
  <1>2. current'.txs = txs /\ todo' = txs
    BY DEF BuildBlock
  <1>3. UNCHANGED <<blocks, accounts, dbAccounts, dbLatest>> /\ phase' = "execute"
    BY DEF BuildBlock, db
  <1> HIDE DEF txs
  <1>4. \A b \in blocks : b.txs \cap txs = {}
    BY <1>1 DEF ReplayInv, MinedIsSpent, Spent
  <1>5. MinedIsSpent'
    BY <1>2, <1>3 DEF ReplayInv, MinedIsSpent, Spent
  <1>6. BlockIsNew'
    BY <1>1, <1>2, <1>3, <1>4 DEF BlockIsNew
  <1> QED BY <1>3, <1>5, <1>6 DEF ReplayInv, NoncesInMemory, NoReplay

LEMMA ReplayExecuteStep ==
  ASSUME TypeInv, TypeInv', SelfSettled, ReplayInv, FirstLife, NEW tx \in todo, Execute(tx)
  PROVE  ReplayInv'
  <1>1. /\ phase = "execute" /\ accounts' = AfterExecution(tx) /\ todo' = todo \ {tx}
        /\ UNCHANGED <<blocks, phase, current, dbAccounts, dbLatest>>
    BY DEF Execute, db
  <1>2. tx \in Transactions /\ tx \in current.txs /\ current # NoBlock
    BY <1>1 DEF TypeInv, TypeOK, HeightsBounded, ReplayInv, BlockIsNew
  <1>3. /\ accounts[tx.from] # NoAccount
        /\ tx.nonce <= accounts[tx.from].nonce
    BY <1>1 DEF ReplayInv, BlockIsNew
  <1>4. /\ Grows(accounts, accounts')
        /\ accounts'[tx.from] # NoAccount
        /\ accounts[tx.from].nonce < accounts'[tx.from].nonce
    BY <1>1, <1>2, <1>3, ExecutionSpends DEF TypeInv
  <1>5. Spent(tx)'
    <2>1. /\ tx.nonce \in Nat /\ accounts[tx.from].nonce \in Nat
          /\ accounts'[tx.from].nonce \in Nat
      BY <1>2, <1>3, <1>4, TransactionFields DEF TypeInv, TypeOK, Account
    <2> QED BY <1>3, <1>4, <2>1 DEF Spent
  <1>6. \A u \in Transactions : Spent(u) => Spent(u)'
    BY <1>4, SpentGrows
  <1>7. MinedIsSpent'
    <2>1. \A b \in blocks : \A u \in b.txs : Spent(u)'
      BY <1>6, MinedTransactions DEF ReplayInv, MinedIsSpent, TypeInv
    <2>2. \A u \in current.txs \ todo' : Spent(u)'
      BY <1>1, <1>2, <1>5, <1>6, MinedTransactions DEF ReplayInv, MinedIsSpent, TypeInv
    <2> QED BY <1>1, <2>1, <2>2 DEF MinedIsSpent
  <1>8. BlockIsNew'
    <2>1. ASSUME NEW u \in todo'
          PROVE  accounts'[u.from] # NoAccount /\ u.nonce <= accounts'[u.from].nonce
      <3>1. u \in todo /\ u \in Transactions
        BY <1>1 DEF TypeInv, TypeOK
      <3>2. accounts[u.from] # NoAccount /\ u.nonce <= accounts[u.from].nonce
        BY <1>1, <3>1 DEF ReplayInv, BlockIsNew
      <3>3. u.from \in Address /\ u.nonce \in Nat
        BY <3>1, TransactionFields
      <3>4. accounts'[u.from] # NoAccount /\ accounts[u.from].nonce <= accounts'[u.from].nonce
        BY <1>4, <3>2, <3>3 DEF Grows
      <3>5. accounts[u.from].nonce \in Nat /\ accounts'[u.from].nonce \in Nat
        BY <3>2, <3>3, <3>4 DEF TypeInv, TypeOK, Account
      <3> QED BY <3>2, <3>3, <3>4, <3>5
    <2> QED BY <1>1, <2>1 DEF ReplayInv, BlockIsNew
  <1>9. NoncesInMemory' /\ NoReplay'
    BY <1>1, <1>4 DEF ReplayInv, NoncesInMemory, NoReplay, Grows
  <1> QED BY <1>7, <1>8, <1>9 DEF ReplayInv

LEMMA ReplayOtherStep ==
  ASSUME TypeInv, ReplayInv, FirstLife,
         \/ \E tx \in todo : Abort(tx)
         \/ Append
         \/ PutBlock \/ PutIndex \/ PutLatest \/ PutFaucet
         \/ \E c \in unsaved : PutAccount(c)
         \/ Finish
  PROVE  ReplayInv'
  <1>1. CASE Append
    <2>1. /\ phase = "execute" /\ phase' \in {"idle", "put_block"} /\ todo = {}
          /\ blocks' = blocks \cup {current}
          /\ UNCHANGED <<accounts, dbAccounts>>
      BY <1>1 DEF Append, db
    <2>2. MinedIsSpent'
      BY <2>1 DEF ReplayInv, MinedIsSpent, Spent
    <2>3. NoReplay'
      BY <2>1 DEF ReplayInv, BlockIsNew, NoReplay
    <2> QED BY <2>1, <2>2, <2>3 DEF ReplayInv, NoncesInMemory, BlockIsNew
  <1>2. CASE (\E tx \in todo : Abort(tx)) \/ PutBlock \/ PutIndex \/ PutLatest \/ Finish
    <2>1. UNCHANGED <<blocks, accounts, dbAccounts>> /\ phase' \notin {"execute", "down"}
      BY <1>2 DEF Abort, PutBlock, PutIndex, PutLatest, Finish, memory, db
    <2> QED
      BY <2>1 DEF ReplayInv, NoncesInMemory, MinedIsSpent, BlockIsNew, NoReplay, Spent
  <1>3. ASSUME NEW c \in Address,
               dbAccounts' = [dbAccounts EXCEPT ![c] = accounts[c]],
               UNCHANGED <<blocks, accounts>>, phase' = "put_accounts"
        PROVE  ReplayInv'
    <2>1. NoncesInMemory'
      BY <1>3 DEF ReplayInv, NoncesInMemory, TypeInv, TypeOK
    <2> QED BY <1>3, <2>1 DEF ReplayInv, MinedIsSpent, BlockIsNew, NoReplay, Spent
  <1>4. CASE PutFaucet
    BY <1>3, <1>4, AddressAssumption DEF PutFaucet, memory
  <1>5. CASE \E c \in unsaved : PutAccount(c)
    BY <1>3, <1>5 DEF PutAccount, TypeInv, TypeOK, memory
  <1> QED BY <1>1, <1>2, <1>4, <1>5

\* A step of the first life is a step from the first life.
LEMMA FirstLifeBefore ==
  ASSUME TypeInv, [Next]_vars, FirstLife'
  PROVE  FirstLife
  <1>1. restarts \in Nat
    BY DEF TypeInv, TypeOK
  <1>2. restarts' \in {restarts, restarts + 1}
    BY DEF Next, Boot, BootInMemory, BootFresh, BootRestore, Crash, Submit, FaucetTransfer,
           SkipTick, Observe, Produce, BuildBlock, Holder, Execute, Abort, Append, PutBlock,
           PutIndex, PutLatest, PutFaucet, PutAccount, Finish, PutFails, BootPutFails,
           BlockPutFails, FaucetPutFails, vars, counters
  <1> QED BY <1>1, <1>2 DEF FirstLife

LEMMA ReplayNext ==
  ASSUME PositiveCosts, SelfSettled
  PROVE  TypeInv /\ TypeInv' /\ ReplayInv /\ [Next]_vars => ReplayInv'
  <1> SUFFICES ASSUME TypeInv, TypeInv', ReplayInv, [Next]_vars, FirstLife'
               PROVE  ReplayInv'
    BY DEF ReplayInv
  <1>1. FirstLife
    BY FirstLifeBefore
  <1>2. CASE Next
    BY <1>1, <1>2, ReplayNodeStep, ReplayRpcStep, ReplayBuildStep, ReplayExecuteStep,
       ReplayOtherStep DEF Next, Holder, Produce
  <1>3. CASE UNCHANGED vars
    BY <1>3 DEF vars, memory, lock, db, counters, ReplayInv, FirstLife, NoncesInMemory,
                MinedIsSpent, BlockIsNew, NoReplay, Spent
  <1> QED BY <1>2, <1>3

\* In a node's first life no transaction is mined twice, when every transaction costs
\* its sender something and a settlement is signed by the user it charges: the nonce
\* checks of submit_transaction and build_block, which read memory only, and the
\* increment in execute_transaction are enough (execution.rs:52, 153, 188).
THEOREM NoReplayInFirstLife ==
  ASSUME PositiveCosts, SelfSettled
  PROVE  Spec => [](FirstLife => NoReplay)
  <1>1. Init => ReplayInv
    BY DEF Init, ReplayInv, FirstLife, NoncesInMemory, MinedIsSpent, BlockIsNew, NoReplay,
           NoAccounts
  <1>2. TypeInv /\ TypeInv' /\ ReplayInv /\ [Next]_vars => ReplayInv'
    BY ReplayNext
  <1>3. ReplayInv => (FirstLife => NoReplay)
    BY DEF ReplayInv
  <1> QED BY <1>1, <1>2, <1>3, TypeInvariant, PTL DEF Spec

----------------------------------------------------------------------------
(* The stored chain survives crashes *)

\* Where the operation in progress stands between memory and the database.
PutsInOrder ==
  /\ phase = "down" => height = 0
  /\ phase \in {"down", "idle", "put_faucet"} => current = NoBlock
  /\ persist /\ phase \in {"idle", "execute", "put_faucet", "put_accounts"} => height = dbLatest
  /\ phase \in {"put_block", "put_index", "put_latest"} =>
       /\ current.height = height
       /\ height = dbLatest + 1
  /\ phase \in {"put_index", "put_latest"} => current \in dbBlocks
  /\ phase = "put_latest" => dbIndex[current.height] = current.id
  /\ phase = "put_accounts" /\ current # NoBlock =>
       /\ current \in dbBlocks
       /\ current.height = dbLatest
       /\ dbIndex[current.height] = current.id
  /\ ~persist => dbLatest = -1 /\ phase \in {"down", "idle", "execute"}

StorageInv == ioErrors = 0 => PutsInOrder /\ Bootable /\ AckedBlocksDurable

LEMMA StorageInit == Init => StorageInv
  BY DEF Init, StorageInv, PutsInOrder, Bootable, AckedBlocksDurable

\* A step that leaves the database and the reported blocks alone only has the order of
\* the puts to keep.
LEMMA DatabaseUntouched ==
  ASSUME StorageInv, ioErrors = 0, UNCHANGED <<db, acked>>, PutsInOrder'
  PROVE  StorageInv'
  BY DEF StorageInv, Bootable, StoredBlock, AckedBlocksDurable, db

LEMMA StorageNodeStep ==
  ASSUME TypeInv, StorageInv, ioErrors = 0, ioErrors' = 0, Boot \/ Crash \/ PutFails
  PROVE  StorageInv'
  <1>1. CASE BootInMemory
    <2>1. PutsInOrder'
      BY <1>1 DEF BootInMemory, StorageInv, PutsInOrder, db
    <2> QED BY <1>1, <2>1, DatabaseUntouched DEF BootInMemory
  <1>2. CASE BootFresh
    <2>1. PutsInOrder'
      BY <1>2, GenesisType DEF BootFresh, StorageInv, PutsInOrder, db
    <2> QED BY <1>2, <2>1, DatabaseUntouched DEF BootFresh
  <1>3. CASE BootRestore
    <2>1. PutsInOrder'
      BY <1>3 DEF BootRestore, StorageInv, PutsInOrder, db
    <2> QED BY <1>3, <2>1, DatabaseUntouched DEF BootRestore
  <1>4. CASE Crash
    <2>1. PutsInOrder'
      BY <1>4 DEF Crash, StorageInv, PutsInOrder, db
    <2> QED BY <1>4, <2>1, DatabaseUntouched DEF Crash
  <1>5. CASE PutFails
    BY <1>5 DEF PutFails, BootPutFails, BlockPutFails, FaucetPutFails
  <1> QED BY <1>1, <1>2, <1>3, <1>4, <1>5 DEF Boot

LEMMA StorageMemoryStep ==
  ASSUME TypeInv, StorageInv, ioErrors = 0,
         \/ \E tx \in Transactions : Submit(tx)
         \/ \E to \in Address, amount \in DripAmounts : FaucetTransfer(to, amount)
         \/ SkipTick \/ Observe \/ Produce
         \/ \E tx \in todo : Execute(tx) \/ Abort(tx)
         \/ PutFaucet \/ \E c \in unsaved : PutAccount(c)
  PROVE  StorageInv'
  <1> USE DEF StorageInv, PutsInOrder, db, memory, lock
  <1>1. CASE \E tx \in Transactions : Submit(tx)
    BY <1>1, DatabaseUntouched DEF Submit
  <1>2. CASE \E to \in Address, amount \in DripAmounts : FaucetTransfer(to, amount)
    BY <1>2, DatabaseUntouched DEF FaucetTransfer
  <1>3. CASE SkipTick \/ Observe
    BY <1>3, DatabaseUntouched DEF SkipTick, Observe, vars
  <1>4. CASE Produce
    <2>1. /\ phase = "idle" /\ phase' = "execute"
          /\ UNCHANGED <<db, acked, height>>
      BY <1>4 DEF Produce, BuildBlock
    <2> QED BY <2>1, DatabaseUntouched
  <1>5. CASE \E tx \in todo : Execute(tx) \/ Abort(tx)
    BY <1>5, DatabaseUntouched DEF Execute, Abort
  <1>6. CASE PutFaucet \/ \E c \in unsaved : PutAccount(c)
    BY <1>6 DEF PutFaucet, PutAccount, Bootable, StoredBlock, AckedBlocksDurable
  <1> QED BY <1>1, <1>2, <1>3, <1>4, <1>5, <1>6

LEMMA StorageAppend ==
  ASSUME TypeInv, StorageInv, ioErrors = 0, Append
  PROVE  StorageInv'
  <1>1. /\ current # NoBlock /\ current \in Block /\ current.height = height + 1
        /\ height' = height + 1 /\ UNCHANGED db
        /\ persist => /\ phase' = "put_block" /\ height = dbLatest
                      /\ UNCHANGED <<current, acked>>
        /\ ~persist => phase' = "idle" /\ current' = NoBlock
    BY DEF Append, TypeInv, TypeOK, HeightsBounded, StorageInv, PutsInOrder
  <1>2. CASE persist
    <2>1. PutsInOrder'
      BY <1>1, <1>2 DEF StorageInv, PutsInOrder, db
    <2> QED BY <1>1, <1>2, <2>1, DatabaseUntouched
  <1>3. CASE ~persist
    BY <1>1, <1>3 DEF StorageInv, PutsInOrder, Bootable, StoredBlock, AckedBlocksDurable, db
  <1> QED BY <1>2, <1>3

LEMMA StorageBlockPuts ==
  ASSUME TypeInv, StorageInv, ioErrors = 0, PutBlock \/ PutIndex \/ PutLatest \/ Finish
  PROVE  StorageInv'
  <1> USE DEF StorageInv, PutsInOrder, Bootable, StoredBlock, AckedBlocksDurable
  <1>1. dbLatest \in Int /\ \A b \in acked : b \in Block /\ b.height \in Nat
    BY ParameterAssumption DEF TypeInv, TypeOK, Heights, Block
  <1>2. current # NoBlock => current \in Block /\ current.height \in Heights
                             /\ current.height \in Nat /\ current.id \in Nat
    BY ParameterAssumption DEF TypeInv, TypeOK, HeightsBounded, Heights, Block
  <1>3. CASE PutBlock
    BY <1>3 DEF PutBlock, memory
  <1>4. CASE PutIndex
    <2>1. /\ current # NoBlock /\ current.height = dbLatest + 1
          /\ dbIndex' = [dbIndex EXCEPT ![current.height] = current.id]
          /\ phase' = "put_latest"
          /\ UNCHANGED <<height, current, persist, dbBlocks, dbLatest, acked>>
      BY <1>4 DEF PutIndex, memory, TypeInv, HeightsBounded
    <2>2. \A h \in Int : h <= dbLatest => dbIndex'[h] = dbIndex[h]
      BY <1>1, <1>2, <2>1 DEF TypeInv, TypeOK
    <2>3. dbIndex'[current.height] = current.id
      BY <1>2, <2>1 DEF TypeInv, TypeOK
    <2>4. Bootable'
      BY <1>1, <2>1, <2>2
    <2>5. AckedBlocksDurable'
      BY <1>1, <2>1, <2>2
    <2>6. PutsInOrder'
      BY <1>4, <2>1, <2>3 DEF PutIndex
    <2> QED BY <2>4, <2>5, <2>6
  <1>5. CASE PutLatest
    <2>1. /\ current # NoBlock /\ current.height = dbLatest + 1 /\ current.height = height
          /\ current \in dbBlocks /\ dbIndex[current.height] = current.id
          /\ dbLatest' = current.height /\ phase' = "put_accounts"
          /\ UNCHANGED <<height, current, persist, dbBlocks, dbIndex, acked>>
      BY <1>1, <1>2, <1>5 DEF PutLatest, memory, TypeInv, HeightsBounded
    <2>2. Bootable'
      <3>1. ASSUME NEW h \in 0 .. dbLatest'
            PROVE  \E b \in dbBlocks : b.id = dbIndex[h]
        <4>1. CASE h = current.height
          BY <2>1, <4>1
        <4>2. CASE h # current.height
          BY <1>1, <2>1, <4>2
        <4> QED BY <4>1, <4>2
      <3> QED BY <2>1, <3>1
    <2>3. AckedBlocksDurable'
      BY <1>1, <2>1
    <2>4. PutsInOrder'
      BY <1>5, <2>1 DEF PutLatest
    <2> QED BY <2>2, <2>3, <2>4
  <1>6. CASE Finish
    <2>1. /\ phase' = "idle" /\ current' = NoBlock
          /\ UNCHANGED <<height, db>>
          /\ acked' = IF current = NoBlock THEN acked ELSE acked \cup {current}
      BY <1>6 DEF Finish, memory
    <2>2. AckedBlocksDurable'
      BY <1>2, <1>6, <2>1 DEF Finish, db
    <2>3. PutsInOrder'
      BY <1>6, <2>1 DEF Finish, db
    <2> QED BY <2>1, <2>2, <2>3 DEF db
  <1> QED BY <1>3, <1>4, <1>5, <1>6

\* A step after which no put has failed is not a failing put.
LEMMA NoPutFailedBefore ==
  ASSUME TypeInv, [Next]_vars, ioErrors' = 0
  PROVE  ioErrors = 0 /\ ~PutFails
  <1>1. ioErrors \in Nat
    BY DEF TypeInv, TypeOK
  <1>2. PutFails => ioErrors' = ioErrors + 1
    BY DEF PutFails, BootPutFails, BlockPutFails, FaucetPutFails
  <1>3. PutFails \/ ioErrors' = ioErrors
    BY DEF Next, Boot, BootInMemory, BootFresh, BootRestore, Crash, Submit, FaucetTransfer,
           SkipTick, Observe, Produce, BuildBlock, Holder, Execute, Abort, Append, PutBlock,
           PutIndex, PutLatest, PutFaucet, PutAccount, Finish, vars, counters
  <1> QED BY <1>1, <1>2, <1>3

LEMMA StorageNext == TypeInv /\ StorageInv /\ [Next]_vars => StorageInv'
  <1> SUFFICES ASSUME TypeInv, StorageInv, [Next]_vars, ioErrors' = 0
               PROVE  StorageInv'
    BY DEF StorageInv
  <1>1. ioErrors = 0
    BY NoPutFailedBefore
  <1>2. CASE Next
    BY <1>1, <1>2, StorageNodeStep, StorageMemoryStep, StorageAppend, StorageBlockPuts
       DEF Next, Holder
  <1>3. CASE UNCHANGED vars
    BY <1>3 DEF vars, memory, lock, db, counters, StorageInv, PutsInOrder, Bootable,
                StoredBlock, AckedBlocksDurable
  <1> QED BY <1>2, <1>3

LEMMA StorageInvariant == Spec => [](TypeInv /\ StorageInv)
  BY TypeInvariant, StorageInit, StorageNext, PTL DEF Spec

\* However often the process dies, and wherever between two puts, as long as no put
\* fails the next start finds a block at every height up to the latest (rocks.rs:52,
\* chain.rs:89).
THEOREM ChainSurvivesCrashes == Spec => [](ioErrors = 0 => RestartFindsChain)
  <1>1. StorageInv => (ioErrors = 0 => RestartFindsChain)
    BY DEF StorageInv, RestartFindsChain
  <1> QED BY <1>1, StorageInvariant, PTL

\* Under the same condition a block whose production was reported successful keeps its
\* place on the stored chain (rocks.rs:52).
THEOREM AckedBlocksSurvive == Spec => [](ioErrors = 0 => AckedBlocksDurable)
  <1>1. StorageInv => (ioErrors = 0 => AckedBlocksDurable)
    BY DEF StorageInv
  <1> QED BY <1>1, StorageInvariant, PTL

\* And at most the block being written is lost (execution.rs:33).
THEOREM OneBlockAtRisk == Spec => [](ioErrors = 0 => CrashLosesAtMostOneBlock)
  <1>1. TypeInv /\ StorageInv => (ioErrors = 0 => CrashLosesAtMostOneBlock)
    <2> SUFFICES ASSUME TypeInv, StorageInv, ioErrors = 0
                 PROVE  CrashLosesAtMostOneBlock
      OBVIOUS
    <2>1. dbLatest \in Int
      BY ParameterAssumption DEF TypeInv, TypeOK, Heights
    <2> QED
      BY <2>1 DEF StorageInv, PutsInOrder, CrashLosesAtMostOneBlock, TypeInv, TypeOK, Phases
  <1> QED BY <1>1, StorageInvariant, PTL

----------------------------------------------------------------------------
(* A reported block has its accounts stored *)

\* While a block's accounts are put, every account in memory is stored as it stands or still
\* to be put; no other operation has a block in progress.
SavedInv ==
  /\ phase \in {"down", "idle", "put_faucet"} => current = NoBlock
  /\ phase = "put_accounts" /\ current # NoBlock =>
       \A c \in Address :
         accounts[c] # NoAccount => c \in unsaved \/ dbAccounts[c] = accounts[c]

LEMMA SavedNext == TypeInv /\ SavedInv /\ [Next]_vars => SavedInv'
  <1> SUFFICES ASSUME TypeInv, SavedInv, [Next]_vars
               PROVE  SavedInv'
    OBVIOUS
  <1> USE DEF SavedInv
  <1>1. CASE Boot \/ Crash \/ Produce
    BY <1>1 DEF Boot, BootInMemory, BootFresh, BootRestore, Crash, Produce, BuildBlock
  <1>2. CASE \/ \E tx \in Transactions : Submit(tx)
             \/ \E to \in Address, amount \in DripAmounts : FaucetTransfer(to, amount)
             \/ SkipTick \/ Observe
    BY <1>2 DEF Submit, FaucetTransfer, SkipTick, Observe, vars, memory, lock, db
  <1>3. CASE (\E tx \in todo : Execute(tx) \/ Abort(tx)) \/ Append \/ Finish
    BY <1>3 DEF Execute, Abort, Append, Finish
  <1>4. CASE PutBlock \/ PutIndex
    BY <1>4 DEF PutBlock, PutIndex
  <1>5. CASE PutLatest
    BY <1>5 DEF PutLatest, Loaded, memory
  <1>6. CASE PutFaucet
    BY <1>6 DEF PutFaucet
  <1>7. CASE \E c \in unsaved : PutAccount(c)
    BY <1>7 DEF PutAccount, memory, TypeInv, TypeOK
  <1>8. CASE PutFails
    BY <1>8 DEF PutFails, BootPutFails, BlockPutFails, FaucetPutFails
  <1>9. CASE UNCHANGED vars
    BY <1>9 DEF vars, memory, lock, db
  <1> QED BY <1>1, <1>2, <1>3, <1>4, <1>5, <1>6, <1>7, <1>8, <1>9 DEF Next, Holder

\* When produce_block reports success every account in memory is stored as it stands, crashes
\* and failing puts of other operations notwithstanding (execution.rs:36).
THEOREM AckedBlocksAreSaved == Spec => AckedMeansSaved
  <1>1. Init => SavedInv
    BY DEF Init, SavedInv
  <1>2. SavedInv /\ [Next]_vars => [AckIsSaved]_vars
    <2> SUFFICES ASSUME SavedInv, Next, acked' # acked, persist
                 PROVE  \A c \in Address : accounts'[c] # NoAccount => dbAccounts'[c] = accounts'[c]
      BY DEF AckIsSaved
    <2>1. Finish
      BY DEF Next, Boot, BootInMemory, BootFresh, BootRestore, Crash, Submit, FaucetTransfer,
             SkipTick, Observe, Produce, BuildBlock, Holder, Execute, Abort, Append, PutBlock,
             PutIndex, PutLatest, PutFaucet, PutAccount, PutFails, BootPutFails, BlockPutFails,
             FaucetPutFails, vars
    <2> QED BY <2>1 DEF Finish, SavedInv, memory, db
  <1> QED BY <1>1, <1>2, SavedNext, TypeInvariant, PTL DEF Spec, AckedMeansSaved

----------------------------------------------------------------------------
(* Nonces count executions *)

\* In its first life a node that is down has not run yet; a transaction of a block that was
\* given up is spent, and is in no later block.
DroppedIsSpent ==
  /\ phase = "down" => blocks = {} /\ dropped = {} /\ accounts = NoAccounts
  /\ \A tx \in dropped : Spent(tx)
  /\ phase = "execute" => current.txs \cap dropped = {}

CountInv == FirstLife => DroppedIsSpent /\ NonceCountsExecutions

\* n holds every account of m with the same nonce, and starts the others at zero.
KeepsNonces(m, n) ==
  \A c \in Address :
    /\ m[c] # NoAccount => n[c] # NoAccount /\ n[c].nonce = m[c].nonce
    /\ m[c] = NoAccount /\ n[c] # NoAccount => n[c].nonce = 0

LEMMA KeepsTransitive ==
  ASSUME NEW m, NEW n, NEW p, KeepsNonces(m, n), KeepsNonces(n, p)
  PROVE  KeepsNonces(m, p)
  BY DEF KeepsNonces

LEMMA CreditKeepsNonces ==
  ASSUME NEW m \in AccountMap, NEW c \in Address, NEW x \in Amount
  PROVE  KeepsNonces(m, Credit(m, c, x))
  <1> DEFINE new == IF m[c] = NoAccount THEN NewExternal(x)
                    ELSE [balance |-> Wrap(m[c].balance + x), nonce |-> m[c].nonce]
  <1>1. Credit(m, c, x) = [m EXCEPT ![c] = new]
    BY DEF Credit
  <1>2. new.nonce = IF m[c] = NoAccount THEN 0 ELSE m[c].nonce
    BY DEF NewExternal
  <1>3. new # NoAccount
    <2>1. m[c] # NoAccount => m[c].balance \in Amount /\ m[c].nonce \in Nat
      BY DEF AccountMap, Account
    <2>2. new \in Account
      BY <2>1, WrapType DEF NewExternal, Account
    <2> QED BY <2>2, SentinelAssumption
  <1> HIDE DEF new
  <1> QED BY <1>1, <1>2, <1>3 DEF KeepsNonces, AccountMap

\* Executing a transaction debits its sender and credits accounts, none of which touches a
\* nonce but the sender's.
LEMMA ExecutionDebitsSender ==
  ASSUME TypeOK, SelfSettled, NEW tx \in Transactions, accounts[tx.from] # NoAccount
  PROVE  \E x \in Amount : KeepsNonces(Debit(accounts, tx.from, x), AfterExecution(tx))
  <1>1. accounts \in AccountMap
    BY DEF TypeOK, AccountMap
  <1>2. /\ tx.from \in Address /\ tx.to \in Address /\ Zero \in Address
        /\ tx.amount \in Amount /\ tx.charge \in Amount /\ 0 \in Amount
    BY TransactionFields, AddressAssumption, ParameterAssumption DEF Amount
  <1>3. \A x \in Amount : /\ Debit(accounts, tx.from, x) \in AccountMap
                          /\ KeepsNonces(Debit(accounts, tx.from, x), Debit(accounts, tx.from, x))
    <2> SUFFICES ASSUME NEW x \in Amount
                 PROVE  /\ Debit(accounts, tx.from, x) \in AccountMap
                        /\ KeepsNonces(Debit(accounts, tx.from, x), Debit(accounts, tx.from, x))
      OBVIOUS
    <2>1. Debit(accounts, tx.from, x) \in AccountMap
      BY <1>1, <1>2, DebitType
    <2> QED BY <2>1 DEF KeepsNonces
  <1>4. CASE tx.kind = TransferKind
    <2>1. AfterExecution(tx) = Credit(Debit(accounts, tx.from, tx.amount), tx.to, tx.amount)
      BY <1>4 DEF AfterExecution, TransferKind, NonceOnly
    <2>2. KeepsNonces(Debit(accounts, tx.from, tx.amount), AfterExecution(tx))
      BY <1>2, <1>3, <2>1, CreditKeepsNonces
    <2> QED BY <1>2, <2>2
  <1>5. CASE tx.kind \in {"Stake", "CreditPurchase", "Unstake"}
    <2>1. AfterExecution(tx) = Debit(accounts, tx.from, tx.amount)
      BY <1>5 DEF AfterExecution, AfterUnstake, TransferKind
    <2> QED BY <1>2, <1>3, <2>1
  <1>6. CASE tx.kind = "Settlement"
    <2> DEFINE net == IF tx.amount > tx.charge THEN tx.amount - tx.charge ELSE 0
               m == Debit(accounts, tx.from, tx.amount)
               p == Credit(m, tx.to, net)
    <2>1. net \in Amount
      BY <1>2, ParameterAssumption DEF Amount
    <2>2. AfterExecution(tx) = Credit(p, Zero, tx.charge)
      <3>1. tx.user = tx.from
        BY <1>6 DEF SelfSettled
      <3> QED BY <1>6, <3>1 DEF AfterExecution, AfterSettlement, TransferKind
    <2>3. m \in AccountMap
      BY <1>2, <1>3
    <2> HIDE DEF net, m
    <2>4. p \in AccountMap /\ KeepsNonces(m, p)
      BY <1>2, <2>1, <2>3, CreditType, CreditKeepsNonces
    <2> HIDE DEF p
    <2>5. KeepsNonces(p, AfterExecution(tx))
      BY <1>2, <2>2, <2>4, CreditKeepsNonces
    <2>6. KeepsNonces(m, AfterExecution(tx))
      BY <2>4, <2>5, KeepsTransitive
    <2> QED BY <1>2, <2>6 DEF m
  <1>7. CASE tx.kind \in NonceOnly
    <2>1. AfterExecution(tx) = Debit(accounts, tx.from, 0)
      BY <1>7 DEF AfterExecution, NonceOnly, TransferKind
    <2> QED BY <1>2, <1>3, <2>1
  <1>8. tx.kind \in Kinds
    BY TransactionFields
  <1> QED BY <1>4, <1>5, <1>6, <1>7, <1>8 DEF Kinds

\* An execution adds one to its sender's nonce and leaves the others as they were.
LEMMA ExecutionNonces ==
  ASSUME TypeOK, SelfSettled, NEW tx \in Transactions, accounts[tx.from] # NoAccount,
         NEW c \in Address
  PROVE  /\ accounts[c] # NoAccount =>
              /\ AfterExecution(tx)[c] # NoAccount
              /\ AfterExecution(tx)[c].nonce =
                   accounts[c].nonce + IF c = tx.from THEN 1 ELSE 0
         /\ accounts[c] = NoAccount /\ AfterExecution(tx)[c] # NoAccount =>
              AfterExecution(tx)[c].nonce = 0
  <1>1. accounts \in AccountMap /\ tx.from \in Address
    BY TransactionFields DEF TypeOK, AccountMap
  <1>2. PICK x \in Amount : KeepsNonces(Debit(accounts, tx.from, x), AfterExecution(tx))
    BY ExecutionDebitsSender
  <1>3. CASE c = tx.from
    <2>1. /\ Debit(accounts, tx.from, x)[c] # NoAccount
          /\ Debit(accounts, tx.from, x)[c].nonce = accounts[c].nonce + 1
      BY <1>1, <1>3, DebitSpends
    <2> QED BY <1>2, <1>3, <2>1 DEF KeepsNonces
  <1>4. CASE c # tx.from
    <2>1. Debit(accounts, tx.from, x)[c] = accounts[c]
      BY <1>1, <1>4 DEF Debit, AccountMap
    <2>2. accounts[c] # NoAccount => accounts[c].nonce \in Nat
      BY <1>1 DEF AccountMap, Account
    <2> QED BY <1>2, <1>4, <2>1, <2>2 DEF KeepsNonces
  <1> QED BY <1>3, <1>4

\* What was executed is spent.
LEMMA ExecutedIsSpent ==
  ASSUME TypeInv, FirstLife, ReplayInv, CountInv, NEW tx \in Executed
  PROVE  tx \in Transactions /\ Spent(tx)
  <1>1. CASE \E b \in blocks : tx \in b.txs
    BY <1>1, MinedTransactions DEF TypeInv, ReplayInv, MinedIsSpent
  <1>2. CASE tx \in dropped
    BY <1>2 DEF TypeInv, TypeOK, CountInv, DroppedIsSpent
  <1>3. CASE phase = "execute" /\ tx \in current.txs \ todo
    BY <1>3, MinedTransactions DEF TypeInv, HeightsBounded, ReplayInv, MinedIsSpent
  <1> QED BY <1>1, <1>2, <1>3 DEF Executed

\* An account that is not in memory has executed nothing.
LEMMA AbsentExecutedNothing ==
  ASSUME TypeInv, FirstLife, ReplayInv, CountInv, NEW c \in Address, accounts[c] = NoAccount
  PROVE  {tx \in Executed : tx.from = c} = {}
  BY ExecutedIsSpent DEF Spent

\* A step that executes nothing and keeps the nonces keeps the count.
LEMMA CountStays ==
  ASSUME TypeInv, FirstLife, ReplayInv, CountInv, Executed' = Executed,
         KeepsNonces(accounts, accounts')
  PROVE  NonceCountsExecutions'
  <1> SUFFICES ASSUME NEW c \in Address, accounts'[c] # NoAccount
               PROVE  accounts'[c].nonce = Cardinality({tx \in Executed' : tx.from = c})
    BY DEF NonceCountsExecutions, Loaded
  <1>1. CASE accounts[c] # NoAccount
    BY <1>1 DEF KeepsNonces, CountInv, NonceCountsExecutions, Loaded
  <1>2. CASE accounts[c] = NoAccount
    BY <1>2, AbsentExecutedNothing, FS_EmptySet DEF KeepsNonces
  <1> QED BY <1>1, <1>2

LEMMA SameKeepsNonces ==
  ASSUME accounts' = accounts
  PROVE  KeepsNonces(accounts, accounts')
  BY DEF KeepsNonces

LEMMA CountNodeStep ==
  ASSUME TypeInv, FirstLife, FirstLife', ReplayInv, CountInv, Boot \/ Crash \/ PutFails
  PROVE  CountInv'
  <1>1. CASE PutFails
    <2>1. /\ phase # "execute" /\ phase' \notin {"execute", "down"}
          /\ UNCHANGED <<blocks, accounts, dropped>>
      BY <1>1, FailingPutInLife
    <2>2. Executed' = Executed
      BY <2>1 DEF Executed
    <2>3. NonceCountsExecutions'
      BY <2>1, <2>2, CountStays, SameKeepsNonces
    <2> QED BY <2>1, <2>3 DEF CountInv, DroppedIsSpent, Spent
  <1>2. CASE BootRestore
    BY <1>2 DEF BootRestore, ReplayInv, NoncesInMemory
  <1>3. CASE BootInMemory \/ BootFresh
    <2>1. /\ phase = "down" /\ phase' \in {"idle", "put_block"}
          /\ blocks' = {Genesis} /\ dropped' = dropped
          /\ accounts' = accounts \/ accounts' = [c \in Address |->
               IF c \in GenesisAccounts THEN NewExternal(InitialSupply) ELSE NoAccount]
      BY <1>3 DEF BootInMemory, BootFresh
    <2>2. blocks = {} /\ dropped = {} /\ accounts = NoAccounts
      BY <2>1 DEF CountInv, DroppedIsSpent
    <2>3. Executed' = {}
      BY <2>1, <2>2 DEF Executed, Genesis
    <2>4. \A c \in Address : accounts'[c] # NoAccount => accounts'[c].nonce = 0
      BY <2>1, <2>2 DEF NoAccounts, NewExternal
    <2>5. NonceCountsExecutions'
      BY <2>3, <2>4, FS_EmptySet DEF NonceCountsExecutions, Loaded
    <2> QED BY <2>1, <2>2, <2>5 DEF CountInv, DroppedIsSpent
  <1>4. CASE Crash
    BY <1>4 DEF Crash, FirstLife, TypeInv, TypeOK
  <1> QED BY <1>1, <1>2, <1>3, <1>4 DEF Boot

\* In the first life the faucet's nonce is the one in memory.
LEMMA FaucetKeepsNonces ==
  ASSUME TypeInv, NoncesInMemory, NEW to \in Address, NEW amount \in DripAmounts,
         FaucetTransfer(to, amount)
  PROVE  KeepsNonces(accounts, accounts')
  <1> DEFINE entry == [balance |-> Wrap(DripFrom(amount) - amount), nonce |-> FaucetNonce]
             drained == [accounts EXCEPT ![Faucet] = entry]
  <1>1. accounts \in AccountMap /\ amount \in Amount /\ Faucet \in Address
    BY ParameterAssumption, AddressAssumption DEF TypeInv, TypeOK, AccountMap
  <1>2. entry \in Account
    <2>1. accounts[Faucet] # NoAccount =>
            accounts[Faucet].balance \in Amount /\ accounts[Faucet].nonce \in Nat
      BY <1>1 DEF AccountMap, Account
    <2>2. dbAccounts[Faucet] # NoAccount =>
            dbAccounts[Faucet].balance \in Amount /\ dbAccounts[Faucet].nonce \in Nat
      BY <1>1 DEF TypeInv, TypeOK, Account
    <2>3. InitialSupply \in Amount /\ 0 \in Amount
      BY ParameterAssumption DEF Amount
    <2>4. DripFrom(amount) \in Amount
      BY <2>1, <2>2, <2>3 DEF DripFrom, FaucetBalance, Balance
    <2>5. Wrap(DripFrom(amount) - amount) \in Amount
      BY <1>1, <2>4, WrapType
    <2>6. FaucetNonce \in Nat
      BY <2>1, <2>2 DEF FaucetNonce, Nonce
    <2> QED BY <2>5, <2>6 DEF Account
  <1>3. entry # NoAccount
    BY <1>2, SentinelAssumption
  <1>4. entry.nonce = IF accounts[Faucet] # NoAccount THEN accounts[Faucet].nonce ELSE 0
    BY <1>1 DEF NoncesInMemory, FaucetNonce, Nonce
  <1>5. accounts' = Credit(drained, to, amount)
    BY DEF FaucetTransfer
  <1> HIDE DEF entry
  <1>6. drained \in AccountMap /\ KeepsNonces(accounts, drained)
    BY <1>1, <1>2, <1>3, <1>4 DEF KeepsNonces, AccountMap
  <1> HIDE DEF drained
  <1>7. KeepsNonces(drained, accounts')
    BY <1>1, <1>5, <1>6, CreditKeepsNonces
  <1> QED BY <1>6, <1>7, KeepsTransitive

LEMMA CountRpcStep ==
  ASSUME TypeInv, TypeInv', FirstLife, ReplayInv, CountInv,
         \/ \E tx \in Transactions : Submit(tx)
         \/ \E to \in Address, amount \in DripAmounts : FaucetTransfer(to, amount)
         \/ SkipTick \/ Observe
  PROVE  CountInv'
  <1>1. ASSUME NEW to \in Address, NEW amount \in DripAmounts, FaucetTransfer(to, amount)
        PROVE  CountInv'
    <2>1. KeepsNonces(accounts, accounts')
      BY <1>1, FaucetKeepsNonces DEF ReplayInv
    <2>2. /\ phase = "idle" /\ phase' \in {"idle", "put_faucet"}
          /\ blocks' = blocks /\ dropped' = dropped
      BY <1>1 DEF FaucetTransfer
    <2>3. Executed' = Executed
      BY <2>2 DEF Executed
    <2>4. NonceCountsExecutions'
      BY <2>1, <2>3, CountStays
    <2>5. \A tx \in dropped : Spent(tx)'
      <3>1. Grows(accounts, accounts')
        BY <1>1, FaucetGrows
      <3> QED BY <3>1, SpentGrows DEF CountInv, DroppedIsSpent, TypeInv, TypeOK
    <2> QED BY <2>2, <2>4, <2>5 DEF CountInv, DroppedIsSpent
  <1>2. CASE (\E tx \in Transactions : Submit(tx)) \/ SkipTick \/ Observe
    <2>1. UNCHANGED <<blocks, accounts, phase, current, todo, dropped>>
      BY <1>2 DEF Submit, SkipTick, Observe, vars, memory, lock
    <2> QED
      BY <2>1 DEF CountInv, DroppedIsSpent, NonceCountsExecutions, Loaded, Executed, Spent
  <1> QED BY <1>1, <1>2

LEMMA CountBuildStep ==
  ASSUME TypeInv, TypeInv', FirstLife, PositiveCosts, ReplayInv, CountInv,
         NEW taken \in SUBSET mempool, BuildBlock(taken)
  PROVE  CountInv'
  <1> DEFINE txs == {tx \in taken : Includable(tx)}
  <1>1. current'.txs = txs /\ todo' = txs
    BY DEF BuildBlock
  <1>2. UNCHANGED <<blocks, accounts, dropped>> /\ phase = "idle" /\ phase' = "execute"
    BY DEF BuildBlock
  <1>3. \A tx \in txs : tx \notin dropped
    <2> SUFFICES ASSUME NEW tx \in txs, tx \in dropped
                 PROVE  FALSE
      OBVIOUS
    <2>1. tx \in Transactions /\ Includable(tx)
      BY DEF TypeInv, TypeOK
    <2>2. accounts[tx.from] # NoAccount /\ tx.nonce = accounts[tx.from].nonce
      BY <2>1, IncludableIsNew DEF TypeInv, ReplayInv
    <2>3. tx.nonce < accounts[tx.from].nonce
      BY DEF CountInv, DroppedIsSpent, Spent
    <2> QED BY <2>1, <2>2, <2>3, TransactionFields
  <1> HIDE DEF txs
  <1>4. Executed' = Executed
    BY <1>1, <1>2 DEF Executed
  <1>5. NonceCountsExecutions'
    BY <1>2, <1>4, CountStays, SameKeepsNonces
  <1> QED BY <1>1, <1>2, <1>3, <1>5 DEF CountInv, DroppedIsSpent, Spent

LEMMA CountExecuteStep ==
  ASSUME TypeInv, TypeInv', SelfSettled, FirstLife, ReplayInv, CountInv,
         NEW tx \in todo, Execute(tx)
  PROVE  CountInv'
  <1>1. /\ phase = "execute" /\ accounts' = AfterExecution(tx) /\ todo' = todo \ {tx}
        /\ UNCHANGED <<blocks, phase, current, dropped>>
    BY DEF Execute
  <1>2. /\ tx \in Transactions /\ tx \in current.txs /\ tx.from \in Address
        /\ accounts[tx.from] # NoAccount
    BY <1>1, TransactionFields DEF TypeInv, TypeOK, ReplayInv, BlockIsNew
  <1>3. Executed' = Executed \cup {tx}
    BY <1>1, <1>2 DEF Executed
  <1>4. tx \notin Executed
    BY <1>1, <1>2 DEF Executed, ReplayInv, BlockIsNew, CountInv, DroppedIsSpent
  <1>5. NonceCountsExecutions'
    <2> SUFFICES ASSUME NEW c \in Address, accounts'[c] # NoAccount
                 PROVE  accounts'[c].nonce = Cardinality({u \in Executed' : u.from = c})
      BY DEF NonceCountsExecutions, Loaded
    <2> DEFINE old == {u \in Executed : u.from = c}
               new == {u \in Executed' : u.from = c}
    <2>1. old \subseteq Transactions
      BY ExecutedIsSpent
    <2>2. IsFiniteSet(old)
      BY <2>1, FS_Subset, TransactionAssumption
    <2>3. CASE accounts[c] = NoAccount
      <3>1. new = {}
        BY <1>2, <1>3, <2>3, AbsentExecutedNothing
      <3>2. accounts'[c].nonce = 0
        BY <1>1, <1>2, <2>3, ExecutionNonces DEF TypeInv
      <3> QED BY <3>1, <3>2, FS_EmptySet
    <2>4. CASE accounts[c] # NoAccount /\ c = tx.from
      <3>1. new = old \cup {tx} /\ tx \notin old
        BY <1>3, <1>4, <2>4
      <3>2. accounts[c].nonce = Cardinality(old)
        BY <2>4 DEF CountInv, NonceCountsExecutions, Loaded
      <3>3. accounts'[c].nonce = accounts[c].nonce + 1
        BY <1>1, <1>2, <2>4, ExecutionNonces DEF TypeInv
      <3> HIDE DEF old, new
      <3>4. Cardinality(new) = Cardinality(old) + 1
        BY <2>2, <3>1, FS_AddElement
      <3> QED BY <3>2, <3>3, <3>4 DEF new
    <2>5. CASE accounts[c] # NoAccount /\ c # tx.from
      <3>1. new = old
        BY <1>3, <2>5
      <3>2. accounts[c].nonce = Cardinality(old)
        BY <2>5 DEF CountInv, NonceCountsExecutions, Loaded
      <3>3. accounts'[c].nonce = accounts[c].nonce + 0
        BY <1>1, <1>2, <2>5, ExecutionNonces DEF TypeInv
      <3>4. accounts[c].nonce \in Nat
        BY <2>5 DEF TypeInv, TypeOK, Account
      <3>5. accounts'[c].nonce = accounts[c].nonce
        BY <3>3, <3>4
      <3>6. accounts'[c].nonce = Cardinality(new)
        <4> HIDE DEF old, new
        <4> QED BY <3>1, <3>2, <3>5
      <3> QED BY <3>6
    <2> QED BY <2>3, <2>4, <2>5
  <1>6. \A u \in dropped : Spent(u)'
    <2>1. Grows(accounts, accounts')
      BY <1>1, <1>2, ExecutionSpends DEF TypeInv
    <2> QED BY <2>1, SpentGrows DEF CountInv, DroppedIsSpent, TypeInv, TypeOK
  <1> QED BY <1>1, <1>5, <1>6 DEF CountInv, DroppedIsSpent

LEMMA CountOtherStep ==
  ASSUME TypeInv, FirstLife, ReplayInv, CountInv,
         \/ \E tx \in todo : Abort(tx)
         \/ Append
         \/ PutBlock \/ PutIndex \/ PutLatest \/ PutFaucet
         \/ \E c \in unsaved : PutAccount(c)
         \/ Finish
  PROVE  CountInv'
  <1>1. accounts' = accounts /\ phase' \notin {"execute", "down"}
    BY DEF Abort, Append, PutBlock, PutIndex, PutLatest, PutFaucet, PutAccount, Finish, memory
  <1>2. CASE \E tx \in todo : Abort(tx)
    <2>1. /\ phase = "execute" /\ blocks' = blocks
          /\ dropped' = dropped \cup (current.txs \ todo)
      BY <1>2 DEF Abort, memory
    <2>2. Executed' = Executed
      BY <1>1, <2>1 DEF Executed
    <2>3. NonceCountsExecutions'
      BY <1>1, <2>2, CountStays, SameKeepsNonces
    <2> QED BY <1>1, <2>1, <2>3 DEF CountInv, DroppedIsSpent, ReplayInv, MinedIsSpent, Spent
  <1>3. CASE Append
    <2>1. /\ phase = "execute" /\ blocks' = blocks \cup {current} /\ todo = {}
          /\ dropped' = dropped
      BY <1>3 DEF Append
    <2>2. Executed' = Executed
      BY <1>1, <2>1 DEF Executed
    <2>3. NonceCountsExecutions'
      BY <1>1, <2>2, CountStays, SameKeepsNonces
    <2> QED BY <1>1, <2>1, <2>3 DEF CountInv, DroppedIsSpent, Spent
  <1>4. CASE \/ PutBlock \/ PutIndex \/ PutLatest \/ PutFaucet
             \/ \E c \in unsaved : PutAccount(c)
             \/ Finish
    <2>1. UNCHANGED <<blocks, dropped>> /\ phase # "execute"
      BY <1>4 DEF PutBlock, PutIndex, PutLatest, PutFaucet, PutAccount, Finish, memory
    <2>2. Executed' = Executed
      BY <1>1, <2>1 DEF Executed
    <2> QED
      BY <1>1, <2>1, <2>2 DEF CountInv, DroppedIsSpent, NonceCountsExecutions, Loaded, Spent
  <1> QED BY <1>2, <1>3, <1>4

LEMMA CountNext ==
  ASSUME PositiveCosts, SelfSettled
  PROVE  TypeInv /\ TypeInv' /\ ReplayInv /\ CountInv /\ [Next]_vars => CountInv'
  <1> SUFFICES ASSUME TypeInv, TypeInv', ReplayInv, CountInv, [Next]_vars, FirstLife'
               PROVE  CountInv'
    BY DEF CountInv
  <1>1. FirstLife
    BY FirstLifeBefore
  <1>2. CASE Next
    BY <1>1, <1>2, CountNodeStep, CountRpcStep, CountBuildStep, CountExecuteStep,
       CountOtherStep DEF Next, Holder, Produce
  <1>3. CASE UNCHANGED vars
    BY <1>3 DEF vars, memory, lock, db, counters, CountInv, FirstLife, DroppedIsSpent,
                NonceCountsExecutions, Loaded, Executed, Spent
  <1> QED BY <1>2, <1>3

\* In a node's first life an account's nonce is the number of its transactions on the
\* chain, in the block being added, or executed in a block given up half-way, when
\* every transaction costs its sender something and a settlement is signed by the
\* user it charges (execution.rs:52, chain.rs:221).
THEOREM NoncesAreExecutions ==
  ASSUME PositiveCosts, SelfSettled
  PROVE  Spec => [](FirstLife => NonceCountsExecutions)
  <1>1. Init => ReplayInv /\ CountInv
    BY DEF Init, ReplayInv, FirstLife, NoncesInMemory, MinedIsSpent, BlockIsNew, NoReplay,
           NoAccounts, CountInv, DroppedIsSpent, NonceCountsExecutions, Loaded
  <1>2. TypeInv /\ TypeInv' /\ ReplayInv /\ CountInv /\ [Next]_vars => ReplayInv' /\ CountInv'
    BY ReplayNext, CountNext
  <1>3. CountInv => (FirstLife => NonceCountsExecutions)
    BY DEF CountInv
  <1> QED BY <1>1, <1>2, <1>3, TypeInvariant, PTL DEF Spec

----------------------------------------------------------------------------
(* No token appears or disappears *)

\* A settlement's fee is not above its gross amount.
SettlementsCovered ==
  \A tx \in Transactions : tx.kind = "Settlement" => tx.charge <= tx.amount

\* Nobody asks the faucet for more than it can ever hold.
DripsCovered == \A amount \in DripAmounts : amount <= InitialSupply

\* The transaction that executes next, when it is an unstake, is not above what its sender
\* holds; execute_transaction does not check it (execution.rs:85).
UnstakesCovered ==
  phase = "execute" =>
    \A tx \in todo :
      tx.kind = "Unstake" /\ (\A u \in todo : ~Before(u, tx)) => tx.amount <= Balance(tx.from)

\* A transaction that is its sender's only one in the block can still pay its cost.
SolePays ==
  phase = "execute" =>
    \A tx \in todo :
      (\A u \in current.txs : u.from = tx.from => u = tx) => Cost(tx) <= Held(accounts, tx.from)

\* The invariant holds while what was issued is an amount: no account can then overflow.
SupplyInv ==
  FirstLife =>
    /\ phase = "down" => issued = 0 /\ burned = 0
    /\ issued < AmountModulus => SupplyConserved /\ SolePays

LEMMA HeldType ==
  ASSUME NEW m \in AccountMap, NEW c \in Address
  PROVE  Held(m, c) \in Amount /\ Held(m, c) \in Nat
  BY ParameterAssumption DEF Held, AccountMap, Account, Amount

LEMMA TotalType ==
  ASSUME NEW m \in AccountMap
  PROVE  Total(m) \in Nat /\ \A c \in Address : Held(m, c) <= Total(m)
  <1> DEFINE f == [c \in Address |-> Held(m, c)]
  <1>1. f \in [Address -> Nat] /\ \A c \in Address : f[c] = Held(m, c)
    BY HeldType
  <1>2. Total(m) = SumFunction(f)
    BY DEF Total
  <1> HIDE DEF f
  <1> QED BY <1>1, <1>2, AddressAssumption, SumNat, SumAtLeast

\* When one account changes, the total changes by as much.
LEMMA TotalChange ==
  ASSUME NEW m \in AccountMap, NEW n \in AccountMap, NEW c \in Address,
         \A d \in Address \ {c} : n[d] = m[d]
  PROVE  Total(n) = Total(m) - Held(m, c) + Held(n, c)
  <1> DEFINE f == [d \in Address |-> Held(m, d)]
             g == [d \in Address |-> Held(n, d)]
  <1>1. f \in [Address -> Int] /\ g \in [Address -> Int]
    BY HeldType
  <1>2. \A d \in Address \ {c} : g[d] = f[d]
    BY DEF Held
  <1>3. Total(m) = SumFunction(f) /\ Total(n) = SumFunction(g)
    BY DEF Total
  <1>4. f[c] = Held(m, c) /\ g[c] = Held(n, c)
    OBVIOUS
  <1> HIDE DEF f, g
  <1>5. SumFunction(g) = SumFunction(f) - f[c] + g[c]
    BY <1>1, <1>2, AddressAssumption, SumUpdate
  <1> QED BY <1>3, <1>4, <1>5

\* A credit that stays an amount adds up, and lowers nobody's balance.
LEMMA CreditTotal ==
  ASSUME NEW m \in AccountMap, NEW c \in Address, NEW x \in Amount,
         Total(m) + x < AmountModulus
  PROVE  /\ Total(Credit(m, c, x)) = Total(m) + x
         /\ \A d \in Address : Held(m, d) <= Held(Credit(m, c, x), d)
  <1> DEFINE n == Credit(m, c, x)
  <1>1. n \in AccountMap
    BY CreditType
  <1>2. Held(m, c) \in Nat /\ Held(m, c) <= Total(m) /\ Total(m) \in Nat /\ x \in Nat
    BY HeldType, TotalType DEF Amount
  <1>3. AmountModulus \in Nat
    BY ParameterAssumption
  <1>4. Held(n, c) = Held(m, c) + x
    <2>1. CASE m[c] = NoAccount
      <3>1. n[c] = NewExternal(x)
        BY <2>1 DEF Credit, AccountMap
      <3>2. NewExternal(x) \in Account
        BY DEF NewExternal, Account
      <3>3. n[c] # NoAccount /\ n[c].balance = x
        BY <3>1, <3>2, SentinelAssumption DEF NewExternal
      <3> QED BY <1>2, <2>1, <3>3 DEF Held
    <2>2. CASE m[c] # NoAccount
      <3>1. Held(m, c) = m[c].balance
        BY <2>2 DEF Held
      <3>2. Wrap(m[c].balance + x) = m[c].balance + x
        BY <1>2, <1>3, <3>1 DEF Wrap
      <3>3. m[c].nonce \in Nat
        BY <2>2 DEF AccountMap, Account
      <3>4. n[c] = [balance |-> m[c].balance + x, nonce |-> m[c].nonce]
        BY <2>2, <3>2 DEF Credit, AccountMap
      <3>5. n[c] # NoAccount
        <4>1. m[c].balance + x \in Amount
          BY <1>2, <1>3, <3>1 DEF Amount
        <4>2. n[c] \in Account
          BY <3>3, <3>4, <4>1 DEF Account
        <4> QED BY <4>2, SentinelAssumption
      <3> QED BY <3>1, <3>4, <3>5 DEF Held
    <2> QED BY <2>1, <2>2
  <1>5. \A d \in Address \ {c} : n[d] = m[d]
    BY DEF Credit, AccountMap
  <1> HIDE DEF n
  <1>6. Total(n) = Total(m) - Held(m, c) + Held(n, c)
    BY <1>1, <1>5, TotalChange
  <1>7. Total(n) = Total(m) + x
    BY <1>2, <1>4, <1>6
  <1>8. ASSUME NEW d \in Address
        PROVE  Held(m, d) <= Held(n, d)
    <2>1. CASE d = c
      BY <1>2, <1>4, <2>1
    <2>2. CASE d # c
      <3>1. Held(n, d) = Held(m, d)
        BY <1>5, <2>2 DEF Held
      <3> QED BY <3>1, HeldType
    <2> QED BY <2>1, <2>2
  <1> QED BY <1>7, <1>8 DEF n

\* A debit of at most what the account holds takes as much from the total.
LEMMA DebitTotal ==
  ASSUME NEW m \in AccountMap, NEW c \in Address, NEW x \in Amount,
         m[c] # NoAccount, x <= Held(m, c)
  PROVE  /\ Total(Debit(m, c, x)) = Total(m) - x
         /\ \A d \in Address \ {c} : Held(Debit(m, c, x), d) = Held(m, d)
  <1> DEFINE n == Debit(m, c, x)
  <1>1. n \in AccountMap
    BY DebitType
  <1>2. Held(m, c) \in Nat /\ Held(m, c) < AmountModulus /\ Total(m) \in Nat /\ x \in Nat
    BY HeldType, TotalType, ParameterAssumption DEF Amount
  <1>3. AmountModulus \in Nat
    BY ParameterAssumption
  <1>4. Held(n, c) = Held(m, c) - x
    <2>1. Held(m, c) = m[c].balance
      BY DEF Held
    <2>2. Wrap(m[c].balance - x) = m[c].balance - x
      BY <1>2, <1>3, <2>1 DEF Wrap
    <2>3. n[c].balance = m[c].balance - x
      BY <2>2 DEF Debit, AccountMap
    <2>4. n[c] # NoAccount
      BY DebitSpends
    <2> QED BY <2>1, <2>3, <2>4 DEF Held
  <1>5. \A d \in Address \ {c} : n[d] = m[d]
    BY DEF Debit, AccountMap
  <1> HIDE DEF n
  <1>6. Total(n) = Total(m) - Held(m, c) + Held(n, c)
    BY <1>1, <1>5, TotalChange
  <1>7. Total(n) = Total(m) - x
    BY <1>2, <1>4, <1>6
  <1>8. \A d \in Address \ {c} : Held(n, d) = Held(m, d)
    BY <1>5 DEF Held
  <1> QED BY <1>7, <1>8 DEF n

\* An execution that takes at most what the sender holds burns what BurnedBy says, moves the
\* rest, and lowers no other balance.
LEMMA ExecutionTotal ==
  ASSUME TypeOK, SelfSettled, SettlementsCovered, NEW tx \in Transactions,
         accounts[tx.from] # NoAccount, Total(accounts) < AmountModulus,
         tx.kind \notin NonceOnly => tx.amount <= Held(accounts, tx.from)
  PROVE  /\ Total(AfterExecution(tx)) + BurnedBy(tx) = Total(accounts)
         /\ \A d \in Address \ {tx.from} :
              Held(accounts, d) <= Held(AfterExecution(tx), d)
  <1>1. accounts \in AccountMap
    BY DEF TypeOK, AccountMap
  <1>2. /\ tx.from \in Address /\ tx.to \in Address /\ Zero \in Address
        /\ tx.amount \in Amount /\ tx.charge \in Amount /\ 0 \in Amount
        /\ tx.amount \in Nat /\ tx.charge \in Nat /\ AmountModulus \in Nat
    BY TransactionFields, AddressAssumption, ParameterAssumption DEF Amount
  <1>3. Total(accounts) \in Nat /\ \A d \in Address : Held(accounts, d) \in Nat
    BY <1>1, TotalType, HeldType
  <1> DEFINE m == Debit(accounts, tx.from, tx.amount)
  <1>4. ASSUME tx.amount <= Held(accounts, tx.from)
        PROVE  /\ m \in AccountMap /\ Total(m) \in Nat
               /\ Total(m) = Total(accounts) - tx.amount
               /\ \A d \in Address \ {tx.from} : Held(m, d) = Held(accounts, d)
    BY <1>1, <1>2, <1>4, DebitType, DebitTotal, TotalType
  <1>5. CASE tx.kind = TransferKind
    <2>1. AfterExecution(tx) = Credit(m, tx.to, tx.amount)
      BY <1>5 DEF AfterExecution, TransferKind, NonceOnly
    <2>2. /\ m \in AccountMap /\ Total(m) \in Nat
          /\ Total(m) = Total(accounts) - tx.amount
          /\ \A d \in Address \ {tx.from} : Held(m, d) = Held(accounts, d)
      BY <1>4, <1>5 DEF NonceOnly, TransferKind
    <2>3. BurnedBy(tx) = 0
      BY <1>5 DEF BurnedBy, TransferKind
    <2> HIDE DEF m
    <2>4. Total(m) + tx.amount < AmountModulus
      BY <1>2, <1>3, <2>2
    <2>5. /\ Total(AfterExecution(tx)) = Total(m) + tx.amount
          /\ \A d \in Address : Held(m, d) <= Held(AfterExecution(tx), d)
      BY <1>2, <2>1, <2>2, <2>4, CreditTotal
    <2>6. Total(AfterExecution(tx)) + BurnedBy(tx) = Total(accounts)
      BY <1>2, <1>3, <2>2, <2>3, <2>5
    <2>7. \A d \in Address \ {tx.from} : Held(accounts, d) <= Held(AfterExecution(tx), d)
      BY <2>2, <2>5
    <2> QED BY <2>6, <2>7
  <1>6. CASE tx.kind \in {"Stake", "CreditPurchase", "Unstake"}
    <2>1. AfterExecution(tx) = m
      BY <1>6 DEF AfterExecution, AfterUnstake, TransferKind
    <2>2. /\ Total(m) = Total(accounts) - tx.amount
          /\ \A d \in Address \ {tx.from} : Held(m, d) = Held(accounts, d)
      BY <1>4, <1>6 DEF NonceOnly
    <2>3. BurnedBy(tx) = tx.amount
      BY <1>6 DEF BurnedBy
    <2> HIDE DEF m
    <2> QED BY <1>2, <1>3, <2>1, <2>2, <2>3
  <1>7. CASE tx.kind = "Settlement"
    <2> DEFINE net == IF tx.amount > tx.charge THEN tx.amount - tx.charge ELSE 0
               p == Credit(m, tx.to, net)
    <2>1. net \in Amount /\ net \in Nat
      BY <1>2, ParameterAssumption DEF Amount
    <2>2. net + tx.charge = tx.amount
      <3>1. tx.charge <= tx.amount
        BY <1>7 DEF SettlementsCovered
      <3> QED BY <1>2, <3>1
    <2>3. AfterExecution(tx) = Credit(p, Zero, tx.charge)
      <3>1. tx.user = tx.from
        BY <1>7 DEF SelfSettled
      <3> QED BY <1>7, <3>1 DEF AfterExecution, AfterSettlement, TransferKind
    <2>4. /\ m \in AccountMap /\ Total(m) \in Nat
          /\ Total(m) = Total(accounts) - tx.amount
          /\ \A d \in Address \ {tx.from} : Held(m, d) = Held(accounts, d)
      BY <1>4, <1>7 DEF NonceOnly
    <2>5. BurnedBy(tx) = 0
      BY <1>7 DEF BurnedBy
    <2> HIDE DEF m, net
    <2>6. Total(m) + net < AmountModulus
      BY <1>2, <1>3, <2>1, <2>2, <2>4
    <2>7. /\ p \in AccountMap
          /\ Total(p) = Total(m) + net
          /\ \A d \in Address : Held(m, d) <= Held(p, d)
      BY <1>2, <2>1, <2>4, <2>6, CreditTotal, CreditType
    <2> HIDE DEF p
    <2>8. Total(p) + tx.charge < AmountModulus
      BY <1>2, <1>3, <2>1, <2>2, <2>4, <2>7
    <2>9. /\ Total(AfterExecution(tx)) = Total(p) + tx.charge
          /\ \A d \in Address : Held(p, d) <= Held(AfterExecution(tx), d)
      BY <1>2, <2>3, <2>7, <2>8, CreditTotal
    <2>10. Total(AfterExecution(tx)) + BurnedBy(tx) = Total(accounts)
      BY <1>2, <1>3, <2>1, <2>2, <2>4, <2>5, <2>7, <2>9
    <2>11. ASSUME NEW d \in Address \ {tx.from}
           PROVE  Held(accounts, d) <= Held(AfterExecution(tx), d)
      <3>1. AfterExecution(tx) \in AccountMap
        BY ExecutionType
      <3>2. Held(m, d) \in Nat /\ Held(p, d) \in Nat /\ Held(AfterExecution(tx), d) \in Nat
        BY <2>4, <2>7, <3>1, HeldType
      <3>3. Held(m, d) = Held(accounts, d) /\ Held(m, d) <= Held(p, d)
            /\ Held(p, d) <= Held(AfterExecution(tx), d)
        BY <2>4, <2>7, <2>9
      <3> QED BY <3>2, <3>3
    <2> QED BY <2>10, <2>11
  <1>8. CASE tx.kind \in NonceOnly
    <2> DEFINE n == Debit(accounts, tx.from, 0)
    <2>1. AfterExecution(tx) = n
      BY <1>8 DEF AfterExecution, NonceOnly, TransferKind
    <2>2. /\ Total(n) = Total(accounts) - 0
          /\ \A d \in Address \ {tx.from} : Held(n, d) = Held(accounts, d)
      BY <1>1, <1>2, <1>3, DebitTotal
    <2>3. BurnedBy(tx) = 0
      BY <1>8 DEF BurnedBy, NonceOnly
    <2> HIDE DEF n
    <2> QED BY <1>3, <2>1, <2>2, <2>3
  <1>9. tx.kind \in Kinds
    BY TransactionFields
  <1> QED BY <1>5, <1>6, <1>7, <1>8, <1>9 DEF Kinds

LEMMA SupplyNodeStep ==
  ASSUME TypeInv, FirstLife, FirstLife', ReplayInv, CountInv, SupplyInv, Boot \/ Crash \/ PutFails
  PROVE  SupplyInv'
  <1>1. CASE PutFails
    <2>1. /\ phase \notin {"down", "execute"} /\ phase' \notin {"down", "execute"}
          /\ UNCHANGED <<accounts, issued, burned>>
      BY <1>1, FailingPutInLife
    <2> QED BY <2>1 DEF SupplyInv, SupplyConserved, SolePays
  <1>2. CASE BootRestore
    BY <1>2 DEF BootRestore, ReplayInv, NoncesInMemory
  <1>3. CASE BootInMemory
    <2>1. accounts' = NoAccounts /\ phase' = "idle" /\ issued' = 0 /\ burned' = 0
      BY <1>3 DEF BootInMemory, CountInv, DroppedIsSpent, SupplyInv
    <2>2. Total(NoAccounts) = 0
      <3> DEFINE f == [c \in Address |-> Held(NoAccounts, c)]
      <3>1. DOMAIN f = Address /\ \A c \in Address : f[c] = 0
        BY DEF Held, NoAccounts
      <3>2. Total(NoAccounts) = SumFunction(f)
        BY DEF Total
      <3> HIDE DEF f
      <3> QED BY <3>1, <3>2, AddressAssumption, SumZero
    <2> QED BY <2>1, <2>2 DEF SupplyInv, SupplyConserved, SolePays
  <1>4. CASE BootFresh
    <2> DEFINE new == [c \in Address |->
                         IF c \in GenesisAccounts THEN NewExternal(InitialSupply) ELSE NoAccount]
               f == [c \in Address |-> Held(new, c)]
    <2>1. /\ accounts' = new /\ phase' = "put_block" /\ burned' = 0
          /\ issued' = InitialSupply * Cardinality(GenesisAccounts)
      BY <1>4 DEF BootFresh, SupplyInv
    <2>2. NewExternal(InitialSupply) # NoAccount
      BY ParameterAssumption, SentinelAssumption DEF NewExternal, Account
    <2>3. \A c \in Address : f[c] = IF c \in GenesisAccounts THEN InitialSupply ELSE 0
      BY <2>2 DEF Held, NewExternal
    <2>4. DOMAIN f = Address /\ Total(new) = SumFunction(f)
      BY DEF Total
    <2>5. InitialSupply \in Nat
      BY ParameterAssumption DEF Amount
    <2> HIDE DEF f, new
    <2>6. Total(new) = InitialSupply * Cardinality(GenesisAccounts)
      BY <2>3, <2>4, <2>5, AddressAssumption, SumConstant
    <2>7. Cardinality(GenesisAccounts) \in Nat
      BY AddressAssumption, FS_Subset, FS_CardinalityType
    <2>8. issued' \in Nat /\ Total(accounts') = issued'
      BY <2>1, <2>5, <2>6, <2>7
    <2> QED BY <2>1, <2>8 DEF SupplyInv, SupplyConserved, SolePays
  <1>5. CASE Crash
    BY <1>5 DEF Crash, FirstLife, TypeInv, TypeOK
  <1> QED BY <1>1, <1>2, <1>3, <1>4, <1>5 DEF Boot

\* A drip takes from the faucet what it gives; what refills the faucet was issued.
LEMMA SupplyFaucetStep ==
  ASSUME TypeInv, TypeInv', FirstLife, ReplayInv, SupplyInv, DripsCovered,
         NEW to \in Address, NEW amount \in DripAmounts, FaucetTransfer(to, amount)
  PROVE  SupplyInv'
  <1> DEFINE entry == [balance |-> Wrap(DripFrom(amount) - amount), nonce |-> FaucetNonce]
             drained == [accounts EXCEPT ![Faucet] = entry]
             from == DripFrom(amount)
             old == Held(accounts, Faucet)
  <1>1. /\ accounts \in AccountMap /\ amount \in Amount /\ Faucet \in Address
        /\ InitialSupply \in Amount /\ amount \in Nat /\ InitialSupply \in Nat
        /\ amount <= InitialSupply /\ AmountModulus \in Nat
    BY ParameterAssumption, AddressAssumption
       DEF TypeInv, TypeOK, AccountMap, DripsCovered, Amount
  <1>2. Balance(Faucet) = old /\ old \in Amount /\ old \in Nat
    BY <1>1, HeldType DEF Balance, Held, ReplayInv, NoncesInMemory
  <1>3. from \in Amount /\ from \in Nat /\ amount <= from /\ old <= from
    <2>1. FaucetBalance = IF accounts[Faucet] = NoAccount THEN InitialSupply ELSE old
      BY <1>1, <1>2 DEF FaucetBalance, ReplayInv, NoncesInMemory
    <2>2. accounts[Faucet] = NoAccount => old = 0
      BY DEF Held
    <2>3. from = IF FaucetBalance < amount THEN InitialSupply ELSE FaucetBalance
      BY DEF DripFrom
    <2> HIDE DEF old, from
    <2> QED BY <1>1, <1>2, <2>1, <2>2, <2>3
  <1>4. Wrap(from - amount) = from - amount
    <2>1. from < AmountModulus
      BY <1>1, <1>3 DEF Amount
    <2> HIDE DEF from
    <2> QED BY <1>1, <1>3, <2>1 DEF Wrap
  <1>5. Refill(amount) = from - old
    BY DEF Refill, Held
  <1>6. entry \in Account
    <2>1. from - amount \in Amount
      <3> HIDE DEF from
      <3> QED BY <1>1, <1>3 DEF Amount
    <2>2. FaucetNonce \in Nat
      BY <1>1 DEF FaucetNonce, Nonce, TypeInv, TypeOK, Account
    <2> QED BY <1>4, <2>1, <2>2 DEF Account
  <1>7. /\ drained \in AccountMap
        /\ \A c \in Address \ {Faucet} : drained[c] = accounts[c]
        /\ Held(drained, Faucet) = from - amount
    <2>1. drained \in AccountMap /\ drained[Faucet] = entry
      <3> HIDE DEF entry
      <3> QED BY <1>1, <1>6 DEF AccountMap
    <2>2. drained[Faucet] # NoAccount
      BY <1>6, <2>1, SentinelAssumption
    <2>3. entry.balance = from - amount
      BY <1>4
    <2>4. \A c \in Address \ {Faucet} : drained[c] = accounts[c]
      BY <1>1 DEF AccountMap
    <2> HIDE DEF entry, from, drained
    <2> QED BY <2>1, <2>2, <2>3, <2>4 DEF Held
  <1>8. /\ accounts' = Credit(drained, to, amount) /\ issued' = issued + Refill(amount)
        /\ phase = "idle" /\ phase' \in {"idle", "put_faucet"} /\ burned' = burned
    BY DEF FaucetTransfer
  <1> HIDE DEF entry, drained, from, old
  <1>9. Total(drained) = Total(accounts) - old + (from - amount)
    BY <1>1, <1>7, TotalChange DEF old
  <1>10. Total(accounts) \in Nat /\ burned \in Nat /\ issued \in Int
    BY <1>1, TotalType DEF TypeInv, TypeOK
  <1>11. ASSUME issued' < AmountModulus
         PROVE  SupplyConserved'
    <2> DEFINE next == issued'
    <2>1. next = issued + (from - old) /\ next < AmountModulus
      BY <1>5, <1>8, <1>11
    <2> HIDE DEF next
    <2>2. issued < AmountModulus
      BY <1>1, <1>2, <1>3, <1>10, <2>1
    <2>3. Total(accounts) + burned = issued
      BY <1>8, <2>2 DEF SupplyInv, SupplyConserved
    <2>4. Total(drained) + amount = next - burned
      BY <1>1, <1>2, <1>3, <1>9, <1>10, <2>1, <2>3
    <2>5. next \in Int /\ Total(drained) + amount < AmountModulus
      BY <1>1, <1>2, <1>3, <1>10, <2>1, <2>4
    <2>6. Total(accounts') = Total(drained) + amount
      BY <1>1, <1>7, <1>8, <2>5, CreditTotal
    <2>7. Total(accounts') + burned = next
      BY <1>10, <2>4, <2>5, <2>6
    <2> QED BY <1>8, <2>7 DEF SupplyConserved, next
  <1> QED BY <1>8, <1>11 DEF SupplyInv, SolePays

LEMMA SupplyBuildStep ==
  ASSUME TypeInv, FirstLife, PositiveCosts, ReplayInv, SupplyInv,
         NEW taken \in SUBSET mempool, BuildBlock(taken)
  PROVE  SupplyInv'
  <1> DEFINE txs == {tx \in taken : Includable(tx)}
  <1>1. todo' = txs /\ phase = "idle" /\ phase' = "execute"
        /\ UNCHANGED <<accounts, issued, burned>>
    BY DEF BuildBlock
  <1>2. ASSUME NEW tx \in txs
        PROVE  Cost(tx) <= Held(accounts, tx.from)
    <2>1. tx \in Transactions /\ Includable(tx)
      BY DEF TypeInv, TypeOK
    <2>2. accounts[tx.from] # NoAccount
      BY <2>1, IncludableIsNew DEF TypeInv, ReplayInv
    <2>3. Balance(tx.from) = Held(accounts, tx.from)
      BY <2>2 DEF Balance, Held
    <2>4. Cost(tx) \in Nat /\ Held(accounts, tx.from) \in Nat
      <3>1. accounts \in AccountMap /\ tx.from \in Address
        BY <2>1, TransactionFields DEF TypeInv, TypeOK, AccountMap
      <3> QED BY <2>1, <3>1, HeldType, CostType
    <2> QED BY <2>1, <2>3, <2>4 DEF Includable
  <1> HIDE DEF txs
  <1>3. SolePays'
    BY <1>1, <1>2 DEF SolePays
  <1> QED BY <1>1, <1>3 DEF SupplyInv, SupplyConserved

LEMMA SupplyExecuteStep ==
  ASSUME TypeInv, SelfSettled, SettlementsCovered, FirstLife, ReplayInv, SupplyInv,
         UnstakesCovered, NEW tx \in todo, Execute(tx)
  PROVE  SupplyInv'
  <1>1. /\ phase = "execute" /\ accounts' = AfterExecution(tx) /\ todo' = todo \ {tx}
        /\ burned' = burned + BurnedBy(tx) /\ ~ExecutionFails(tx)
        /\ \A u \in todo : ~Before(u, tx)
        /\ UNCHANGED <<phase, current, issued>>
    BY DEF Execute
  <1> SUFFICES ASSUME issued < AmountModulus
               PROVE  SupplyConserved' /\ SolePays'
    BY <1>1 DEF SupplyInv
  <1>2. /\ accounts \in AccountMap /\ tx \in Transactions /\ tx.from \in Address
        /\ accounts[tx.from] # NoAccount /\ tx.amount \in Nat
    BY <1>1, TransactionFields DEF TypeInv, TypeOK, ReplayInv, BlockIsNew, AccountMap, Amount
  <1>3. Held(accounts, tx.from) \in Nat /\ Balance(tx.from) = Held(accounts, tx.from)
    BY <1>2, HeldType DEF Balance, Held
  <1>4. tx.kind \notin NonceOnly => tx.amount <= Held(accounts, tx.from)
    <2>1. tx.kind = "Unstake" => tx.amount <= Held(accounts, tx.from)
      BY <1>1, <1>3 DEF UnstakesCovered
    <2>2. tx.kind \in {TransferKind, "Stake", "CreditPurchase", "Settlement"} =>
            tx.amount <= Held(accounts, tx.from)
      BY <1>1, <1>2, <1>3 DEF ExecutionFails
    <2>3. tx.kind \in Kinds
      BY <1>2, TransactionFields
    <2> QED BY <2>1, <2>2, <2>3 DEF Kinds
  <1>5. Total(accounts) + burned = issued /\ SolePays
    BY <1>1 DEF SupplyInv, SupplyConserved
  <1>6. /\ Total(accounts) \in Nat /\ burned \in Nat /\ issued \in Int
        /\ AmountModulus \in Nat
    BY <1>2, TotalType, ParameterAssumption DEF TypeInv, TypeOK
  <1>7. Total(accounts) < AmountModulus
    BY <1>5, <1>6
  <1>8. AfterExecution(tx) \in AccountMap /\ BurnedBy(tx) \in Nat
    BY <1>2, ExecutionType DEF BurnedBy, TypeInv
  <1>9. /\ Total(AfterExecution(tx)) + BurnedBy(tx) = Total(accounts)
        /\ \A d \in Address \ {tx.from} :
             Held(accounts, d) <= Held(AfterExecution(tx), d)
    BY <1>2, <1>4, <1>7, ExecutionTotal DEF TypeInv
  <1>10. SupplyConserved'
    <2>1. Total(AfterExecution(tx)) \in Nat
      BY <1>8, TotalType
    <2>2. Total(AfterExecution(tx)) + (burned + BurnedBy(tx)) = issued
      BY <1>5, <1>6, <1>8, <1>9, <2>1
    <2> QED BY <1>1, <2>2 DEF SupplyConserved
  <1>11. SolePays'
    <2> SUFFICES ASSUME NEW u \in todo', \A v \in current.txs : v.from = u.from => v = u
                 PROVE  Cost(u) <= Held(accounts', u.from)
      BY <1>1 DEF SolePays
    <2>1. u \in todo /\ u # tx /\ tx \in current.txs /\ u \in Transactions
      BY <1>1 DEF ReplayInv, BlockIsNew, TypeInv, TypeOK
    <2>2. Cost(u) <= Held(accounts, u.from)
      BY <1>1, <1>5, <2>1 DEF SolePays
    <2>3. u.from \in Address \ {tx.from}
      BY <2>1, TransactionFields
    <2>4. Held(accounts, u.from) <= Held(accounts', u.from)
      BY <1>1, <1>9, <2>3
    <2>5. Cost(u) \in Nat /\ Held(accounts, u.from) \in Nat /\ Held(accounts', u.from) \in Nat
      <3>1. Cost(u) \in Nat
        BY <2>1, CostType
      <3> QED BY <1>1, <1>2, <1>8, <2>3, <3>1, HeldType
    <2> DEFINE x == Cost(u)
               y == Held(accounts, u.from)
               z == Held(accounts', u.from)
    <2> HIDE DEF x, y, z
    <2>6. x \in Nat /\ y \in Nat /\ z \in Nat /\ x <= y /\ y <= z
      BY <2>2, <2>4, <2>5 DEF x, y, z
    <2>7. x <= z
      BY <2>6
    <2> QED BY <2>7 DEF x, z
  <1> QED BY <1>10, <1>11

LEMMA SupplyOtherStep ==
  ASSUME TypeInv, SupplyInv,
         \/ \E tx \in Transactions : Submit(tx)
         \/ SkipTick \/ Observe
         \/ \E tx \in todo : Abort(tx)
         \/ Append
         \/ PutBlock \/ PutIndex \/ PutLatest \/ PutFaucet
         \/ \E c \in unsaved : PutAccount(c)
         \/ Finish
  PROVE  FirstLife => SupplyInv'
  <1>1. UNCHANGED <<accounts, issued, burned>> /\ phase # "down" /\ phase' # "down"
    BY DEF Submit, SkipTick, Observe, Abort, Append, PutBlock, PutIndex, PutLatest, PutFaucet,
           PutAccount, Finish, memory, vars, lock
  <1>2. phase' # "execute" \/ UNCHANGED <<phase, current, todo>>
    BY DEF Submit, SkipTick, Observe, Abort, Append, PutBlock, PutIndex, PutLatest, PutFaucet,
           PutAccount, Finish, vars, lock
  <1> QED BY <1>1, <1>2 DEF SupplyInv, SupplyConserved, SolePays

LEMMA SupplyNext ==
  ASSUME PositiveCosts, SelfSettled, SettlementsCovered, DripsCovered
  PROVE  /\ TypeInv /\ TypeInv' /\ ReplayInv /\ CountInv /\ SupplyInv /\ UnstakesCovered
         /\ [Next]_vars
         => SupplyInv'
  <1> SUFFICES ASSUME TypeInv, TypeInv', ReplayInv, CountInv, SupplyInv, UnstakesCovered,
                      [Next]_vars, FirstLife'
               PROVE  SupplyInv'
    BY DEF SupplyInv
  <1>1. FirstLife
    BY FirstLifeBefore
  <1>2. CASE Next
    BY <1>1, <1>2, SupplyNodeStep, SupplyFaucetStep, SupplyBuildStep, SupplyExecuteStep,
       SupplyOtherStep DEF Next, Holder, Produce
  <1>3. CASE UNCHANGED vars
    BY <1>3 DEF vars, memory, lock, db, counters, SupplyInv, FirstLife, SupplyConserved, SolePays
  <1> QED BY <1>2, <1>3

LEMMA SupplyInvariant ==
  ASSUME PositiveCosts, SelfSettled, SettlementsCovered, DripsCovered
  PROVE  Spec /\ []UnstakesCovered => [](TypeInv /\ ReplayInv /\ SupplyInv)
  <1>1. Init => ReplayInv /\ CountInv /\ SupplyInv
    BY DEF Init, ReplayInv, FirstLife, NoncesInMemory, MinedIsSpent, BlockIsNew, NoReplay,
           NoAccounts, CountInv, DroppedIsSpent, NonceCountsExecutions, Loaded, SupplyInv,
           SupplyConserved, SolePays
  <1>2. TypeInv /\ TypeInv' /\ ReplayInv /\ CountInv /\ [Next]_vars => ReplayInv' /\ CountInv'
    BY ReplayNext, CountNext
  <1>3. /\ TypeInv /\ TypeInv' /\ ReplayInv /\ CountInv /\ SupplyInv /\ UnstakesCovered
        /\ [Next]_vars
        => SupplyInv'
    BY SupplyNext
  <1> QED BY <1>1, <1>2, <1>3, TypeInvariant, PTL DEF Spec

\* In a node's first life what the accounts hold and what was burned is what was issued, at
\* every point of a block's execution, as long as the supply is an amount: if every
\* transaction costs its sender something, settlements are signed by the user they
\* charge and do not charge above their gross amount, no drip is above the initial
\* supply, and no unstake that executes is above its sender's balance, which the code
\* does not check (execution.rs:52, 85, chain.rs:221).
THEOREM SupplyIsConserved ==
  ASSUME PositiveCosts, SelfSettled, SettlementsCovered, DripsCovered
  PROVE  Spec /\ []UnstakesCovered =>
           [](FirstLife /\ issued < AmountModulus => SupplyConserved)
  <1>1. SupplyInv => (FirstLife /\ issued < AmountModulus => SupplyConserved)
    BY DEF SupplyInv
  <1> QED BY <1>1, SupplyInvariant, PTL

\* Under the same conditions a transfer that is its sender's only transaction in a block
\* executes, whatever the other transactions of the block do, if its amount and fee
\* together are an amount (execution.rs:167, 191, 197).
THEOREM SoleTransfersExecute ==
  ASSUME PositiveCosts, SelfSettled, SettlementsCovered, DripsCovered
  PROVE  Spec /\ []UnstakesCovered =>
           [](FirstLife /\ issued < AmountModulus => SoleTransferExecutes)
  <1>1. TypeInv /\ ReplayInv /\ SupplyInv =>
          (FirstLife /\ issued < AmountModulus => SoleTransferExecutes)
    <2> SUFFICES ASSUME TypeInv, ReplayInv, SupplyInv, FirstLife, issued < AmountModulus,
                        phase = "execute", NEW tx \in todo, tx.kind = TransferKind,
                        tx.amount + Fee(tx) < AmountModulus,
                        \A u \in current.txs : u.from = tx.from => u = tx
                 PROVE  ~ExecutionFails(tx)
      BY DEF SoleTransferExecutes
    <2>1. tx \in Transactions /\ accounts[tx.from] # NoAccount /\ accounts \in AccountMap
      BY DEF TypeInv, TypeOK, ReplayInv, BlockIsNew, AccountMap
    <2>2. tx.from \in Address /\ tx.amount \in Nat
      BY <2>1, TransactionFields DEF Amount
    <2>3. Cost(tx) <= Held(accounts, tx.from)
      BY DEF SupplyInv, SolePays
    <2>4. Held(accounts, tx.from) \in Nat /\ Balance(tx.from) = Held(accounts, tx.from)
      BY <2>1, <2>2, HeldType DEF Balance, Held
    <2>5. tx.amount <= Cost(tx) /\ Cost(tx) \in Nat
      BY <2>1, CostType
    <2>6. tx.amount <= Balance(tx.from)
      BY <2>2, <2>3, <2>4, <2>5
    <2> QED BY <2>2, <2>4, <2>6 DEF ExecutionFails
  <1> QED BY <1>1, SupplyInvariant, PTL

----------------------------------------------------------------------------
(* The chain in memory is linked *)

\* The blocks of memory, of the database and in progress have ids of their own, which no
\* later block takes.
Known == blocks \cup dbBlocks \cup ({current} \ {NoBlock})
IdsUnique ==
  \A b \in Known : /\ b.id < nextId
                   /\ b.id = 0 => b = Genesis
                   /\ \A c \in Known : b.id = c.id => b = c

\* Memory holds one block at every height up to the head's, each on the one below.
MemoryLinked ==
  phase # "down" =>
    /\ \E b \in blocks : b.id = head /\ b.height = height
    /\ \A b \in blocks : b.height <= height
    /\ \A h \in 0 .. height : \E b \in blocks : b.height = h
    /\ \A b, c \in blocks : b.height = c.height => b = c
    /\ \A b \in blocks :
         IF b.height = 0 THEN b = Genesis
         ELSE \E p \in blocks : p.id = b.parent /\ p.height = b.height - 1

\* So does the database, up to the latest height, along its index.
StoredLinked ==
  \A h \in 0 .. dbLatest : \E b \in dbBlocks :
    /\ b.id = dbIndex[h] /\ b.height = h
    /\ IF h = 0 THEN b = Genesis ELSE b.parent = dbIndex[h - 1]

\* Between two blocks the head is the stored one; the block in progress extends it.
HeadIsStored ==
  /\ persist /\ phase \in {"idle", "execute", "put_faucet", "put_accounts"} =>
       head = dbIndex[dbLatest]
  /\ phase = "execute" => current.parent = head
  /\ phase \in {"put_block", "put_index", "put_latest"} =>
       /\ head = current.id
       /\ IF current.height = 0 THEN current = Genesis
          ELSE current.parent = dbIndex[current.height - 1]

LinkInv == ioErrors = 0 => IdsUnique /\ MemoryLinked /\ StoredLinked /\ HeadIsStored

\* One block at each height from 0 to n makes n + 1 blocks.
LEMMA OneBlockPerHeight ==
  ASSUME NEW S \in SUBSET Block, NEW n \in Nat,
         \A b \in S : b.height <= n,
         \A h \in 0 .. n : \E b \in S : b.height = h,
         \A b, c \in S : b.height = c.height => b = c
  PROVE  Cardinality(S) = n + 1
  <1> DEFINE f == [b \in S |-> b.height]
  <1>1. f \in [S -> 0 .. n]
    BY DEF Block
  <1>2. f \in Injection(S, 0 .. n)
    BY <1>1 DEF Injection, IsInjective
  <1>3. f \in Surjection(S, 0 .. n)
    BY <1>1 DEF Surjection
  <1>4. IsFiniteSet(0 .. n) /\ Cardinality(0 .. n) = n + 1
    <2>1. Cardinality(0 .. n) = IF 0 > n THEN 0 ELSE n - 0 + 1
      BY FS_Interval
    <2> QED BY <2>1, FS_Interval
  <1> HIDE DEF f
  <1>5. Cardinality(S) = Cardinality(0 .. n)
    BY <1>2, <1>3, <1>4, FS_Injection
  <1> QED BY <1>4, <1>5

LEMMA LinkedInv ==
  ASSUME TypeInv, LinkInv, ioErrors = 0
  PROVE  ChainLinked
  <1> SUFFICES ASSUME phase # "down"
               PROVE  Cardinality(blocks) = height + 1
    BY DEF LinkInv, MemoryLinked, ChainLinked
  <1> QED BY OneBlockPerHeight DEF LinkInv, MemoryLinked, TypeInv, TypeOK

LEMMA LinkInit == Init => LinkInv
  BY DEF Init, LinkInv, IdsUnique, Known, MemoryLinked, StoredLinked, HeadIsStored

\* The operations that leave the chain alone, in memory and in the database.
LEMMA LinkQuietStep ==
  ASSUME TypeInv, LinkInv, ioErrors = 0,
         \/ \E tx \in Transactions : Submit(tx)
         \/ \E to \in Address, amount \in DripAmounts : FaucetTransfer(to, amount)
         \/ SkipTick \/ Observe
         \/ \E tx \in todo : Execute(tx) \/ Abort(tx)
         \/ PutFaucet
         \/ \E c \in unsaved : PutAccount(c)
         \/ Finish
  PROVE  LinkInv'
  <1>1. UNCHANGED <<blocks, head, height, persist, dbBlocks, dbIndex, dbLatest, nextId>>
    BY DEF Submit, FaucetTransfer, SkipTick, Observe, Execute, Abort, PutFaucet, PutAccount,
           Finish, memory, db, vars
  <1>2. current' \in {current, NoBlock} /\ phase # "down" /\ phase' # "down"
    BY DEF Submit, FaucetTransfer, SkipTick, Observe, Execute, Abort, PutFaucet, PutAccount,
           Finish, memory, lock, db, vars
  <1>3. \/ phase' = phase /\ current' = current
        \/ /\ phase \in {"idle", "execute", "put_faucet", "put_accounts"}
           /\ phase' \in {"idle", "put_faucet", "put_accounts"}
    BY DEF Submit, FaucetTransfer, SkipTick, Observe, Execute, Abort, PutFaucet, PutAccount,
           Finish, memory, lock, db, vars
  <1>4. IdsUnique'
    <2>1. Known' \subseteq Known
      BY <1>1, <1>2 DEF Known
    <2> QED BY <1>1, <2>1 DEF LinkInv, IdsUnique
  <1>5. MemoryLinked' /\ StoredLinked'
    BY <1>1, <1>2 DEF LinkInv, MemoryLinked, StoredLinked
  <1>6. HeadIsStored'
    BY <1>1, <1>3 DEF LinkInv, HeadIsStored
  <1> QED BY <1>4, <1>5, <1>6 DEF LinkInv

LEMMA LinkBuildStep ==
  ASSUME TypeInv, StorageInv, LinkInv, ioErrors = 0, NEW taken \in SUBSET mempool,
         BuildBlock(taken)
  PROVE  LinkInv'
  <1>1. /\ UNCHANGED <<blocks, head, height, persist, dbBlocks, dbIndex, dbLatest>>
        /\ phase = "idle" /\ phase' = "execute" /\ nextId' = nextId + 1
        /\ current'.id = nextId /\ current'.parent = head
    BY DEF BuildBlock, db
  <1>2. current = NoBlock
    BY <1>1 DEF StorageInv, PutsInOrder
  <1>3. \A b \in Known : b.id \in Nat /\ b.id < nextId
    BY DEF Known, LinkInv, IdsUnique, TypeInv, TypeOK, Block
  <1>4. Known' \subseteq Known \cup {current'}
    BY <1>1 DEF Known
  <1>5. nextId \in Nat /\ nextId >= 1
    BY DEF TypeInv, TypeOK, HeightsBounded
  <1>6. IdsUnique'
    <2> DEFINE new == current'
    <2>1. new.id = nextId /\ Known' \subseteq Known \cup {new}
      BY <1>1, <1>4
    <2>2. \A b \in Known : b.id # new.id
      BY <1>3, <1>5, <2>1
    <2> HIDE DEF new
    <2>3. ASSUME NEW b \in Known'
          PROVE  /\ b.id < nextId + 1
                 /\ b.id = 0 => b = Genesis
                 /\ \A c \in Known' : b.id = c.id => b = c
      <3>1. CASE b \in Known
        BY <1>3, <1>5, <2>1, <2>2, <3>1 DEF LinkInv, IdsUnique
      <3>2. CASE b = new
        BY <1>3, <1>5, <2>1, <2>2, <3>2
      <3> QED BY <2>1, <3>1, <3>2
    <2> QED BY <1>1, <2>3 DEF IdsUnique
  <1>7. MemoryLinked' /\ StoredLinked'
    BY <1>1 DEF LinkInv, MemoryLinked, StoredLinked
  <1>8. HeadIsStored'
    BY <1>1 DEF LinkInv, HeadIsStored
  <1> QED BY <1>6, <1>7, <1>8 DEF LinkInv

LEMMA LinkAppend ==
  ASSUME TypeInv, StorageInv, LinkInv, ioErrors = 0, Append
  PROVE  LinkInv'
  <1>1. /\ phase = "execute" /\ blocks' = blocks \cup {current} /\ head' = current.id
        /\ height' = height + 1
        /\ UNCHANGED <<persist, dbBlocks, dbIndex, dbLatest, nextId>>
        /\ IF persist THEN phase' = "put_block" /\ current' = current
           ELSE phase' = "idle" /\ current' = NoBlock
    BY DEF Append, db
  <1>2. /\ current # NoBlock /\ current \in Block /\ current.height = height + 1
        /\ current.parent = head /\ height \in Nat /\ current.height \in Nat
    BY <1>1 DEF TypeInv, TypeOK, HeightsBounded, LinkInv, HeadIsStored, Block
  <1>3. IdsUnique'
    <2>1. Known' \subseteq Known
      BY <1>1, <1>2 DEF Known
    <2> QED BY <1>1, <2>1 DEF LinkInv, IdsUnique
  <1>4. MemoryLinked'
    <2>1. \A b \in blocks : b.height \in Nat /\ b.height <= height
      BY <1>1 DEF LinkInv, MemoryLinked, TypeInv, TypeOK, Block
    <2>2. \A b \in blocks' : b.height <= height + 1
      BY <1>1, <1>2, <2>1
    <2>3. ASSUME NEW h \in 0 .. height + 1
          PROVE  \E b \in blocks' : b.height = h
      <3>1. CASE h = height + 1
        BY <1>1, <1>2, <3>1
      <3>2. CASE h # height + 1
        <4>1. h \in 0 .. height
          BY <1>2, <3>2
        <4> QED BY <1>1, <4>1 DEF LinkInv, MemoryLinked
      <3> QED BY <3>1, <3>2
    <2>4. \A b, c \in blocks' : b.height = c.height => b = c
      <3>1. \A b \in blocks : b.height # current.height
        BY <1>2, <2>1
      <3> QED BY <1>1, <3>1 DEF LinkInv, MemoryLinked
    <2>5. ASSUME NEW b \in blocks'
          PROVE  IF b.height = 0 THEN b = Genesis
                 ELSE \E p \in blocks' : p.id = b.parent /\ p.height = b.height - 1
      <3>1. CASE b \in blocks
        BY <1>1, <3>1 DEF LinkInv, MemoryLinked
      <3>2. CASE b = current
        <4>1. PICK p \in blocks : p.id = head /\ p.height = height
          BY <1>1 DEF LinkInv, MemoryLinked
        <4>2. b.height # 0 /\ p.height = b.height - 1 /\ p.id = b.parent
          BY <1>2, <3>2, <4>1
        <4> QED BY <1>1, <4>2
      <3> QED BY <1>1, <3>1, <3>2
    <2>6. \E b \in blocks' : b.id = head' /\ b.height = height'
      BY <1>1, <1>2
    <2> QED BY <1>1, <2>2, <2>3, <2>4, <2>5, <2>6 DEF MemoryLinked
  <1>5. StoredLinked'
    BY <1>1 DEF LinkInv, StoredLinked
  <1>6. HeadIsStored'
    <2>1. CASE persist
      <3>1. head = dbIndex[dbLatest] /\ height = dbLatest
        BY <1>1, <2>1 DEF LinkInv, HeadIsStored, StorageInv, PutsInOrder
      <3>2. current.height # 0 /\ current.height - 1 = dbLatest
        BY <1>2, <3>1
      <3> QED BY <1>1, <1>2, <2>1, <3>1, <3>2 DEF HeadIsStored
    <2>2. CASE ~persist
      BY <1>1, <2>2 DEF HeadIsStored
    <2> QED BY <2>1, <2>2
  <1> QED BY <1>3, <1>4, <1>5, <1>6 DEF LinkInv

LEMMA LinkPutStep ==
  ASSUME TypeInv, StorageInv, LinkInv, ioErrors = 0, PutBlock \/ PutIndex \/ PutLatest
  PROVE  LinkInv'
  <1>1. /\ phase \in {"put_block", "put_index", "put_latest"}
        /\ UNCHANGED <<blocks, head, height, persist, current, nextId>>
        /\ dbBlocks' \in {dbBlocks, dbBlocks \cup {current}}
        /\ phase' \in {"put_index", "put_latest", "put_accounts"}
    BY DEF PutBlock, PutIndex, PutLatest, memory
  <1>2. /\ current # NoBlock /\ current.height = height /\ height = dbLatest + 1
        /\ head = current.id /\ height \in Nat /\ dbLatest \in Int
        /\ current.height \in Heights /\ current.height \in Nat /\ current.id \in Nat
        /\ IF current.height = 0 THEN current = Genesis
           ELSE current.parent = dbIndex[current.height - 1]
    BY <1>1, ParameterAssumption
       DEF TypeInv, TypeOK, HeightsBounded, StorageInv, PutsInOrder, LinkInv, HeadIsStored,
           Block, Heights
  <1>3. IdsUnique'
    <2>1. Known' \subseteq Known
      BY <1>1, <1>2 DEF Known
    <2> QED BY <1>1, <2>1 DEF LinkInv, IdsUnique
  <1>4. MemoryLinked'
    BY <1>1 DEF LinkInv, MemoryLinked
  <1>5. CASE PutBlock
    <2>1. /\ dbBlocks' = dbBlocks \cup {current} /\ phase' = "put_index"
          /\ UNCHANGED <<dbIndex, dbLatest>>
      BY <1>5 DEF PutBlock
    <2>2. StoredLinked' /\ HeadIsStored'
      BY <1>1, <1>2, <2>1 DEF LinkInv, StoredLinked, HeadIsStored
    <2> QED BY <1>3, <1>4, <2>2 DEF LinkInv
  <1>6. CASE PutIndex
    <2>1. /\ dbIndex' = [dbIndex EXCEPT ![current.height] = current.id]
          /\ phase' = "put_latest" /\ UNCHANGED <<dbBlocks, dbLatest>>
      BY <1>6 DEF PutIndex
    <2>2. \A h \in Int : h # current.height => dbIndex'[h] = dbIndex[h]
      BY <1>2, <2>1 DEF TypeInv, TypeOK
    <2>3. StoredLinked'
      <3> SUFFICES ASSUME NEW h \in 0 .. dbLatest
                   PROVE  \E b \in dbBlocks :
                            /\ b.id = dbIndex'[h] /\ b.height = h
                            /\ IF h = 0 THEN b = Genesis ELSE b.parent = dbIndex'[h - 1]
        BY <2>1 DEF StoredLinked
      <3>1. h \in Int /\ h - 1 \in Int /\ h # current.height /\ h - 1 # current.height
        BY <1>2
      <3>2. dbIndex'[h] = dbIndex[h] /\ dbIndex'[h - 1] = dbIndex[h - 1]
        BY <2>2, <3>1
      <3> QED BY <3>2 DEF LinkInv, StoredLinked
    <2>4. dbIndex'[current.height - 1] = dbIndex[current.height - 1]
      BY <1>2, <2>2
    <2>5. HeadIsStored'
      BY <1>1, <1>2, <2>1, <2>4 DEF HeadIsStored
    <2> QED BY <1>3, <1>4, <2>3, <2>5 DEF LinkInv
  <1>7. CASE PutLatest
    <2>1. /\ dbLatest' = current.height /\ phase' = "put_accounts"
          /\ UNCHANGED <<dbBlocks, dbIndex>>
      BY <1>2, <1>7 DEF PutLatest
    <2>2. current \in dbBlocks /\ dbIndex[current.height] = current.id
      BY <1>7 DEF PutLatest, StorageInv, PutsInOrder
    <2>3. StoredLinked'
      <3> SUFFICES ASSUME NEW h \in 0 .. current.height
                   PROVE  \E b \in dbBlocks :
                            /\ b.id = dbIndex[h] /\ b.height = h
                            /\ IF h = 0 THEN b = Genesis ELSE b.parent = dbIndex[h - 1]
        BY <2>1 DEF StoredLinked
      <3>1. CASE h = current.height
        BY <1>2, <2>2, <3>1
      <3>2. CASE h # current.height
        <4>1. h \in 0 .. dbLatest
          BY <1>2, <3>2
        <4> QED BY <4>1 DEF LinkInv, StoredLinked
      <3> QED BY <3>1, <3>2
    <2>4. HeadIsStored'
      BY <1>1, <1>2, <2>1, <2>2 DEF HeadIsStored
    <2> QED BY <1>3, <1>4, <2>3, <2>4 DEF LinkInv
  <1> QED BY <1>5, <1>6, <1>7

LEMMA LinkRestore ==
  ASSUME TypeInv, StorageInv, LinkInv, ioErrors = 0, BootRestore
  PROVE  LinkInv'
  <1>1. /\ phase = "down" /\ persist /\ dbLatest >= 0 /\ phase' = "idle"
        /\ height' = dbLatest /\ head' = dbIndex[dbLatest]
        /\ blocks' = UNION {StoredBlock(h) : h \in 0 .. dbLatest}
        /\ UNCHANGED <<current, persist, dbBlocks, dbIndex, dbLatest, nextId>>
    BY DEF BootRestore, db
  <1>2. dbLatest \in Nat
    BY <1>1, ParameterAssumption DEF TypeInv, TypeOK, Heights
  <1>3. \A b \in dbBlocks : b \in Known
    BY DEF Known
  <1>4. ASSUME NEW b \in blocks'
        PROVE  /\ b \in dbBlocks /\ b.height \in 0 .. dbLatest /\ b.id = dbIndex[b.height]
               /\ IF b.height = 0 THEN b = Genesis ELSE b.parent = dbIndex[b.height - 1]
    <2>1. PICK h \in 0 .. dbLatest : b \in StoredBlock(h)
      BY <1>1
    <2>2. b \in dbBlocks /\ b.id = dbIndex[h]
      BY <2>1 DEF StoredBlock
    <2>3. PICK c \in dbBlocks : /\ c.id = dbIndex[h] /\ c.height = h
                               /\ IF h = 0 THEN c = Genesis ELSE c.parent = dbIndex[h - 1]
      BY DEF LinkInv, StoredLinked
    <2>4. b = c
      BY <1>3, <2>2, <2>3 DEF LinkInv, IdsUnique
    <2> QED BY <2>2, <2>3, <2>4
  <1>5. ASSUME NEW h \in 0 .. dbLatest
        PROVE  \E b \in blocks' : b.id = dbIndex[h] /\ b.height = h
    <2>1. PICK c \in dbBlocks : c.id = dbIndex[h] /\ c.height = h
      BY DEF LinkInv, StoredLinked
    <2>2. c \in StoredBlock(h)
      BY <2>1 DEF StoredBlock
    <2>3. c \in blocks'
      BY <1>1, <2>2
    <2> QED BY <2>1, <2>3
  <1>6. MemoryLinked'
    <2>1. \E b \in blocks' : b.id = head' /\ b.height = height'
      <3>1. dbLatest \in 0 .. dbLatest
        BY <1>2
      <3> QED BY <1>1, <1>5, <3>1
    <2>2. \A b \in blocks' : b.height <= dbLatest
      BY <1>4
    <2>3. \A h \in 0 .. dbLatest : \E b \in blocks' : b.height = h
      BY <1>5
    <2>4. \A b, c \in blocks' : b.height = c.height => b = c
      BY <1>3, <1>4 DEF LinkInv, IdsUnique
    <2>5. ASSUME NEW b \in blocks'
          PROVE  IF b.height = 0 THEN b = Genesis
                 ELSE \E p \in blocks' : p.id = b.parent /\ p.height = b.height - 1
      <3>1. CASE b.height = 0
        BY <1>4, <3>1
      <3>2. CASE b.height # 0
        <4>1. b.height - 1 \in 0 .. dbLatest
          BY <1>2, <1>4, <3>2
        <4>2. PICK p \in blocks' : p.id = dbIndex[b.height - 1] /\ p.height = b.height - 1
          BY <1>5, <4>1
        <4>3. p.id = b.parent
          BY <1>4, <3>2, <4>2
        <4> QED BY <3>2, <4>2, <4>3
      <3> QED BY <3>1, <3>2
    <2> QED BY <1>1, <2>1, <2>2, <2>3, <2>4, <2>5 DEF MemoryLinked
  <1>7. IdsUnique'
    <2>1. Known' \subseteq Known
      BY <1>1, <1>4 DEF Known
    <2> QED BY <1>1, <2>1 DEF LinkInv, IdsUnique
  <1>8. StoredLinked' /\ HeadIsStored'
    BY <1>1 DEF LinkInv, StoredLinked, HeadIsStored
  <1> QED BY <1>6, <1>7, <1>8 DEF LinkInv

LEMMA LinkStart ==
  ASSUME TypeInv, StorageInv, LinkInv, ioErrors = 0, BootInMemory \/ BootFresh \/ Crash
  PROVE  LinkInv'
  <1>1. UNCHANGED <<persist, dbBlocks, dbIndex, dbLatest, nextId>>
    BY DEF BootInMemory, BootFresh, Crash, db
  <1>2. nextId \in Nat /\ nextId >= 1
    BY DEF TypeInv, TypeOK, HeightsBounded
  <1>3. CASE Crash
    <2>1. blocks' = {} /\ current' = NoBlock /\ phase' = "down"
      BY <1>3 DEF Crash
    <2>2. Known' \subseteq Known
      BY <1>1, <2>1 DEF Known
    <2> QED
      BY <1>1, <2>1, <2>2 DEF LinkInv, IdsUnique, MemoryLinked, StoredLinked, HeadIsStored
  <1>4. CASE BootInMemory \/ BootFresh
    <2>1. /\ phase = "down" /\ blocks' = {Genesis} /\ head' = 0 /\ height' = height
          /\ current' \in {current, Genesis}
          /\ \/ phase' = "idle" /\ ~persist
             \/ phase' = "put_block" /\ current' = Genesis
      BY <1>4 DEF BootInMemory, BootFresh
    <2>2. height = 0
      BY <2>1 DEF StorageInv, PutsInOrder
    <2>3. Genesis.id = 0 /\ Genesis.height = 0
      BY DEF Genesis
    <2>4. IdsUnique'
      <3>1. Known' \subseteq Known \cup {Genesis}
        BY <1>1, <2>1 DEF Known
      <3> QED BY <1>1, <1>2, <2>3, <3>1 DEF LinkInv, IdsUnique
    <2>5. MemoryLinked'
      <3>1. \A h \in 0 .. 0 : h = 0
        OBVIOUS
      <3> QED BY <2>1, <2>2, <2>3, <3>1 DEF MemoryLinked
    <2>6. StoredLinked' /\ HeadIsStored'
      BY <1>1, <2>1, <2>3 DEF LinkInv, StoredLinked, HeadIsStored
    <2> QED BY <2>4, <2>5, <2>6 DEF LinkInv
  <1> QED BY <1>3, <1>4

LEMMA LinkNext == TypeInv /\ StorageInv /\ LinkInv /\ [Next]_vars => LinkInv'
  <1> SUFFICES ASSUME TypeInv, StorageInv, LinkInv, [Next]_vars, ioErrors' = 0
               PROVE  LinkInv'
    BY DEF LinkInv
  <1>1. ioErrors = 0 /\ ~PutFails
    BY NoPutFailedBefore
  <1>2. CASE Next
    BY <1>1, <1>2, LinkQuietStep, LinkBuildStep, LinkAppend, LinkPutStep, LinkRestore, LinkStart
       DEF Next, Holder, Boot, Produce
  <1>3. CASE UNCHANGED vars
    <2>1. UNCHANGED <<blocks, head, height, phase, current, persist, dbBlocks, dbIndex,
                      dbLatest, nextId, ioErrors>>
      BY <1>3 DEF vars, memory, lock, db, counters
    <2> QED
      BY <2>1 DEF LinkInv, IdsUnique, Known, MemoryLinked, StoredLinked, HeadIsStored
  <1> QED BY <1>2, <1>3

\* However often the process dies, as long as no put fails, parent links lead from the head
\* through every height to genesis, and memory holds no other block: appending a
\* block, and rebuilding memory from the index after a crash between two puts, keep
\* the chain a chain (execution.rs:11, chain.rs:89).
THEOREM ChainStaysLinked == Spec => [](ioErrors = 0 => ChainLinked)
  <1>1. TypeInv /\ LinkInv => (ioErrors = 0 => ChainLinked)
    BY LinkedInv
  <1> QED BY <1>1, StorageInvariant, LinkInit, LinkNext, PTL DEF Spec
=============================================================================
