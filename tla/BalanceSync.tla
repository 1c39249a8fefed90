---------------------------- MODULE BalanceSync ----------------------------
(***************************************************************************)
(* The comparison of balances on the chain with credits off it             *)
(* (balance_sync/engine.rs).  A pass records every account that differs;   *)
(* only resolve_discrepancy forgets one, also when a later pass finds no   *)
(* difference any more.  The adjustments are for the caller to apply,      *)
(* and so is the interval between passes.  IsaUnit stands for 10^18.       *)
(***************************************************************************)
EXTENDS Common, Sequences

CONSTANTS
  SyncAccount, NoDiscrepancy,         \* addresses, and a missing map entry
  ChainBalances, CreditBalances,      \* balances that callers pass
  SyncPrices, IsaUnit,                \* prices that callers pass, and the scale
  AutoFixThreshold,                   \* parameter of the engine
  MaxSyncs                            \* bound of the exploration

BalanceRecord == [discrepancy : Int, lastSynced : Nat]

ASSUME BalanceSyncTyped ==
  /\ NoDiscrepancy \notin BalanceRecord /\ IsFiniteSet(SyncAccount)
  /\ ChainBalances \cup CreditBalances \cup SyncPrices \subseteq Nat
  /\ IsaUnit \in Nat \ {0} /\ AutoFixThreshold \in Nat

VARIABLES
  syncHistory,           \* sync_history: the records of each pass
  knownDiscrepancies,    \* known_discrepancies
  lastSyncHeight, totalSyncs, totalAutoFixes,
  resolvedAt             \* history, by account: how many passes there were when it was resolved

syncVars ==
  <<syncHistory, knownDiscrepancies, lastSyncHeight, totalSyncs, totalAutoFixes, resolvedAt>>

BalanceSyncInit ==
  /\ syncHistory = <<>>
  /\ knownDiscrepancies = [a \in SyncAccount |-> NoDiscrepancy]
  /\ lastSyncHeight = 0 /\ totalSyncs = 0 /\ totalAutoFixes = 0
  /\ resolvedAt = [a \in SyncAccount |-> 0]

\* check_balance: what the credits are above what they should be.
Discrepancy(isa, credits, isaPrice, creditPrice) ==
  credits - (IF isaPrice = 0 \/ creditPrice = 0 THEN 0
             ELSE (isa * isaPrice) \div (IsaUnit * creditPrice))

Abs(n) == IF n < 0 THEN -n ELSE n

\* determine_action: whether it is small enough to be adjusted.
Fixable(discrepancy) == discrepancy # 0 /\ Abs(discrepancy) <= AutoFixThreshold

\* balances gives the accounts of the pass, each once, their ISA and credits.
RunSync(balances, isaPrice, creditPrice) ==
  LET discrepancy(a) ==
        Discrepancy(balances[a].isa, balances[a].credits, isaPrice, creditPrice)
      differing == {a \in DOMAIN balances : discrepancy(a) # 0}
  IN
  /\ totalSyncs < MaxSyncs
  /\ knownDiscrepancies' = [a \in SyncAccount |->
       IF a \in differing THEN [discrepancy |-> discrepancy(a), lastSynced |-> now]
       ELSE knownDiscrepancies[a]]
  /\ totalAutoFixes' =
       totalAutoFixes + Cardinality({a \in differing : Fixable(discrepancy(a))})
  /\ syncHistory' = Append(syncHistory,
       [a \in DOMAIN balances |-> [discrepancy |-> discrepancy(a), lastSynced |-> now]])
  /\ lastSyncHeight' = now
  /\ totalSyncs' = totalSyncs + 1
  /\ UNCHANGED resolvedAt

ResolveDiscrepancy(a) ==
  /\ knownDiscrepancies[a] # NoDiscrepancy
  /\ knownDiscrepancies' = [knownDiscrepancies EXCEPT ![a] = NoDiscrepancy]
  /\ resolvedAt' = [resolvedAt EXCEPT ![a] = Len(syncHistory)]
  /\ UNCHANGED <<syncHistory, lastSyncHeight, totalSyncs, totalAutoFixes>>

BalanceSyncNext ==
  \/ \E accounts \in SUBSET SyncAccount :
       \E balances \in [accounts -> [isa : ChainBalances, credits : CreditBalances]],
          isaPrice, creditPrice \in SyncPrices : RunSync(balances, isaPrice, creditPrice)
  \/ \E a \in SyncAccount : ResolveDiscrepancy(a)

----------------------------------------------------------------------------
(* Properties *)

\* Types of the engine's state.
BalanceSyncTypeOK ==
  /\ knownDiscrepancies \in [SyncAccount -> BalanceRecord \cup {NoDiscrepancy}]
  /\ {lastSyncHeight, totalSyncs, totalAutoFixes} \subseteq Nat
  /\ resolvedAt \in [SyncAccount -> Nat]

\* An account that differed in a pass is known, with its latest difference, until it is
\* resolved, in whatever order passes leave accounts out, find them equal again and resolve
\* them; the counters are those of the passes (balance_sync/engine.rs:156, 211).
DiscrepanciesKnown ==
  /\ \A a \in SyncAccount :
       LET passes == {i \in DOMAIN syncHistory :
             i > resolvedAt[a] /\ a \in DOMAIN syncHistory[i] /\ syncHistory[i][a].discrepancy # 0}
       IN knownDiscrepancies[a] =
            IF passes = {} THEN NoDiscrepancy ELSE syncHistory[Max(passes)][a]
  /\ totalSyncs = Len(syncHistory)
  /\ totalAutoFixes = SumOver(LAMBDA i :
       Cardinality({a \in DOMAIN syncHistory[i] : Fixable(syncHistory[i][a].discrepancy)}),
       DOMAIN syncHistory)
=============================================================================
