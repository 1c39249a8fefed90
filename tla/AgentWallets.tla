---------------------------- MODULE AgentWallets ----------------------------
(***************************************************************************)
(* Wallets that agents spend from, within limits that their owners set     *)
(* (agent_wallet/factory.rs).  Three windows limit the spending: a period, *)
(* a day and a month.  A window opens anew at the first spending after its *)
(* end, and stays open anew when that spending is refused.  The end is the *)
(* sum of a height and of a length that nobody checks, modulo 2^64: an     *)
(* owner who wants no new period, and asks for the longest, gets one at    *)
(* every spending, and no limit.  What is put into one wallet over its     *)
(* life is taken to fit into u128.                                         *)
(*                                                                         *)
(* A wallet's address is a hash of its agent, here the agent.  Left out:   *)
(* the index by owner, the credit balance, which nothing changes, and the  *)
(* status Suspended, which nothing sets.                                   *)
(***************************************************************************)
EXTENDS Common

CONSTANTS
  Agent, WalletOwner, NoWallet,      \* agents, owners, and a missing map entry
  WalletAmounts,                     \* what is deposited and spent
  WalletTerms,                       \* [owner, limit, length, daily, monthly] of new wallets
  SpendingLimits,                    \* what owners change limits to
  WalletSubnet, AllSubnets,          \* subnets, and no restriction to some
  SubnetLists,                       \* the restrictions that callers choose
  DailyBlocks, MonthlyBlocks,        \* DAILY_BLOCKS, MONTHLY_BLOCKS
  MaxWalletDeposits                  \* bound of the exploration

Windows == {"period", "day", "month"}

AgentWallet ==
  [owner : WalletOwner, balance : Nat, status : {"Active", "Frozen", "Closed"},
   limit : [Windows -> Nat], length : [Windows -> Nat],
   spent : [Windows -> Nat], start : [Windows -> Nat],
   totalSpent : Nat, allowed : {AllSubnets} \cup SUBSET WalletSubnet]

ASSUME WalletsTyped ==
  /\ NoWallet \notin AgentWallet /\ \A S \in SUBSET WalletSubnet : S # AllSubnets
  /\ SubnetLists \subseteq {AllSubnets} \cup SUBSET WalletSubnet
  /\ WalletTerms \subseteq
       [owner : WalletOwner, limit : Nat, length : Nat, daily : Nat, monthly : Nat]
  /\ WalletAmounts \cup SpendingLimits \subseteq Nat
  /\ DailyBlocks \in Nat \ {0} /\ MonthlyBlocks \in Nat \ {0}

VARIABLE agentWallets    \* wallets, wallets_by_agent

\* History, by agent: what was put in and paid back, what was spent at each height, and the
\* highest limit of the period so far.
VARIABLES walletDeposits, paidBack, spentAt, highestLimit

walletHistory == <<walletDeposits, paidBack, spentAt, highestLimit>>
walletVars == <<agentWallets, walletHistory>>

WalletsInit ==
  /\ agentWallets = [a \in Agent |-> NoWallet]
  /\ walletDeposits = [a \in Agent |-> 0] /\ paidBack = [a \in Agent |-> 0]
  /\ spentAt = [a \in Agent |-> [h \in 0 .. MaxNow |-> 0]]
  /\ highestLimit = [a \in Agent |-> 0]

HasWallet(a) == agentWallets[a] # NoWallet

\* A daily or a monthly limit of 0 is none.
CreateWallet(a, terms) ==
  /\ ~HasWallet(a)
  /\ agentWallets' = [agentWallets EXCEPT ![a] =
       [owner |-> terms.owner, balance |-> 0, status |-> "Active",
        limit |-> [w \in Windows |-> CASE w = "period" -> terms.limit
                                       [] w = "day" -> terms.daily
                                       [] w = "month" -> terms.monthly],
        length |-> [w \in Windows |-> CASE w = "period" -> terms.length
                                        [] w = "day" -> DailyBlocks
                                        [] w = "month" -> MonthlyBlocks],
        spent |-> [w \in Windows |-> 0], start |-> [w \in Windows |-> now],
        totalSpent |-> 0, allowed |-> AllSubnets]]
  /\ highestLimit' = [highestLimit EXCEPT ![a] = terms.limit]
  /\ UNCHANGED <<walletDeposits, paidBack, spentAt>>

DepositToWallet(a, amount) ==
  /\ amount > 0 /\ HasWallet(a) /\ agentWallets[a].status # "Closed"
  /\ walletDeposits[a] + amount <= MaxWalletDeposits
  /\ agentWallets' = [agentWallets EXCEPT ![a].balance = @ + amount]
  /\ walletDeposits' = [walletDeposits EXCEPT ![a] = @ + amount]
  /\ UNCHANGED <<paidBack, spentAt, highestLimit>>

\* The end of a window, a sum in u64, is reached.
IsOver(wallet, w) == now >= (wallet.start[w] + wallet.length[w]) % HeightModulus

\* Mutant: a window that is over starts from 0 and keeps its old beginning.
ReopenedInPlace(wallet, ws) ==
  LET over == {w \in ws : IsOver(wallet, w)} IN
  [wallet EXCEPT !.spent = [w \in Windows |-> IF w \in over THEN 0 ELSE @[w]]]

\* The wallet with those of the windows ws opened anew that are over.
Reopened(wallet, ws) ==
  LET over == {w \in ws : IsOver(wallet, w)} IN
  [wallet EXCEPT !.spent = [w \in Windows |-> IF w \in over THEN 0 ELSE @[w]],
                 !.start = [w \in Windows |-> IF w \in over THEN now ELSE @[w]]]

\* A limit of 0 limits the period, not a day or a month.
WithinLimits(wallet, amount) ==
  \A w \in Windows :
    (w = "period" \/ wallet.limit[w] > 0) => wallet.spent[w] + amount <= wallet.limit[w]

\* subnet is one, or none that is known.
SpendFromWallet(a, amount, subnet) ==
  /\ amount > 0 /\ HasWallet(a) /\ agentWallets[a].status = "Active"
  /\ subnet # "none" /\ agentWallets[a].allowed # AllSubnets => subnet \in agentWallets[a].allowed
  /\ LET wallet == Reopened(agentWallets[a], Windows) IN
       IF WithinLimits(wallet, amount) /\ wallet.balance >= amount
       THEN /\ agentWallets' = [agentWallets EXCEPT ![a] =
                 [wallet EXCEPT !.balance = @ - amount, !.totalSpent = @ + amount,
                                !.spent = [w \in Windows |-> @[w] + amount]]]
            /\ spentAt' = [spentAt EXCEPT ![a][now] = @ + amount]
       ELSE /\ agentWallets' = [agentWallets EXCEPT ![a] = wallet]
            /\ UNCHANGED spentAt
  /\ UNCHANGED <<walletDeposits, paidBack, highestLimit>>

OwnersWallet(a, owner) ==
  HasWallet(a) /\ agentWallets[a].owner = owner /\ agentWallets[a].status # "Closed"

Freeze(a, owner) ==
  /\ OwnersWallet(a, owner)
  /\ agentWallets' = [agentWallets EXCEPT ![a].status = "Frozen"]
  /\ UNCHANGED walletHistory

Unfreeze(a, owner) ==
  /\ OwnersWallet(a, owner)
  /\ agentWallets' = [agentWallets EXCEPT ![a].status = "Active"]
  /\ UNCHANGED walletHistory

CloseWallet(a, owner) ==
  /\ OwnersWallet(a, owner)
  /\ agentWallets' = [agentWallets EXCEPT ![a].balance = 0, ![a].status = "Closed"]
  /\ paidBack' = [paidBack EXCEPT ![a] = @ + agentWallets[a].balance]
  /\ UNCHANGED <<walletDeposits, spentAt, highestLimit>>

SetSpendingLimit(a, limit, owner) ==
  /\ OwnersWallet(a, owner)
  /\ agentWallets' = [agentWallets EXCEPT ![a].limit["period"] = limit]
  /\ highestLimit' = [highestLimit EXCEPT ![a] = IF limit > @ THEN limit ELSE @]
  /\ UNCHANGED <<walletDeposits, paidBack, spentAt>>

ResetPeriod(a) ==
  /\ HasWallet(a)
  /\ agentWallets' = [agentWallets EXCEPT ![a] = Reopened(@, {"period"})]
  /\ UNCHANGED walletHistory

\* Callers write the list through get_wallet_mut.
AllowSubnets(a, subnets) ==
  /\ HasWallet(a)
  /\ agentWallets' = [agentWallets EXCEPT ![a].allowed = subnets]
  /\ UNCHANGED walletHistory

WalletsNext ==
  \E a \in Agent :
    \/ \E terms \in WalletTerms : CreateWallet(a, terms)
    \/ \E owner \in WalletOwner :
         \/ Freeze(a, owner) \/ Unfreeze(a, owner) \/ CloseWallet(a, owner)
         \/ \E limit \in SpendingLimits : SetSpendingLimit(a, limit, owner)
    \/ \E n \in WalletAmounts :
         DepositToWallet(a, n)
           \/ \E subnet \in WalletSubnet \cup {"none"} : SpendFromWallet(a, n, subnet)
    \/ ResetPeriod(a)
    \/ \E subnets \in SubnetLists : AllowSubnets(a, subnets)

----------------------------------------------------------------------------
(* Properties *)

\* Types of the wallets' state.
WalletsTypeOK ==
  /\ agentWallets \in [Agent -> AgentWallet \cup {NoWallet}]
  /\ {walletDeposits, paidBack, highestLimit} \subseteq [Agent -> Nat]
  /\ spentAt \in [Agent -> [0 .. MaxNow -> Nat]]

\* A window is of some blocks and ends at a height.
Ends(wallet, w) == wallet.length[w] > 0 /\ wallet.start[w] + wallet.length[w] < HeightModulus

SpentDuring(a, heights) == SumOver(LAMBDA h : spentAt[a][h], heights \cap (0 .. MaxNow))

\* What was put into a wallet is in it, spent or paid back.  A window of some blocks whose
\* end is a height knows all that was spent since it began, so that within any stretch of
\* blocks as long as the window, which overlaps with two of them, the agent spends at most
\* twice the limit, however the owner changes it and whenever windows are reset.  A window
\* whose end is past the last height is over at once, and does not limit
\* (agent_wallet/factory.rs:172, 338).
WalletsWithinLimits ==
  \A a \in Agent : HasWallet(a) =>
    LET wallet == agentWallets[a]
        limit(w) == IF w = "period" THEN highestLimit[a] ELSE wallet.limit[w]
    IN
    /\ walletDeposits[a] = wallet.balance + wallet.totalSpent + paidBack[a]
    /\ \A w \in Windows : Ends(wallet, w) =>
         /\ wallet.spent[w] = SpentDuring(a, wallet.start[w] .. MaxNow)
         /\ (w = "period" \/ limit(w) > 0) =>
              \A h \in 0 .. MaxNow :
                SpentDuring(a, h .. h + wallet.length[w] - 1) <= 2 * limit(w)
=============================================================================
