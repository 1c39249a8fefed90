---------------------------- MODULE CustodyProofs ----------------------------
(***************************************************************************)
(* Theorems about the managers that hold what users put in, and those that *)
(* let it be spent: deposits and withdrawals, credits, the credit bridge   *)
(* and the cross-chain bridge; budgets, incentives, billing and wallets.   *)
(***************************************************************************)
EXTENDS Deposits, Withdrawals, Credits, CrossChain,
        AgentWallets, Budgets, CreditBilling, Incentives, Sums, SequenceTheorems

----------------------------------------------------------------------------
(* Deposits implement the escrow *)

\* The parts of the ids of deposits.
LEMMA DepositIdFields ==
  ASSUME NEW d \in DepositId
  PROVE  d.amount \in Nat /\ d.at \in Nat
  BY DepositsTyped DEF DepositsTyped

\* The credits for a price are a number (deposit/manager.rs:237).
LEMMA CreditsAreNatural ==
  ASSUME NEW d \in DepositId, NEW price \in IsaPrices
  PROVE  DepositCredits(d.amount, price) \in Nat
  <1>1. d.amount \in Nat /\ price \in Nat /\ CreditUnit \in Nat
    BY DepositIdFields, DepositsTyped DEF DepositsTyped
  <1> DEFINE product == d.amount * price
  <1>2. product \in Nat
    BY <1>1
  <1> HIDE DEF product
  <1>3. CreditUnit # 0 => product \div CreditUnit \in Nat
    BY <1>1, <1>2
  <1> QED BY <1>3 DEF DepositCredits, product

\* What a call leaves behind: a deposit under d, the others as they were, and of the escrow's
\* counters at most one raised by what d held (deposit/manager.rs:63, 109, 150, 182).
DepositStep(d) ==
  /\ deposits' = [deposits EXCEPT ![d] = deposits'[d]] /\ deposits'[d] \in DepositRequest
  /\ totalCreditsIssued' \in Nat /\ depositCalls' \in Nat
  /\ \/ /\ deposits'[d].status = "Pending"
        /\ replacedIsa' = replacedIsa + DepositHeld(d)
        /\ UNCHANGED <<totalDepositedIsa, refundedIsa>>
     \/ /\ deposits[d] # NoDeposit /\ deposits[d].status = "Pending"
        /\ \/ /\ deposits'[d].status = "Completed"
              /\ totalDepositedIsa' = totalDepositedIsa + d.amount
              /\ UNCHANGED <<refundedIsa, replacedIsa>>
           \/ /\ deposits'[d].status = "Failed"
              /\ UNCHANGED <<totalDepositedIsa, refundedIsa, replacedIsa>>
     \/ /\ deposits[d] # NoDeposit /\ deposits[d].status = "Failed"
        /\ deposits'[d].status = "Refunded"
        /\ refundedIsa' = refundedIsa + d.amount
        /\ UNCHANGED <<totalDepositedIsa, replacedIsa>>

LEMMA CallsAreSteps ==
  ASSUME DepositsTypeOK, DepositsNext
  PROVE  \E d \in DepositId : DepositStep(d)
  <1>1. PICK d \in DepositId :
          \/ CompleteDeposit(d) \/ FailDeposit(d) \/ RefundDeposit(d)
          \/ \E price \in IsaPrices : InitiateDeposit(d, price)
    BY DEF DepositsNext
  <1> SUFFICES DepositStep(d)
    OBVIOUS
  <1>2. deposits[d] # NoDeposit => deposits[d] \in DepositRequest
    BY DEF DepositsTypeOK
  <1>3. d.amount \in Nat
    BY DepositIdFields
  <1>4. CASE CompleteDeposit(d)
    BY <1>2, <1>3, <1>4
       DEF DepositsTypeOK, DepositRequest, DepositStatus, CompleteDeposit, DepositStep
  <1>5. CASE FailDeposit(d)
    BY <1>2, <1>5
       DEF DepositsTypeOK, DepositRequest, DepositStatus, FailDeposit, DepositStep, depositHistory
  <1>6. CASE RefundDeposit(d)
    BY <1>2, <1>3, <1>6
       DEF DepositsTypeOK, DepositRequest, DepositStatus, RefundDeposit, DepositStep
  <1>7. ASSUME NEW price \in IsaPrices, InitiateDeposit(d, price)
        PROVE  DepositStep(d)
    <2>1. DepositCredits(d.amount, price) \in Nat
      BY CreditsAreNatural
    <2> QED BY <1>7, <2>1
            DEF DepositsTypeOK, DepositRequest, DepositStatus, InitiateDeposit, DepositStep
  <1> QED BY <1>1, <1>4, <1>5, <1>6, <1>7

LEMMA StepKeepsDepositTypes ==
  ASSUME DepositsTypeOK, NEW d \in DepositId, DepositStep(d)
  PROVE  DepositsTypeOK'
  <1>1. d.amount \in Nat /\ DepositHeld(d) \in Nat
    BY DepositIdFields DEF DepositHeld
  <1> QED BY <1>1 DEF DepositStep, DepositsTypeOK

\* A call puts a deposit into the escrow, pays it out, gives it back, or leaves it there.
LEMMA StepKeepsDepositEscrow ==
  ASSUME DepositsTypeOK, NEW d \in DepositId, DepositStep(d)
  PROVE  [DepositEscrow!EscrowNext]_(DepositEscrow!escrowVars)
  <1> DEFINE held == [k \in DepositId |-> DepositHeld(k)]
  <1>1. d.amount \in Nat /\ deposits'[d] # NoDeposit
    BY DepositIdFields, DepositsTyped DEF DepositStep, DepositsTyped
  <1>2. \A k \in DepositId : k # d => deposits'[k] = deposits[k]
    BY DEF DepositStep, DepositsTypeOK
  <1>3. held' = [held EXCEPT ![d] = DepositHeld(d)']
    BY <1>2 DEF DepositHeld
  <1>4. CASE deposits'[d].status = "Pending" /\ replacedIsa' = replacedIsa + DepositHeld(d)
               /\ UNCHANGED <<totalDepositedIsa, refundedIsa>>
    <2>1. DepositHeld(d)' = d.amount
      BY <1>1, <1>4 DEF DepositHeld
    <2>2. DepositEscrow!PutIn(d, d.amount)
      BY <1>3, <1>4, <2>1 DEF DepositEscrow!PutIn
    <2> QED BY <2>2 DEF DepositEscrow!EscrowNext
  <1>5. CASE /\ deposits[d] # NoDeposit /\ deposits[d].status = "Pending"
             /\ deposits'[d].status = "Completed"
             /\ totalDepositedIsa' = totalDepositedIsa + d.amount
             /\ UNCHANGED <<refundedIsa, replacedIsa>>
    <2>1. DepositHeld(d) = d.amount /\ DepositHeld(d)' = 0
      BY <1>1, <1>5 DEF DepositHeld
    <2>2. CASE d.amount > 0
      <3>1. DepositEscrow!PayOut(d)
        BY <1>3, <1>5, <2>1, <2>2 DEF DepositEscrow!PayOut
      <3> QED BY <3>1 DEF DepositEscrow!EscrowNext
    <2>3. CASE d.amount = 0
      <3>1. held' = held
        BY <1>2, <2>1, <2>3 DEF DepositHeld
      <3> QED BY <1>5, <2>3, <3>1 DEF DepositEscrow!escrowVars, DepositsTypeOK
    <2> QED BY <1>1, <2>2, <2>3
  <1>6. CASE /\ deposits[d] # NoDeposit /\ deposits[d].status = "Failed"
             /\ deposits'[d].status = "Refunded"
             /\ refundedIsa' = refundedIsa + d.amount
             /\ UNCHANGED <<totalDepositedIsa, replacedIsa>>
    <2>1. DepositHeld(d) = d.amount /\ DepositHeld(d)' = 0
      BY <1>1, <1>6 DEF DepositHeld
    <2>2. CASE d.amount > 0
      <3>1. DepositEscrow!GiveBack(d)
        BY <1>3, <1>6, <2>1, <2>2 DEF DepositEscrow!GiveBack
      <3> QED BY <3>1 DEF DepositEscrow!EscrowNext
    <2>3. CASE d.amount = 0
      <3>1. held' = held
        BY <1>2, <2>1, <2>3 DEF DepositHeld
      <3> QED BY <1>6, <2>3, <3>1 DEF DepositEscrow!escrowVars, DepositsTypeOK
    <2> QED BY <1>1, <2>2, <2>3
  <1>7. CASE /\ deposits[d] # NoDeposit /\ deposits[d].status = "Pending"
             /\ deposits'[d].status = "Failed"
             /\ UNCHANGED <<totalDepositedIsa, refundedIsa, replacedIsa>>
    <2>1. held' = held
      BY <1>1, <1>2, <1>7 DEF DepositHeld
    <2> QED BY <1>7, <2>1 DEF DepositEscrow!escrowVars
  <1> QED BY <1>4, <1>5, <1>6, <1>7 DEF DepositStep

----------------------------------------------------------------------------
(* Withdrawals implement the escrow *)

\* The parts of the ids of withdrawals.
LEMMA WithdrawalIdFields ==
  ASSUME NEW w \in WithdrawalId
  PROVE  /\ w.credits \in Nat /\ w.at \in Nat
         /\ Monus(w.credits, WithdrawalFee(w.credits)) \in Nat
  BY WithdrawalsTyped DEF WithdrawalsTyped, Monus

\* What is paid for credits is a number, at a price of 0 too (withdrawal/manager.rs:265).
LEMMA IsaIsNatural ==
  ASSUME NEW credits \in Nat, NEW price \in Nat
  PROVE  CalculateIsa(credits, price) \in Nat
  <1>1. CASE price = 0
    BY <1>1 DEF CalculateIsa
  <1>2. CASE price # 0
    <2> DEFINE product == credits * WithdrawalUnit
    <2>1. product \in Nat
      BY WithdrawalsTyped DEF WithdrawalsTyped
    <2> HIDE DEF product
    <2>2. product \div price \in Nat
      BY <1>2, <2>1
    <2> QED BY <1>2, <2>2 DEF CalculateIsa, product
  <1> QED BY <1>1, <1>2

\* What a call leaves behind: a request under w, the others as they were, and of the escrow's
\* counters at most one raised by what w held (withdrawal/manager.rs:87, 149, 194).
WithdrawalStep(w) ==
  /\ withdrawals' = [withdrawals EXCEPT ![w] = withdrawals'[w]]
  /\ withdrawals'[w] \in WithdrawalRequest
  /\ withdrawalListed' \in [WithdrawalId -> Nat] /\ totalIsaMinted' \in Nat
  /\ \/ /\ withdrawals'[w].status = "InCooldown"
        /\ replacedCredits' = replacedCredits + WithdrawalHeld(w)
        /\ UNCHANGED <<totalWithdrawnCredits, cancelledCredits>>
     \/ /\ InCooldown(w) /\ withdrawals'[w].status = "Completed"
        /\ totalWithdrawnCredits' = totalWithdrawnCredits + w.credits
        /\ UNCHANGED <<cancelledCredits, replacedCredits>>
     \/ /\ InCooldown(w) /\ withdrawals'[w].status = "Cancelled"
        /\ cancelledCredits' = cancelledCredits + w.credits
        /\ UNCHANGED <<totalWithdrawnCredits, replacedCredits>>

LEMMA RequestsAreSteps ==
  ASSUME now \in Nat, WithdrawalsTypeOK, WithdrawalsNext
  PROVE  \E w \in WithdrawalId : WithdrawalStep(w)
  <1>1. PICK w \in WithdrawalId :
          \/ CompleteWithdrawal(w) \/ CancelWithdrawal(w)
          \/ \E price \in WithdrawalPrices : InitiateWithdrawal(w, price)
    BY DEF WithdrawalsNext
  <1> SUFFICES WithdrawalStep(w)
    OBVIOUS
  <1>2. InCooldown(w) => withdrawals[w] \in WithdrawalRequest
    BY DEF WithdrawalsTypeOK, InCooldown
  <1>3. w.credits \in Nat
    BY WithdrawalIdFields
  <1>4. CASE CompleteWithdrawal(w)
    BY <1>2, <1>3, <1>4
       DEF WithdrawalsTypeOK, WithdrawalRequest, WithdrawalStatus, CompleteWithdrawal,
           WithdrawalStep, withdrawalHistory
  <1>5. CASE CancelWithdrawal(w)
    BY <1>2, <1>3, <1>5
       DEF WithdrawalsTypeOK, WithdrawalRequest, WithdrawalStatus, CancelWithdrawal,
           WithdrawalStep
  <1>6. ASSUME NEW price \in WithdrawalPrices, InitiateWithdrawal(w, price)
        PROVE  WithdrawalStep(w)
    <2> DEFINE isa == CalculateIsa(Monus(w.credits, WithdrawalFee(w.credits)), price)
    <2>1. isa \in Nat
      BY IsaIsNatural, WithdrawalIdFields, WithdrawalsTyped DEF WithdrawalsTyped
    <2>2. now + CooldownBlocks \in Nat
      BY WithdrawalsTyped DEF WithdrawalsTyped
    <2> HIDE DEF isa
    <2>3. /\ withdrawals' = [withdrawals EXCEPT
               ![w] = [isaToReceive |-> isa, cooldownEnds |-> now + CooldownBlocks,
                       status |-> "InCooldown"]]
          /\ withdrawalListed' = [withdrawalListed EXCEPT ![w] = @ + 1]
          /\ replacedCredits' = replacedCredits + WithdrawalHeld(w)
          /\ UNCHANGED <<totalWithdrawnCredits, totalIsaMinted, cancelledCredits>>
      BY <1>6 DEF InitiateWithdrawal, isa
    <2> QED BY <2>1, <2>2, <2>3
            DEF WithdrawalsTypeOK, WithdrawalRequest, WithdrawalStatus, WithdrawalStep
  <1> QED BY <1>1, <1>4, <1>5, <1>6

LEMMA StepKeepsWithdrawalTypes ==
  ASSUME WithdrawalsTypeOK, NEW w \in WithdrawalId, WithdrawalStep(w)
  PROVE  WithdrawalsTypeOK'
  <1>1. w.credits \in Nat /\ WithdrawalHeld(w) \in Nat
    BY WithdrawalIdFields DEF WithdrawalHeld
  <1> QED BY <1>1 DEF WithdrawalStep, WithdrawalsTypeOK

\* A call puts credits into the escrow, pays them out or gives them back.
LEMMA StepKeepsWithdrawalEscrow ==
  ASSUME WithdrawalsTypeOK, NEW w \in WithdrawalId, WithdrawalStep(w)
  PROVE  [WithdrawalEscrow!EscrowNext]_(WithdrawalEscrow!escrowVars)
  <1> DEFINE held == [k \in WithdrawalId |-> WithdrawalHeld(k)]
  <1>1. w.credits \in Nat /\ withdrawals'[w] # NoWithdrawal
    BY WithdrawalIdFields, WithdrawalsTyped DEF WithdrawalStep, WithdrawalsTyped
  <1>2. \A k \in WithdrawalId : k # w => withdrawals'[k] = withdrawals[k]
    BY DEF WithdrawalStep, WithdrawalsTypeOK
  <1>3. held' = [held EXCEPT ![w] = WithdrawalHeld(w)']
    BY <1>2 DEF WithdrawalHeld, InCooldown
  <1>4. CASE withdrawals'[w].status = "InCooldown"
               /\ replacedCredits' = replacedCredits + WithdrawalHeld(w)
               /\ UNCHANGED <<totalWithdrawnCredits, cancelledCredits>>
    <2>1. WithdrawalHeld(w)' = w.credits
      BY <1>1, <1>4 DEF WithdrawalHeld, InCooldown
    <2>2. WithdrawalEscrow!PutIn(w, w.credits)
      BY <1>3, <1>4, <2>1 DEF WithdrawalEscrow!PutIn
    <2> QED BY <2>2 DEF WithdrawalEscrow!EscrowNext
  <1>5. ASSUME InCooldown(w), withdrawals'[w].status # "InCooldown", w.credits = 0,
               UNCHANGED <<totalWithdrawnCredits, cancelledCredits, replacedCredits>>
        PROVE  UNCHANGED WithdrawalEscrow!escrowVars
    <2>1. held' = held
      BY <1>2, <1>5 DEF WithdrawalHeld, InCooldown
    <2> QED BY <1>5, <2>1 DEF WithdrawalEscrow!escrowVars
  <1>6. CASE /\ InCooldown(w) /\ withdrawals'[w].status = "Completed"
             /\ totalWithdrawnCredits' = totalWithdrawnCredits + w.credits
             /\ UNCHANGED <<cancelledCredits, replacedCredits>>
    <2>1. WithdrawalHeld(w) = w.credits /\ WithdrawalHeld(w)' = 0
      BY <1>1, <1>6 DEF WithdrawalHeld, InCooldown
    <2>2. CASE w.credits > 0
      <3>1. WithdrawalEscrow!PayOut(w)
        BY <1>3, <1>6, <2>1, <2>2 DEF WithdrawalEscrow!PayOut
      <3> QED BY <3>1 DEF WithdrawalEscrow!EscrowNext
    <2> QED BY <1>1, <1>5, <1>6, <2>2 DEF WithdrawalsTypeOK
  <1>7. CASE /\ InCooldown(w) /\ withdrawals'[w].status = "Cancelled"
             /\ cancelledCredits' = cancelledCredits + w.credits
             /\ UNCHANGED <<totalWithdrawnCredits, replacedCredits>>
    <2>1. WithdrawalHeld(w) = w.credits /\ WithdrawalHeld(w)' = 0
      BY <1>1, <1>7 DEF WithdrawalHeld, InCooldown
    <2>2. CASE w.credits > 0
      <3>1. WithdrawalEscrow!GiveBack(w)
        BY <1>3, <1>7, <2>1, <2>2 DEF WithdrawalEscrow!GiveBack
      <3> QED BY <3>1 DEF WithdrawalEscrow!EscrowNext
    <2> QED BY <1>1, <1>5, <1>7, <2>2 DEF WithdrawalsTypeOK
  <1> QED BY <1>4, <1>6, <1>7 DEF WithdrawalStep

----------------------------------------------------------------------------
(* Credits *)

CreditsInv == CreditsTypeOK /\ CreditsAccounted

LEMMA WrapType ==
  ASSUME NEW n \in Int
  PROVE  Wrap(n) \in 0 .. CreditModulus - 1 /\ Wrap(n) \in Nat
  BY CreditsTyped, DivMod DEF Wrap

\* Adding wrapped amounts is adding amounts and wrapping once.
LEMMA WrapPlus ==
  ASSUME NEW n \in Int, NEW k \in Int
  PROVE  Wrap(Wrap(n) + k) = Wrap(n + k)
  BY CreditsTyped, ModPlus DEF Wrap

LEMMA WrapThree ==
  ASSUME NEW a \in Int, NEW b \in Int, NEW c \in Int
  PROVE  Wrap(Wrap(a + b) + c) = Wrap((a + b) + c)
  <1>1. PICK n \in Int : n = a + b
    OBVIOUS
  <1>2. Wrap(Wrap(n) + c) = Wrap(n + c)
    BY WrapPlus
  <1> QED BY <1>1, <1>2

LEMMA WrapSmall ==
  ASSUME NEW n \in 0 .. CreditModulus - 1
  PROVE  Wrap(n) = n
  BY CreditsTyped, ModSmall DEF Wrap

\* What a purchase yields is a number, after an overflow and at a price of 0 too
\* (credits/system.rs:58).
LEMMA CreditsForIsaNat ==
  ASSUME creditPrice \in Nat, NEW isa \in IsaAmounts, NEW price \in CreditIsaPrices
  PROVE  CreditsForIsa(isa, price) \in Nat
  <1>1. isa \in Nat /\ price \in Nat /\ CreditModulus \in Nat \ {0}
    BY CreditsTyped
  <1> DEFINE product == isa * price
  <1>2. product \in Nat
    BY <1>1
  <1> HIDE DEF product
  <1>3. creditPrice # 0 => product \div creditPrice \in Nat
    BY <1>2
  <1> QED BY <1>1, <1>3 DEF CreditsForIsa, product

\* Changing one account changes the sum of the balances by the change of its balance.
LEMMA BalancesChange ==
  ASSUME CreditsTypeOK, CreditsTypeOK', NEW a \in CreditHolder,
         \A b \in CreditHolder \ {a} : creditAccounts'[b] = creditAccounts[b]
  PROVE  /\ SumOver(CreditBalance, CreditHolder) \in Int
         /\ CreditBalance(a) \in Nat /\ CreditBalance(a)' \in Nat
         /\ SumOver(CreditBalance, CreditHolder)'
              = SumOver(CreditBalance, CreditHolder) - CreditBalance(a) + CreditBalance(a)'
  <1> DEFINE f == [b \in CreditHolder |-> CreditBalance(b)]
             g == [b \in CreditHolder |-> CreditBalance(b)']
  <1>1. \A b \in CreditHolder : CreditBalance(b) \in Nat /\ CreditBalance(b)' \in Nat
    BY DEF CreditsTypeOK, CreditBalance, CreditAccount
  <1>2. /\ f \in [CreditHolder -> Int] /\ g \in [CreditHolder -> Int]
        /\ \A b \in CreditHolder \ {a} : g[b] = f[b]
    BY <1>1 DEF CreditBalance
  <1>3. SumFunction(f) \in Int /\ SumFunction(g) = SumFunction(f) - f[a] + g[a]
    <2> HIDE DEF f, g
    <2> QED BY <1>2, CreditsTyped, SumInt, SumUpdate
  <1>4. f[a] = CreditBalance(a) /\ g[a] = CreditBalance(a)'
    OBVIOUS
  <1>5. SumOver(CreditBalance, CreditHolder)' = SumFunction(g)
    BY DEF SumOver
  <1>6. SumOver(CreditBalance, CreditHolder) = SumFunction(f)
    BY DEF SumOver
  <1> HIDE DEF f, g
  <1> QED BY <1>1, <1>3, <1>4, <1>5, <1>6

\* What a step leaves behind at the account it is about: the books still balance there, and
\* what left the accounts or came into them is in the totals.
LEMMA AccountStepKeepsBooks ==
  ASSUME CreditsInv, CreditsTypeOK', NEW a \in CreditHolder,
         \A b \in CreditHolder \ {a} : creditAccounts'[b] = creditAccounts[b],
         creditAccounts'[a] # NoAccount,
         Wrap(creditAccounts'[a].balance + creditAccounts'[a].spent)
           = creditAccounts'[a].purchased,
         Wrap(SumOver(CreditBalance, CreditHolder) - CreditBalance(a) + CreditBalance(a)'
                + creditsBurned') = creditsIssued'
  PROVE  CreditsAccounted'
  <1>1. Wrap(SumOver(CreditBalance, CreditHolder)' + creditsBurned') = creditsIssued'
    BY BalancesChange DEF CreditsInv
  <1>2. \A b \in CreditHolder : creditAccounts'[b] # NoAccount =>
          Wrap(creditAccounts'[b].balance + creditAccounts'[b].spent)
            = creditAccounts'[b].purchased
    BY DEF CreditsInv, CreditsAccounted
  <1> QED BY <1>1, <1>2 DEF CreditsAccounted, Wrap

\* An account, when there is one, balances.
LEMMA AccountBooks ==
  ASSUME CreditsInv, NEW a \in CreditHolder, creditAccounts[a] # NoAccount
  PROVE  /\ creditAccounts[a] \in CreditAccount
         /\ creditAccounts[a].balance \in Nat /\ creditAccounts[a].spent \in Nat
         /\ creditAccounts[a].purchased \in Nat
         /\ CreditBalance(a) = creditAccounts[a].balance
         /\ Wrap(creditAccounts[a].balance + creditAccounts[a].spent)
              = creditAccounts[a].purchased
  <1>1. creditAccounts[a] \in CreditAccount
    BY DEF CreditsInv, CreditsTypeOK
  <1> QED BY <1>1 DEF CreditsInv, CreditsAccounted, CreditAccount, CreditBalance

LEMMA TotalBooks ==
  ASSUME CreditsInv
  PROVE  /\ SumOver(CreditBalance, CreditHolder) \in Int
         /\ creditsBurned \in Nat /\ creditsIssued \in Nat
         /\ Wrap(SumOver(CreditBalance, CreditHolder) + creditsBurned) = creditsIssued
  <1>1. creditsBurned \in Nat /\ creditsIssued \in Nat
    BY CreditsTyped DEF CreditsInv, CreditsTypeOK
  <1>2. \A b \in CreditHolder : CreditBalance(b) \in Nat
    BY DEF CreditsInv, CreditsTypeOK, CreditBalance, CreditAccount
  <1> DEFINE f == [b \in CreditHolder |-> CreditBalance(b)]
  <1>3. f \in [CreditHolder -> Int]
    BY <1>2
  <1>4. SumFunction(f) \in Int
    <2> HIDE DEF f
    <2> QED BY <1>3, CreditsTyped, SumInt
  <1> QED BY <1>1, <1>4 DEF CreditsInv, CreditsAccounted, SumOver

LEMMA TopUpKeepsBooks ==
  ASSUME CreditsInv, NEW a \in CreditHolder, NEW credits \in Nat, TopUpAccount(a, credits),
         UNCHANGED creditsBurned, creditPrice' \in Nat, creditCalls' \in Nat
  PROVE  CreditsInv'
  <1> DEFINE old == IF creditAccounts[a] = NoAccount
                    THEN [balance |-> 0, purchased |-> 0, spent |-> 0] ELSE creditAccounts[a]
             balance == Wrap(old.balance + credits)
             purchased == Wrap(old.purchased + credits)
             new == [old EXCEPT !.balance = balance, !.purchased = purchased]
             rest == SumOver(CreditBalance, CreditHolder) - old.balance + creditsBurned
  <1>1. /\ old \in CreditAccount /\ old.balance \in Nat /\ old.spent \in Nat
        /\ old.purchased \in Nat /\ CreditBalance(a) = old.balance
        /\ Wrap(old.balance + old.spent) = old.purchased
    <2>1. CASE creditAccounts[a] = NoAccount
      <3>1. old = [balance |-> 0, purchased |-> 0, spent |-> 0]
        BY <2>1
      <3>2. Wrap(0) = 0
        BY WrapSmall, CreditsTyped
      <3> QED BY <2>1, <3>1, <3>2 DEF CreditAccount, CreditBalance
    <2>2. CASE creditAccounts[a] # NoAccount
      BY <2>2, AccountBooks
    <2> QED BY <2>1, <2>2
  <1>2. creditAccounts' = [creditAccounts EXCEPT ![a] = new]
    BY DEF TopUpAccount
  <1> HIDE DEF old
  <1>3. balance \in Nat /\ purchased \in Nat
    BY <1>1, WrapType
  <1>4. /\ new \in CreditAccount /\ new.balance = Wrap(old.balance + credits)
        /\ new.purchased = Wrap(old.purchased + credits) /\ new.spent = old.spent
        /\ new # NoAccount
    <2>1. balance = Wrap(old.balance + credits) /\ purchased = Wrap(old.purchased + credits)
      OBVIOUS
    <2> HIDE DEF balance, purchased
    <2>2. new \in CreditAccount /\ new.balance = balance /\ new.purchased = purchased
      BY <1>1, <1>3 DEF CreditAccount
    <2>3. new.spent = old.spent
      BY <1>1 DEF CreditAccount
    <2> QED BY <2>1, <2>2, <2>3, CreditsTyped
  <1> HIDE DEF new, balance, purchased
  <1>5. /\ creditAccounts \in [CreditHolder -> CreditAccount \cup {NoAccount}]
        /\ creditAccounts' = [creditAccounts EXCEPT ![a] = new]
    BY <1>2, <1>3 DEF CreditsInv, CreditsTypeOK
  <1>6. /\ creditsBurned \in Nat /\ creditsIssued \in Nat
        /\ SumOver(CreditBalance, CreditHolder) \in Int
        /\ Wrap(SumOver(CreditBalance, CreditHolder) + creditsBurned) = creditsIssued
    BY TotalBooks
  <1>7. creditsIssued' = Wrap(creditsIssued + credits)
    BY DEF TopUpAccount
  <1>8. CreditsTypeOK'
    <2>1. Wrap(creditsIssued + credits) \in 0 .. CreditModulus - 1
      BY <1>6, WrapType
    <2> QED BY <1>4, <1>5, <1>7, <2>1 DEF CreditsInv, CreditsTypeOK
  <1>9. /\ \A b \in CreditHolder \ {a} : creditAccounts'[b] = creditAccounts[b]
        /\ creditAccounts'[a] = new /\ CreditBalance(a)' = new.balance
    BY <1>4, <1>5 DEF CreditBalance
  <1>10. Wrap(new.balance + new.spent) = new.purchased
    <2>1. Wrap(Wrap(old.balance + credits) + old.spent) = Wrap((old.balance + credits) + old.spent)
      BY <1>1, WrapThree
    <2>2. Wrap(Wrap(old.balance + old.spent) + credits) = Wrap((old.balance + old.spent) + credits)
      BY <1>1, WrapThree
    <2>3. (old.balance + credits) + old.spent = (old.balance + old.spent) + credits
      BY <1>1
    <2> QED BY <1>1, <1>4, <2>1, <2>2, <2>3
  <1>11. Wrap(SumOver(CreditBalance, CreditHolder) - CreditBalance(a) + CreditBalance(a)'
                + creditsBurned') = creditsIssued'
    <2>1. rest \in Int /\ Wrap(old.balance + credits) \in Int
      BY <1>1, <1>6, WrapType
    <2>2. SumOver(CreditBalance, CreditHolder) - CreditBalance(a) + CreditBalance(a)'
                + creditsBurned' = Wrap(old.balance + credits) + rest
      BY <1>1, <1>4, <1>6, <1>9, <2>1
    <2>3. Wrap(Wrap(old.balance + credits) + rest) = Wrap((old.balance + credits) + rest)
      <3> HIDE DEF rest
      <3> QED BY <1>1, <2>1, WrapThree
    <2>4. (old.balance + credits) + rest
            = (SumOver(CreditBalance, CreditHolder) + creditsBurned) + credits
      BY <1>1, <1>6
    <2>5. Wrap(creditsIssued + credits)
            = Wrap((SumOver(CreditBalance, CreditHolder) + creditsBurned) + credits)
      BY <1>6, WrapThree
    <2> HIDE DEF rest
    <2> QED BY <1>7, <2>2, <2>3, <2>4, <2>5
  <1> QED BY <1>4, <1>8, <1>9, <1>10, <1>11, AccountStepKeepsBooks DEF CreditsInv

LEMMA SpendKeepsBooks ==
  ASSUME CreditsInv, NEW a \in CreditHolder, NEW credits \in Nat, SpendCredits(a, credits)
  PROVE  CreditsInv'
  <1> DEFINE old == creditAccounts[a]
             balance == old.balance - credits
             spent == Wrap(old.spent + credits)
             new == [old EXCEPT !.balance = balance, !.spent = spent]
             sum == SumOver(CreditBalance, CreditHolder)
  <1>1. /\ old \in CreditAccount /\ old.balance \in Nat /\ old.spent \in Nat
        /\ old.purchased \in Nat /\ CreditBalance(a) = old.balance
        /\ Wrap(old.balance + old.spent) = old.purchased
        /\ old.balance >= credits
    BY AccountBooks DEF SpendCredits
  <1>2. creditAccounts' = [creditAccounts EXCEPT ![a] = new]
    BY DEF SpendCredits, CreditsInv, CreditsTypeOK
  <1> HIDE DEF old
  <1>3. balance \in Nat /\ spent \in Nat
    BY <1>1, WrapType
  <1>4. /\ new \in CreditAccount /\ new.balance = old.balance - credits
        /\ new.purchased = old.purchased /\ new.spent = Wrap(old.spent + credits)
        /\ new # NoAccount
    <2>1. balance = old.balance - credits /\ spent = Wrap(old.spent + credits)
      OBVIOUS
    <2> HIDE DEF balance, spent
    <2>2. new \in CreditAccount /\ new.balance = balance /\ new.spent = spent
      BY <1>1, <1>3 DEF CreditAccount
    <2>3. new.purchased = old.purchased
      BY <1>1 DEF CreditAccount
    <2> QED BY <2>1, <2>2, <2>3, CreditsTyped
  <1> HIDE DEF new, balance, spent
  <1>5. /\ creditAccounts \in [CreditHolder -> CreditAccount \cup {NoAccount}]
        /\ creditAccounts' = [creditAccounts EXCEPT ![a] = new]
    BY <1>2, <1>3 DEF CreditsInv, CreditsTypeOK
  <1>6. creditsBurned \in Nat /\ creditsIssued \in Nat /\ sum \in Int
        /\ Wrap(sum + creditsBurned) = creditsIssued
    BY TotalBooks
  <1>7. creditsBurned' = Wrap(creditsBurned + credits) /\ creditsIssued' = creditsIssued
    BY DEF SpendCredits
  <1>8. CreditsTypeOK'
    <2>1. Wrap(creditsBurned + credits) \in 0 .. CreditModulus - 1
      BY <1>6, WrapType
    <2> QED BY <1>4, <1>5, <1>7, <2>1 DEF SpendCredits, CreditsInv, CreditsTypeOK
  <1>9. /\ \A b \in CreditHolder \ {a} : creditAccounts'[b] = creditAccounts[b]
        /\ creditAccounts'[a] = new /\ CreditBalance(a)' = new.balance
    BY <1>4, <1>5 DEF CreditBalance
  <1>10. Wrap(new.balance + new.spent) = new.purchased
    <2>1. Wrap(Wrap(old.spent + credits) + new.balance) = Wrap((old.spent + credits) + new.balance)
      BY <1>1, <1>3, <1>4, WrapThree
    <2>2. (old.spent + credits) + new.balance = old.balance + old.spent
      BY <1>1, <1>4
    <2>3. Wrap(old.spent + credits) + new.balance = new.balance + Wrap(old.spent + credits)
      BY <1>1, <1>4, WrapType
    <2> QED BY <1>1, <1>4, <2>1, <2>2, <2>3
  <1>11. Wrap(sum - CreditBalance(a) + CreditBalance(a)' + creditsBurned') = creditsIssued'
    <2> HIDE DEF sum
    <2> DEFINE less == sum - credits
    <2>1. less \in Int /\ Wrap(creditsBurned + credits) \in Int
      BY <1>6, WrapType
    <2>2. sum - CreditBalance(a) + CreditBalance(a)' + creditsBurned'
            = Wrap(creditsBurned + credits) + less
      BY <1>1, <1>4, <1>6, <1>7, <1>9, <2>1
    <2>3. Wrap(Wrap(creditsBurned + credits) + less) = Wrap((creditsBurned + credits) + less)
      <3> HIDE DEF less
      <3> QED BY <1>6, <2>1, WrapThree
    <2>4. (creditsBurned + credits) + less = sum + creditsBurned
      BY <1>6
    <2> HIDE DEF less
    <2> QED BY <1>6, <1>7, <2>2, <2>3, <2>4
  <1> QED BY <1>4, <1>8, <1>9, <1>10, <1>11, AccountStepKeepsBooks DEF CreditsInv

LEMMA CreditsInvInit == CreditsInit => CreditsInv
  <1> SUFFICES ASSUME CreditsInit PROVE CreditsInv
    OBVIOUS
  <1> DEFINE f == [b \in CreditHolder |-> CreditBalance(b)]
  <1>1. DOMAIN f = CreditHolder /\ \A b \in CreditHolder : f[b] = 0
    BY DEF CreditsInit, CreditBalance
  <1>2. SumFunction(f) = 0
    <2> HIDE DEF f
    <2> QED BY <1>1, CreditsTyped, SumZero
  <1>3. SumOver(CreditBalance, CreditHolder) = 0
    BY <1>2 DEF SumOver
  <1>4. Wrap(0) = 0
    BY WrapSmall, CreditsTyped
  <1> QED BY <1>3, <1>4, CreditsTyped DEF CreditsInit, CreditsInv, CreditsTypeOK, CreditsAccounted

\* In any order of purchases, grants, spending and prices, the accounts and the totals agree
\* up to multiples of 2^128.
LEMMA CreditsInvStep ==
  ASSUME CreditsInv, [CreditsNext]_creditVars
  PROVE  CreditsInv'
  <1> USE DEF CreditsInv
  <1>1. CASE UNCHANGED creditVars
    BY <1>1 DEF creditVars, CreditsTypeOK, CreditsAccounted, SumOver, CreditBalance, Wrap
  <1>2. ASSUME NEW a \in CreditHolder, NEW isa \in IsaAmounts, NEW price \in CreditIsaPrices,
               PurchaseCredits(a, isa, price)
        PROVE  CreditsInv'
    <2>1. CreditsForIsa(isa, price) \in Nat
      BY CreditsForIsaNat DEF CreditsTypeOK
    <2> QED BY <1>2, <2>1, TopUpKeepsBooks DEF PurchaseCredits, CreditsTypeOK
  <1>3. ASSUME NEW a \in CreditHolder, NEW credits \in CreditAmounts, SpendCredits(a, credits)
        PROVE  CreditsInv'
    BY <1>3, SpendKeepsBooks, CreditsTyped
  <1>4. ASSUME NEW a \in CreditHolder, NEW caller \in CreditHolder, NEW credits \in CreditAmounts,
               GrantCredits(a, credits, caller)
        PROVE  CreditsInv'
    <2>1. credits \in Nat
      BY CreditsTyped
    <2> QED BY <1>4, <2>1, TopUpKeepsBooks DEF GrantCredits, CreditsTypeOK
  <1>5. ASSUME NEW price \in CreditPrices, NEW caller \in CreditHolder,
               SetCreditPrice(price, caller)
        PROVE  CreditsInv'
    BY <1>5, CreditsTyped
       DEF SetCreditPrice, CreditsTypeOK, CreditsAccounted, SumOver, CreditBalance, Wrap
  <1> QED BY <1>1, <1>2, <1>3, <1>4, <1>5 DEF CreditsNext

----------------------------------------------------------------------------
(* The credit bridge *)

CreditBridgeInv == CreditBridgeTypeOK /\ EventsAccounted

LEMMA BridgeEventFields ==
  ASSUME CreditBridgeTypeOK
  PROVE  /\ DOMAIN bridgeEvents = 1 .. Len(bridgeEvents) /\ Len(bridgeEvents) \in Nat
         /\ \A i \in DOMAIN bridgeEvents :
              /\ bridgeEvents[i] \in CreditBridgeEvent
              /\ bridgeEvents[i].credit \in Nat /\ bridgeEvents[i].isa \in Nat
         /\ \A status : EventsIn(status) \subseteq DOMAIN bridgeEvents
         /\ \A status : IsFiniteSet(EventsIn(status)) /\ Cardinality(EventsIn(status)) \in Nat
  <1>1. bridgeEvents \in Seq(CreditBridgeEvent)
    BY DEF CreditBridgeTypeOK
  <1>2. DOMAIN bridgeEvents = 1 .. Len(bridgeEvents) /\ Len(bridgeEvents) \in Nat
    BY <1>1
  <1>3. \A i \in DOMAIN bridgeEvents : bridgeEvents[i] \in CreditBridgeEvent
    BY <1>1
  <1>4. \A e \in CreditBridgeEvent : e.credit \in Nat /\ e.isa \in Nat
    BY DEF CreditBridgeEvent
  <1>5. IsFiniteSet(DOMAIN bridgeEvents)
    BY <1>2, FS_Interval
  <1>6. \A status : EventsIn(status) \subseteq DOMAIN bridgeEvents
    BY DEF EventsIn
  <1> QED BY <1>2, <1>3, <1>4, <1>5, <1>6, FS_Subset, FS_CardinalityType

\* A new event waits, and changes nothing about the others.
LEMMA InitiateKeepsEvents ==
  ASSUME CreditBridgeInv, NEW type \in BridgeEventType, NEW credit \in Nat, NEW isa \in Nat,
         InitiateEvent(type, credit, isa)
  PROVE  CreditBridgeInv'
  <1> DEFINE new == [type |-> type, credit |-> credit, isa |-> isa, status |-> "Initiated"]
             place == Len(bridgeEvents) + 1
  <1>1. CreditBridgeTypeOK /\ EventsAccounted
    BY DEF CreditBridgeInv
  <1>2. new \in CreditBridgeEvent
    BY DEF CreditBridgeEvent, BridgeEventStatus
  <1>3. /\ bridgeEvents' = Append(bridgeEvents, new) /\ pendingCount' = pendingCount + 1
        /\ UNCHANGED <<creditsBridged, isaBridged>>
    BY DEF InitiateEvent
  <1>4. /\ bridgeEvents' \in Seq(CreditBridgeEvent)
        /\ DOMAIN bridgeEvents' = DOMAIN bridgeEvents \cup {place}
        /\ place \notin DOMAIN bridgeEvents /\ bridgeEvents'[place] = new
        /\ \A i \in DOMAIN bridgeEvents : bridgeEvents'[i] = bridgeEvents[i]
    <2> HIDE DEF new
    <2> QED BY <1>1, <1>2, <1>3, BridgeEventFields DEF CreditBridgeTypeOK
  <1>5. CreditBridgeTypeOK'
    BY <1>1, <1>3, <1>4 DEF CreditBridgeTypeOK
  <1>6. /\ EventsIn("Initiated")' = EventsIn("Initiated") \cup {place}
        /\ EventsIn("Completed")' = EventsIn("Completed") /\ place \notin EventsIn("Initiated")
    BY <1>4 DEF EventsIn
  <1>7. Cardinality(EventsIn("Initiated")') = Cardinality(EventsIn("Initiated")) + 1
    <2> HIDE DEF place
    <2> QED BY <1>1, <1>6, BridgeEventFields, FS_AddElement
  <1>8. /\ [i \in EventsIn("Completed")' |-> bridgeEvents'[i].credit]
             = [i \in EventsIn("Completed") |-> bridgeEvents[i].credit]
        /\ [i \in EventsIn("Completed")' |-> bridgeEvents'[i].isa]
             = [i \in EventsIn("Completed") |-> bridgeEvents[i].isa]
    BY <1>1, <1>4, <1>6, BridgeEventFields
  <1>9. EventsAccounted'
    BY <1>1, <1>3, <1>7, <1>8 DEF EventsAccounted, SumOver
  <1> QED BY <1>5, <1>9 DEF CreditBridgeInv

\* An event that ends leaves those that wait, and joins those that ended in this way.
LEMMA EndedEvent ==
  ASSUME CreditBridgeInv, NEW i \in DOMAIN bridgeEvents, NEW status \in BridgeEventStatus,
         status # "Initiated", EndEvent(i, status)
  PROVE  /\ bridgeEvents' \in Seq(CreditBridgeEvent)
         /\ DOMAIN bridgeEvents' = DOMAIN bridgeEvents
         /\ \A k \in DOMAIN bridgeEvents : /\ bridgeEvents'[k].credit = bridgeEvents[k].credit
                                           /\ bridgeEvents'[k].isa = bridgeEvents[k].isa
         /\ EventsIn(status)' = EventsIn(status) \cup {i} /\ i \notin EventsIn(status)
         /\ \A other : other \notin {"Initiated", status} => EventsIn(other)' = EventsIn(other)
         /\ pendingCount' \in Nat /\ pendingCount' = Cardinality(EventsIn("Initiated")')
  <1> DEFINE old == bridgeEvents[i]
             new == [old EXCEPT !.status = status]
  <1>1. CreditBridgeTypeOK /\ EventsAccounted
    BY DEF CreditBridgeInv
  <1>2. old \in CreditBridgeEvent /\ old.status = "Initiated"
    BY <1>1, BridgeEventFields DEF EndEvent
  <1>3. bridgeEvents' = [bridgeEvents EXCEPT ![i] = new]
    BY DEF EndEvent
  <1>4. /\ new \in CreditBridgeEvent /\ new.status = status
        /\ new.credit = old.credit /\ new.isa = old.isa
    <2> HIDE DEF old
    <2> QED BY <1>2 DEF CreditBridgeEvent
  <1>5. /\ bridgeEvents' \in Seq(CreditBridgeEvent) /\ DOMAIN bridgeEvents' = DOMAIN bridgeEvents
        /\ bridgeEvents'[i] = new
        /\ \A k \in DOMAIN bridgeEvents \ {i} : bridgeEvents'[k] = bridgeEvents[k]
    <2> HIDE DEF new
    <2> QED BY <1>1, <1>3, <1>4 DEF CreditBridgeTypeOK
  <1>6. /\ EventsIn("Initiated")' = EventsIn("Initiated") \ {i} /\ i \in EventsIn("Initiated")
        /\ EventsIn(status)' = EventsIn(status) \cup {i} /\ i \notin EventsIn(status)
        /\ \A other : other \notin {"Initiated", status} => EventsIn(other)' = EventsIn(other)
    <2> HIDE DEF new
    <2> QED BY <1>2, <1>4, <1>5 DEF EventsIn
  <1>7. pendingCount' \in Nat /\ pendingCount' = Cardinality(EventsIn("Initiated")')
    <2>1. Cardinality(EventsIn("Initiated") \ {i}) = Cardinality(EventsIn("Initiated")) - 1
      BY <1>1, <1>6, BridgeEventFields, FS_RemoveElement
    <2>2. Cardinality(EventsIn("Initiated") \ {i}) \in Nat
      BY <1>1, BridgeEventFields, FS_RemoveElement, FS_CardinalityType
    <2>3. pendingCount = Cardinality(EventsIn("Initiated")) /\ pendingCount \in Nat
      BY <1>1, BridgeEventFields DEF EventsAccounted
    <2>4. pendingCount' = Monus(pendingCount, 1)
      BY DEF EndEvent
    <2>5. PICK n \in Nat : n = Cardinality(EventsIn("Initiated") \ {i})
      BY <2>2
    <2>6. pendingCount = n + 1
      BY <2>1, <2>3, <2>5
    <2>7. Monus(pendingCount, 1) = n
      BY <2>6 DEF Monus
    <2> QED BY <1>6, <2>4, <2>5, <2>7
  <1> QED BY <1>4, <1>5, <1>6, <1>7

LEMMA CompleteKeepsEvents ==
  ASSUME CreditBridgeInv, NEW i \in DOMAIN bridgeEvents, CompleteEvent(i)
  PROVE  CreditBridgeInv'
  <1> DEFINE done == EventsIn("Completed")
             f == [k \in done |-> bridgeEvents[k].credit]
             g == [k \in done \cup {i} |-> bridgeEvents[k].credit]
             p == [k \in done |-> bridgeEvents[k].isa]
             q == [k \in done \cup {i} |-> bridgeEvents[k].isa]
  <1>1. CreditBridgeTypeOK /\ EventsAccounted
    BY DEF CreditBridgeInv
  <1>2. "Completed" \in BridgeEventStatus /\ EndEvent(i, "Completed")
    BY DEF CompleteEvent, BridgeEventStatus
  <1>3. /\ bridgeEvents' \in Seq(CreditBridgeEvent)
        /\ DOMAIN bridgeEvents' = DOMAIN bridgeEvents
        /\ \A k \in DOMAIN bridgeEvents : /\ bridgeEvents'[k].credit = bridgeEvents[k].credit
                                          /\ bridgeEvents'[k].isa = bridgeEvents[k].isa
        /\ EventsIn("Completed")' = done \cup {i} /\ i \notin done
        /\ pendingCount' \in Nat /\ pendingCount' = Cardinality(EventsIn("Initiated")')
    BY <1>2, EndedEvent
  <1>4. IsFiniteSet(done) /\ done \subseteq DOMAIN bridgeEvents
    BY <1>1, BridgeEventFields
  <1>5. /\ f \in [done -> Int] /\ g \in [done \cup {i} -> Int] /\ \A k \in done : g[k] = f[k]
        /\ p \in [done -> Int] /\ q \in [done \cup {i} -> Int] /\ \A k \in done : q[k] = p[k]
    BY <1>1, <1>4, BridgeEventFields
  <1>6. g[i] = bridgeEvents[i].credit /\ q[i] = bridgeEvents[i].isa
    OBVIOUS
  <1>7. /\ [k \in EventsIn("Completed")' |-> bridgeEvents'[k].credit] = g
        /\ [k \in EventsIn("Completed")' |-> bridgeEvents'[k].isa] = q
    BY <1>3, <1>4
  <1>8. creditsBridged = SumFunction(f) /\ isaBridged = SumFunction(p)
    BY <1>1 DEF EventsAccounted, SumOver
  <1>9. /\ creditsBridged' = creditsBridged + bridgeEvents[i].credit
        /\ isaBridged' = isaBridged + bridgeEvents[i].isa
    BY DEF CompleteEvent
  <1> HIDE DEF done, f, g, p, q
  <1>10. SumFunction(g) = SumFunction(f) + g[i] /\ SumFunction(q) = SumFunction(p) + q[i]
    <2>1. IsFiniteSet(done) /\ i \notin done
      BY <1>3, <1>4
    <2>2. f \in [done -> Int] /\ g \in [done \cup {i} -> Int] /\ \A k \in done : g[k] = f[k]
      BY <1>5
    <2>3. p \in [done -> Int] /\ q \in [done \cup {i} -> Int] /\ \A k \in done : q[k] = p[k]
      BY <1>5
    <2>4. SumFunction(g) = SumFunction(f) + g[i]
      BY <2>1, <2>2, SumExtend
    <2>5. SumFunction(q) = SumFunction(p) + q[i]
      BY <2>1, <2>3, SumExtend
    <2> QED BY <2>4, <2>5
  <1>11. creditsBridged' = SumFunction(g) /\ isaBridged' = SumFunction(q)
    BY <1>6, <1>8, <1>9, <1>10
  <1>12. EventsAccounted'
    BY <1>3, <1>7, <1>11 DEF EventsAccounted, SumOver
  <1>13. creditsBridged' \in Nat /\ isaBridged' \in Nat
    BY <1>1, <1>9, BridgeEventFields DEF CreditBridgeTypeOK
  <1> QED BY <1>3, <1>12, <1>13 DEF CreditBridgeInv, CreditBridgeTypeOK

LEMMA FailKeepsEvents ==
  ASSUME CreditBridgeInv, NEW i \in DOMAIN bridgeEvents, FailEvent(i)
  PROVE  CreditBridgeInv'
  <1>1. CreditBridgeTypeOK /\ EventsAccounted
    BY DEF CreditBridgeInv
  <1>2. /\ "Failed" \in BridgeEventStatus /\ EndEvent(i, "Failed")
        /\ UNCHANGED <<creditsBridged, isaBridged>>
    BY DEF FailEvent, BridgeEventStatus
  <1>3. /\ bridgeEvents' \in Seq(CreditBridgeEvent)
        /\ DOMAIN bridgeEvents' = DOMAIN bridgeEvents
        /\ \A k \in DOMAIN bridgeEvents : /\ bridgeEvents'[k].credit = bridgeEvents[k].credit
                                          /\ bridgeEvents'[k].isa = bridgeEvents[k].isa
        /\ EventsIn("Completed")' = EventsIn("Completed")
        /\ pendingCount' \in Nat /\ pendingCount' = Cardinality(EventsIn("Initiated")')
    BY <1>2, EndedEvent
  <1>4. EventsIn("Completed") \subseteq DOMAIN bridgeEvents
    BY <1>1, BridgeEventFields
  <1>5. /\ [k \in EventsIn("Completed")' |-> bridgeEvents'[k].credit]
             = [k \in EventsIn("Completed") |-> bridgeEvents[k].credit]
        /\ [k \in EventsIn("Completed")' |-> bridgeEvents'[k].isa]
             = [k \in EventsIn("Completed") |-> bridgeEvents[k].isa]
    BY <1>3, <1>4
  <1>6. EventsAccounted'
    BY <1>1, <1>2, <1>3, <1>5 DEF EventsAccounted, SumOver
  <1> QED BY <1>1, <1>2, <1>3, <1>6 DEF CreditBridgeInv, CreditBridgeTypeOK

LEMMA CreditBridgeInvInit == CreditBridgeInit => CreditBridgeInv
  <1> SUFFICES ASSUME CreditBridgeInit PROVE CreditBridgeInv
    OBVIOUS
  <1>1. bridgeEvents \in Seq(CreditBridgeEvent) /\ \A status : EventsIn(status) = {}
    BY DEF CreditBridgeInit, EventsIn
  <1> DEFINE f == [i \in EventsIn("Completed") |-> bridgeEvents[i].credit]
             p == [i \in EventsIn("Completed") |-> bridgeEvents[i].isa]
  <1>2. DOMAIN f = {} /\ DOMAIN p = {} /\ IsFiniteSet({}) /\ Cardinality({}) = 0
    BY <1>1, FS_EmptySet
  <1>3. SumFunction(f) = 0 /\ SumFunction(p) = 0
    <2> HIDE DEF f, p
    <2> QED BY <1>2, SumZero
  <1> QED BY <1>1, <1>2, <1>3
          DEF CreditBridgeInit, CreditBridgeInv, CreditBridgeTypeOK, EventsAccounted, SumOver

\* In whatever order events are initiated, completed and fail, the count and the totals of the
\* bridge are those of its events.
LEMMA CreditBridgeInvStep ==
  ASSUME CreditBridgeInv, [CreditBridgeNext]_creditBridgeVars
  PROVE  CreditBridgeInv'
  <1>1. CASE UNCHANGED creditBridgeVars
    BY <1>1 DEF creditBridgeVars, CreditBridgeInv, CreditBridgeTypeOK, EventsAccounted, SumOver,
                EventsIn
  <1>2. CASE CreditBridgeNext
    BY <1>2, CreditBridgeTyped, InitiateKeepsEvents, CompleteKeepsEvents, FailKeepsEvents
       DEF CreditBridgeNext
  <1> QED BY <1>1, <1>2

----------------------------------------------------------------------------
(* The cross-chain bridge *)

BridgeInv == CrossChainTypeOK /\ BridgeAccounted

LEMMA TransferFields ==
  ASSUME CrossChainTypeOK
  PROVE  /\ DOMAIN transfers = 1 .. Len(transfers) /\ Len(transfers) \in Nat
         /\ IsFiniteSet(DOMAIN transfers)
         /\ \A i \in DOMAIN transfers :
              /\ transfers[i] \in CrossChainTransfer
              /\ transfers[i].amount \in BridgeAmounts /\ transfers[i].amount \in Nat
              /\ TransferLocked(i) \in Nat
  <1>1. transfers \in Seq(CrossChainTransfer)
    BY DEF CrossChainTypeOK
  <1>2. DOMAIN transfers = 1 .. Len(transfers) /\ Len(transfers) \in Nat
    BY <1>1
  <1>3. IsFiniteSet(DOMAIN transfers)
    BY <1>2, FS_Interval
  <1>4. \A i \in DOMAIN transfers : transfers[i] \in CrossChainTransfer
    BY <1>1
  <1>5. \A x \in CrossChainTransfer : x.amount \in BridgeAmounts /\ x.amount \in Nat
    BY BridgeTyped DEF CrossChainTransfer
  <1> QED BY <1>2, <1>3, <1>4, <1>5 DEF TransferLocked

\* The sums that the property is about, as numbers.
LEMMA BridgeSums ==
  ASSUME BridgeInv
  PROVE  /\ totalLocked \in Nat /\ totalTransferred \in Nat
         /\ bridgeRefunded \in Nat /\ bridgeFees \in Nat
         /\ SumFunction([i \in DOMAIN transfers |-> TransferLocked(i)]) = totalLocked
         /\ SumFunction([i \in DOMAIN transfers |-> transfers[i].amount])
              = totalLocked + totalTransferred + bridgeRefunded + bridgeFees
  BY DEF BridgeInv, CrossChainTypeOK, BridgeAccounted, SumOver

LEMMA InitiateKeepsBridge ==
  ASSUME BridgeInv, NEW n \in BridgeAmounts, NEW chain \in DestChain, InitiateTransfer(n, chain)
  PROVE  BridgeInv'
  <1>a. PICK place \in Nat : place = Len(transfers) + 1
    BY TransferFields DEF BridgeInv
  <1> DEFINE new == [amount |-> n, status |-> "Locked"]
             D == DOMAIN transfers
             f == [i \in D |-> TransferLocked(i)]
             g == [i \in D \cup {place} |-> TransferLocked(i)']
             p == [i \in D |-> transfers[i].amount]
             q == [i \in D \cup {place} |-> transfers'[i].amount]
  <1>1. n \in Nat /\ CrossChainTypeOK
    BY BridgeTyped DEF BridgeInv
  <1>2. /\ transfers' = Append(transfers, new) /\ totalLocked' = totalLocked + n
        /\ UNCHANGED <<supportedChains, relayers, totalTransferred, bridgeRefunded, bridgeFees>>
    BY DEF InitiateTransfer, bridgeHistory
  <1>3. new \in CrossChainTransfer
    BY DEF CrossChainTransfer, TransferStatus
  <1>4. /\ transfers' \in Seq(CrossChainTransfer) /\ DOMAIN transfers' = D \cup {place}
        /\ place \notin D /\ transfers'[place] = new
        /\ \A i \in D : transfers'[i] = transfers[i]
    <2> HIDE DEF new
    <2> QED BY <1>a, <1>1, <1>2, <1>3, TransferFields DEF CrossChainTypeOK
  <1>5. CrossChainTypeOK'
    BY <1>1, <1>2, <1>4 DEF CrossChainTypeOK
  <1>6. TransferLocked(place)' = n /\ \A i \in D : TransferLocked(i)' = TransferLocked(i)
    BY <1>4 DEF TransferLocked
  <1>7. IsFiniteSet(D) /\ \A i \in D : TransferLocked(i) \in Nat /\ transfers[i].amount \in Nat
    BY <1>1, TransferFields
  <1>8. f \in [D -> Int] /\ g \in [D \cup {place} -> Int] /\ \A i \in D : g[i] = f[i]
    BY <1>1, <1>6, <1>7
  <1>9. p \in [D -> Int] /\ q \in [D \cup {place} -> Int] /\ \A i \in D : q[i] = p[i]
    BY <1>1, <1>4, <1>7
  <1>10. g[place] = n /\ q[place] = n
    BY <1>4, <1>6
  <1>11. /\ SumFunction([i \in DOMAIN transfers' |-> TransferLocked(i)']) = SumFunction(g)
         /\ SumFunction([i \in DOMAIN transfers' |-> transfers'[i].amount]) = SumFunction(q)
    BY <1>4
  <1>12. /\ totalLocked \in Nat /\ totalTransferred \in Nat
         /\ bridgeRefunded \in Nat /\ bridgeFees \in Nat
         /\ SumFunction(f) = totalLocked
         /\ SumFunction(p) = totalLocked + totalTransferred + bridgeRefunded + bridgeFees
    BY BridgeSums
  <1>13. IsFiniteSet(D) /\ place \notin D
    BY <1>4, <1>7
  <1> HIDE DEF f, g, p, q, D
  <1>14. SumFunction(g) = SumFunction(f) + g[place]
    <2>1. PICK F \in [D -> Int], G \in [D \cup {place} -> Int] :
            F = f /\ G = g /\ \A i \in D : G[i] = F[i]
      BY <1>8
    <2>2. SumFunction(G) = SumFunction(F) + G[place]
      BY <1>13, <2>1, SumExtend
    <2> QED BY <2>1, <2>2
  <1>15. SumFunction(q) = SumFunction(p) + q[place]
    BY <1>9, <1>13, SumExtend
  <1>16. SumFunction(g) = totalLocked + n
    BY <1>10, <1>12, <1>14
  <1>17. SumFunction(q) = (totalLocked + n) + totalTransferred + bridgeRefunded + bridgeFees
    BY <1>1, <1>10, <1>12, <1>15
  <1>18. BridgeAccounted'
    BY <1>2, <1>11, <1>16, <1>17 DEF BridgeAccounted, SumOver
  <1> QED BY <1>5, <1>18 DEF BridgeInv

\* A transfer that is open is completed or refunded; of its amount a fee stays.
LEMMA EndKeepsBridge ==
  ASSUME BridgeInv, NEW i \in DOMAIN transfers, NEW relayer \in BridgeUser,
         ConfirmTransfer(i, relayer) \/ RefundTransfer(i, relayer)
  PROVE  BridgeInv'
  <1> DEFINE old == transfers[i]
             gross == old.amount
             fee == BridgeFee(gross)
             D == DOMAIN transfers
             f == [k \in D |-> TransferLocked(k)]
             g == [k \in D |-> TransferLocked(k)']
             p == [k \in D |-> transfers[k].amount]
  <1>1. CrossChainTypeOK /\ old \in CrossChainTransfer /\ gross \in Nat /\ fee \in 0 .. gross
    BY BridgeTyped, TransferFields DEF BridgeInv
  <1>2. old.status = "Locked" /\ UNCHANGED <<supportedChains, relayers>>
    BY DEF ConfirmTransfer, RefundTransfer
  <1>3. PICK status \in {"Completed", "Refunded"} :
          transfers' = [transfers EXCEPT ![i] = [old EXCEPT !.status = status]]
    BY DEF ConfirmTransfer, RefundTransfer
  <1>4. /\ totalLocked' = Monus(totalLocked, gross) /\ bridgeFees' = bridgeFees + fee
        /\ \/ /\ totalTransferred' = totalTransferred + (gross - fee)
              /\ bridgeRefunded' = bridgeRefunded
           \/ /\ bridgeRefunded' = bridgeRefunded + (gross - fee)
              /\ totalTransferred' = totalTransferred
    BY DEF ConfirmTransfer, RefundTransfer
  <1> DEFINE new == [old EXCEPT !.status = status]
  <1>5. new \in CrossChainTransfer /\ new.amount = gross /\ new.status = status
    <2> HIDE DEF old
    <2> QED BY <1>1 DEF CrossChainTransfer, TransferStatus
  <1>6. /\ transfers' \in Seq(CrossChainTransfer) /\ DOMAIN transfers' = D
        /\ transfers'[i] = new /\ \A k \in D \ {i} : transfers'[k] = transfers[k]
    <2>1. transfers' = [transfers EXCEPT ![i] = new]
      BY <1>3
    <2> HIDE DEF new
    <2> QED BY <1>1, <1>5, <2>1, TransferFields DEF CrossChainTypeOK
  <1>7. /\ TransferLocked(i) = gross /\ TransferLocked(i)' = 0
        /\ \A k \in D \ {i} : TransferLocked(k)' = TransferLocked(k)
        /\ \A k \in D : transfers'[k].amount = transfers[k].amount
    BY <1>2, <1>5, <1>6 DEF TransferLocked
  <1>8. IsFiniteSet(D) /\ \A k \in D : TransferLocked(k) \in Nat
    BY <1>1, TransferFields
  <1>9. f \in [D -> Nat] /\ g \in [D -> Nat] /\ \A k \in D \ {i} : g[k] = f[k]
    BY <1>7, <1>8
  <1>10. f[i] = gross /\ g[i] = 0
    BY <1>7
  <1>11. /\ SumFunction([k \in DOMAIN transfers' |-> TransferLocked(k)']) = SumFunction(g)
         /\ SumFunction([k \in DOMAIN transfers' |-> transfers'[k].amount]) = SumFunction(p)
    <2>1. [k \in DOMAIN transfers' |-> transfers'[k].amount] = p
      BY <1>6, <1>7
    <2> QED BY <1>6, <2>1
  <1>12. /\ totalLocked \in Nat /\ totalTransferred \in Nat
         /\ bridgeRefunded \in Nat /\ bridgeFees \in Nat
         /\ SumFunction(f) = totalLocked
         /\ SumFunction(p) = totalLocked + totalTransferred + bridgeRefunded + bridgeFees
    BY BridgeSums
  <1> HIDE DEF f, g, p, D, gross, fee
  <1>13. i \in D
    BY DEF D
  <1>14. f[i] <= SumFunction(f)
    BY <1>8, <1>9, <1>13, SumAtLeast
  <1>15. SumFunction(g) = SumFunction(f) - f[i] + g[i]
    <2>1. f \in [D -> Int] /\ g \in [D -> Int]
      BY <1>9
    <2> QED BY <1>8, <1>9, <1>13, <2>1, SumUpdate
  <1>16. Monus(totalLocked, gross) = totalLocked - gross /\ gross <= totalLocked
    BY <1>1, <1>10, <1>12, <1>14 DEF Monus
  <1>17. SumFunction(g) = totalLocked - gross
    BY <1>1, <1>10, <1>12, <1>15
  <1>18. PICK transferred \in Nat, refunded \in Nat :
           /\ totalTransferred' = transferred /\ bridgeRefunded' = refunded
           /\ transferred + refunded = totalTransferred + bridgeRefunded + (gross - fee)
    <2>1. /\ totalTransferred + (gross - fee) \in Nat
          /\ bridgeRefunded + (gross - fee) \in Nat
      BY <1>1, <1>12
    <2>2. CASE /\ totalTransferred' = totalTransferred + (gross - fee)
               /\ bridgeRefunded' = bridgeRefunded
      BY <1>1, <1>12, <2>1, <2>2
    <2>3. CASE /\ bridgeRefunded' = bridgeRefunded + (gross - fee)
               /\ totalTransferred' = totalTransferred
      BY <1>1, <1>12, <2>1, <2>3
    <2> QED BY <1>4, <2>2, <2>3
  <1>19. SumFunction(p)
           = (totalLocked - gross) + transferred + refunded + (bridgeFees + fee)
    BY <1>1, <1>12, <1>18
  <1>20. BridgeAccounted'
    BY <1>4, <1>11, <1>16, <1>17, <1>18, <1>19 DEF BridgeAccounted, SumOver
  <1>21. totalLocked - gross \in Nat /\ bridgeFees + fee \in Nat
    BY <1>1, <1>12, <1>16
  <1>22. CrossChainTypeOK'
    BY <1>1, <1>2, <1>4, <1>6, <1>16, <1>18, <1>21 DEF CrossChainTypeOK
  <1> QED BY <1>20, <1>22 DEF BridgeInv

LEMMA BridgeInvInit == CrossChainInit => BridgeInv
  <1> SUFFICES ASSUME CrossChainInit PROVE BridgeInv
    OBVIOUS
  <1> DEFINE f == [i \in DOMAIN transfers |-> TransferLocked(i)]
             p == [i \in DOMAIN transfers |-> transfers[i].amount]
  <1>1. transfers \in Seq(CrossChainTransfer) /\ DOMAIN transfers = {}
    BY DEF CrossChainInit
  <1>2. DOMAIN f = {} /\ DOMAIN p = {} /\ IsFiniteSet({})
    BY <1>1, FS_EmptySet
  <1>3. SumFunction(f) = 0 /\ SumFunction(p) = 0
    <2> HIDE DEF f, p
    <2> QED BY <1>2, SumZero
  <1> QED BY <1>1, <1>3, BridgeTyped
          DEF CrossChainInit, BridgeInv, CrossChainTypeOK, BridgeAccounted, SumOver

\* In whatever order transfers are initiated, confirmed and refunded, what went in is locked,
\* on the other chain, refunded or a fee.
LEMMA BridgeInvStep ==
  ASSUME BridgeInv, [CrossChainNext]_bridgeVars
  PROVE  BridgeInv'
  <1>1. CASE UNCHANGED bridgeVars
    BY <1>1 DEF bridgeVars, bridgeHistory, BridgeInv, CrossChainTypeOK, BridgeAccounted, SumOver,
                TransferLocked
  <1>2. ASSUME NEW chain \in DestChain, AddSupportedChain(chain)
        PROVE  BridgeInv'
    BY <1>2 DEF AddSupportedChain, bridgeHistory, BridgeInv, CrossChainTypeOK, BridgeAccounted,
                SumOver, TransferLocked
  <1>3. ASSUME NEW address \in BridgeUser, NEW caller \in BridgeUser, AddRelayer(address, caller)
        PROVE  BridgeInv'
    BY <1>3 DEF AddRelayer, bridgeHistory, BridgeInv, CrossChainTypeOK, BridgeAccounted,
                SumOver, TransferLocked
  <1>4. CASE CrossChainNext
    BY <1>2, <1>3, <1>4, InitiateKeepsBridge, EndKeepsBridge DEF CrossChainNext
  <1> QED BY <1>1, <1>4

----------------------------------------------------------------------------
(* The limit of withdrawals *)

\* A request that was made is in its user's list.
RequestsListed == \A w \in WithdrawalId : withdrawals[w] # NoWithdrawal => withdrawalListed[w] >= 1

WithdrawalsInv == WithdrawalsTypeOK /\ RequestsListed /\ OpenWithinLimit

\* What the open requests of w's user hold.
OpenOf(w) == SumOver(WithdrawalHeld, {v \in WithdrawalId : v.user = w.user})

LEMMA ProductAtLeast ==
  ASSUME NEW n \in Nat, NEW h \in Nat, n >= 1
  PROVE  n * h \in Nat /\ h <= n * h
  <1>1. PICK m \in Nat : n = m + 1
    OBVIOUS
  <1>2. (m + 1) * h = m * h + h /\ m * h \in Nat
    OBVIOUS
  <1> DEFINE x == m * h
  <1>3. x \in Nat /\ n * h = x + h
    BY <1>1, <1>2
  <1> HIDE DEF x
  <1> QED BY <1>3

LEMMA HeldIsNatural ==
  ASSUME NEW w \in WithdrawalId
  PROVE  WithdrawalHeld(w) \in Nat
  BY WithdrawalIdFields DEF WithdrawalHeld

\* The limit counts every open request at least once.
LEMMA PendingCoversOpen ==
  ASSUME WithdrawalsInv, NEW w \in WithdrawalId
  PROVE  /\ UserPendingCredits(w.user) \in Nat /\ OpenOf(w) \in Nat
         /\ OpenOf(w) <= UserPendingCredits(w.user)
  <1> DEFINE U == {v \in WithdrawalId : v.user = w.user}
             f == [v \in U |-> WithdrawalHeld(v)]
             g == [v \in U |-> withdrawalListed[v] * WithdrawalHeld(v)]
  <1>1. IsFiniteSet(U)
    BY WithdrawalsTyped, FS_Subset
  <1>2. ASSUME NEW v \in U
        PROVE  /\ f[v] \in Nat /\ g[v] \in Nat /\ f[v] <= g[v]
    <2>1. WithdrawalHeld(v) \in Nat /\ withdrawalListed[v] \in Nat
      BY HeldIsNatural DEF WithdrawalsInv, WithdrawalsTypeOK
    <2>2. CASE withdrawals[v] = NoWithdrawal
      <3>1. WithdrawalHeld(v) = 0
        BY <2>2 DEF WithdrawalHeld, InCooldown
      <3>2. withdrawalListed[v] * 0 = 0
        BY <2>1
      <3> QED BY <3>1, <3>2
    <2>3. CASE withdrawals[v] # NoWithdrawal
      <3>1. withdrawalListed[v] >= 1
        BY <2>3 DEF WithdrawalsInv, RequestsListed
      <3>2. /\ withdrawalListed[v] * WithdrawalHeld(v) \in Nat
            /\ WithdrawalHeld(v) <= withdrawalListed[v] * WithdrawalHeld(v)
        BY <2>1, <3>1, ProductAtLeast
      <3> QED BY <2>1, <3>2
    <2> QED BY <2>2, <2>3
  <1>3. f \in [U -> Nat] /\ g \in [U -> Nat]
    <2>1. \A v \in U : f[v] \in Nat /\ g[v] \in Nat
      BY <1>2
    <2> QED BY <2>1
  <1>4. UserPendingCredits(w.user) = SumFunction(g) /\ OpenOf(w) = SumFunction(f)
    BY DEF UserPendingCredits, OpenOf, SumOver
  <1> HIDE DEF f, g, U
  <1>5. SumFunction(f) <= SumFunction(g)
    BY <1>1, <1>2, <1>3, SumMonotone
  <1>6. SumFunction(f) \in Nat /\ SumFunction(g) \in Nat
    BY <1>1, <1>3, SumNat
  <1> QED BY <1>4, <1>5, <1>6

\* Changing one request changes what its user's requests hold, and nobody else's.
LEMMA OpenChanges ==
  ASSUME WithdrawalsTypeOK, NEW w \in WithdrawalId,
         \A v \in WithdrawalId \ {w} : withdrawals'[v] = withdrawals[v], NEW k \in WithdrawalId
  PROVE  /\ k.user = w.user => OpenOf(k)' = OpenOf(w) - WithdrawalHeld(w) + WithdrawalHeld(w)'
         /\ k.user # w.user => OpenOf(k)' = OpenOf(k)
  <1> DEFINE U == {v \in WithdrawalId : v.user = k.user}
             f == [v \in U |-> WithdrawalHeld(v)]
             g == [v \in U |-> WithdrawalHeld(v)']
  <1>1. IsFiniteSet(U) /\ U \subseteq WithdrawalId
    BY WithdrawalsTyped, FS_Subset
  <1>2. \A v \in WithdrawalId \ {w} : WithdrawalHeld(v)' = WithdrawalHeld(v)
    BY DEF WithdrawalHeld, InCooldown
  <1>3. \A v \in WithdrawalId : WithdrawalHeld(v)' \in Nat
    BY WithdrawalIdFields DEF WithdrawalHeld
  <1>4. /\ f \in [U -> Int] /\ g \in [U -> Int] /\ \A v \in U \ {w} : g[v] = f[v]
    BY <1>1, <1>2, <1>3, HeldIsNatural
  <1>5. OpenOf(k)' = SumFunction(g)
    BY DEF OpenOf, SumOver
  <1>6. OpenOf(k) = SumFunction(f)
    BY DEF OpenOf, SumOver
  <1>7. CASE k.user = w.user
    <2>1. w \in U /\ f[w] = WithdrawalHeld(w) /\ g[w] = WithdrawalHeld(w)'
      BY <1>7
    <2>2. OpenOf(w) = OpenOf(k)
      BY <1>7 DEF OpenOf
    <2> HIDE DEF f, g, U
    <2>3. SumFunction(g) = SumFunction(f) - f[w] + g[w]
      <3>1. PICK F \in [U -> Int], G \in [U -> Int] :
              F = f /\ G = g /\ \A v \in U \ {w} : G[v] = F[v]
        BY <1>4
      <3>2. SumFunction(G) = SumFunction(F) - F[w] + G[w]
        BY <1>1, <2>1, <3>1, SumUpdate
      <3> QED BY <3>1, <3>2
    <2> QED BY <1>5, <1>6, <1>7, <2>1, <2>2, <2>3
  <1>8. CASE k.user # w.user
    <2>1. f = g
      BY <1>1, <1>2, <1>8
    <2> QED BY <1>5, <1>6, <1>8, <2>1
  <1> QED BY <1>7, <1>8

LEMMA WithdrawalsInvInit == WithdrawalsInit => WithdrawalsInv
  <1> SUFFICES ASSUME WithdrawalsInit PROVE WithdrawalsInv
    OBVIOUS
  <1>1. WithdrawalsTypeOK
    BY DEF WithdrawalsInit, WithdrawalsTypeOK
  <1>2. RequestsListed
    BY DEF WithdrawalsInit, RequestsListed
  <1>3. ASSUME NEW w \in WithdrawalId
        PROVE  OpenOf(w) <= DailyLimit
    <2> DEFINE U == {v \in WithdrawalId : v.user = w.user}
               f == [v \in U |-> WithdrawalHeld(v)]
    <2>1. IsFiniteSet(U)
      BY WithdrawalsTyped, FS_Subset
    <2>2. DOMAIN f = U /\ \A v \in U : f[v] = 0
      BY DEF WithdrawalsInit, WithdrawalHeld, InCooldown
    <2>3. SumFunction(f) = 0
      <3> HIDE DEF f, U
      <3> QED BY <2>1, <2>2, SumZero
    <2>4. OpenOf(w) = 0
      BY <2>3 DEF OpenOf, SumOver
    <2> QED BY <2>4, WithdrawalsTyped
  <1> QED BY <1>1, <1>2, <1>3 DEF WithdrawalsInv, OpenWithinLimit, OpenOf

\* In no order of requests, completions and cancellations does a user's open total pass the
\* limit.
LEMMA WithdrawalsInvStep ==
  ASSUME now \in Nat, WithdrawalsInv, [WithdrawalsNext]_withdrawalVars
  PROVE  WithdrawalsInv'
  <1> USE DEF WithdrawalsInv
  <1>1. CASE UNCHANGED withdrawalVars
    BY <1>1 DEF withdrawalVars, withdrawalHistory, WithdrawalsTypeOK, RequestsListed,
                OpenWithinLimit, SumOver, WithdrawalHeld, InCooldown
  <1>2. CASE WithdrawalsNext
    <2>1. WithdrawalsTypeOK'
      BY <1>2, RequestsAreSteps, StepKeepsWithdrawalTypes
    <2>2. PICK w \in WithdrawalId :
            \/ CompleteWithdrawal(w) \/ CancelWithdrawal(w)
            \/ \E price \in WithdrawalPrices : InitiateWithdrawal(w, price)
      BY <1>2 DEF WithdrawalsNext
    <2>3. \A v \in WithdrawalId \ {w} : withdrawals'[v] = withdrawals[v]
      BY <2>2 DEF CompleteWithdrawal, CancelWithdrawal, InitiateWithdrawal, WithdrawalsTypeOK
    <2>4. RequestsListed'
      <3>1. CASE CompleteWithdrawal(w) \/ CancelWithdrawal(w)
        BY <2>3, <3>1
           DEF CompleteWithdrawal, CancelWithdrawal, InCooldown, RequestsListed, WithdrawalsTypeOK
      <3>2. CASE \E price \in WithdrawalPrices : InitiateWithdrawal(w, price)
        <4>1. withdrawalListed' = [withdrawalListed EXCEPT ![w] = @ + 1]
          BY <3>2 DEF InitiateWithdrawal
        <4>2. \A v \in WithdrawalId : withdrawalListed[v] \in Nat
          BY DEF WithdrawalsTypeOK
        <4>3. withdrawalListed'[w] >= 1 /\ \A v \in WithdrawalId \ {w} :
                withdrawalListed'[v] = withdrawalListed[v]
          BY <4>1, <4>2 DEF WithdrawalsTypeOK
        <4> QED BY <2>3, <4>3 DEF RequestsListed
      <3> QED BY <2>2, <3>1, <3>2
    <2>5. /\ OpenOf(w) \in Nat /\ WithdrawalHeld(w) \in Nat
          /\ OpenOf(w) <= DailyLimit /\ DailyLimit \in Nat /\ w.credits \in Nat
      BY PendingCoversOpen, HeldIsNatural, WithdrawalsTyped, WithdrawalIdFields
      DEF OpenWithinLimit, OpenOf
    <2>6. OpenOf(w) - WithdrawalHeld(w) + WithdrawalHeld(w)' <= DailyLimit
      <3>1. CASE CompleteWithdrawal(w) \/ CancelWithdrawal(w)
        <4>1. withdrawals'[w].status # "InCooldown"
          BY <3>1 DEF CompleteWithdrawal, CancelWithdrawal, InCooldown, WithdrawalsTypeOK,
                      WithdrawalRequest
        <4>2. WithdrawalHeld(w)' = 0
          BY <4>1 DEF WithdrawalHeld, InCooldown
        <4> QED BY <2>5, <4>2
      <3>2. CASE \E price \in WithdrawalPrices : InitiateWithdrawal(w, price)
        <4>1. UserPendingCredits(w.user) + w.credits <= DailyLimit
          BY <3>2 DEF InitiateWithdrawal
        <4>2. UserPendingCredits(w.user) \in Nat /\ OpenOf(w) <= UserPendingCredits(w.user)
          BY PendingCoversOpen
        <4>3. PICK credits \in Nat : credits = WithdrawalHeld(w)' /\ credits <= w.credits
          BY <2>5 DEF WithdrawalHeld
        <4>4. OpenOf(w) - WithdrawalHeld(w) + credits <= DailyLimit
          BY <2>5, <4>1, <4>2, <4>3
        <4> QED BY <4>3, <4>4
      <3> QED BY <2>2, <3>1, <3>2
    <2>7. \A k \in WithdrawalId : OpenOf(k)' <= DailyLimit
      <3> SUFFICES ASSUME NEW k \in WithdrawalId PROVE OpenOf(k)' <= DailyLimit
        OBVIOUS
      <3>1. CASE k.user = w.user
        <4>1. OpenOf(k)' = OpenOf(w) - WithdrawalHeld(w) + WithdrawalHeld(w)'
          BY <2>3, <3>1, OpenChanges
        <4> QED BY <2>6, <4>1
      <3>2. CASE k.user # w.user
        <4>1. OpenOf(k)' = OpenOf(k)
          BY <2>3, <3>2, OpenChanges
        <4> QED BY <4>1 DEF OpenWithinLimit, OpenOf
      <3> QED BY <3>1, <3>2
    <2>8. OpenWithinLimit'
      BY <2>7 DEF OpenWithinLimit, OpenOf
    <2> QED BY <2>1, <2>4, <2>8
  <1> QED BY <1>1, <1>2

----------------------------------------------------------------------------
(* Budgets are kept *)

\* The heights are finitely many, and the current one is among them.
LEMMA FiniteHeights ==
  IsFiniteSet(0 .. MaxNow) /\ 0 \in 0 .. MaxNow
  BY HeightsTyped, FS_Interval DEF HeightsTyped

\* What a spending at one height adds to all that was spent.
LEMMA SpentMore ==
  ASSUME NEW f \in [0 .. MaxNow -> Nat], NEW h \in 0 .. MaxNow, NEW n \in Nat
  PROVE  /\ [f EXCEPT ![h] = @ + n] \in [0 .. MaxNow -> Nat]
         /\ SumFunction([f EXCEPT ![h] = @ + n]) = SumFunction(f) + n
         /\ SumFunction(f) \in Nat
  <1> DEFINE g == [f EXCEPT ![h] = @ + n]
  <1>1. g \in [0 .. MaxNow -> Nat] /\ g[h] = f[h] + n /\ f[h] \in Nat
    OBVIOUS
  <1>2. \A k \in (0 .. MaxNow) \ {h} : g[k] = f[k]
    OBVIOUS
  <1> HIDE DEF g
  <1>3. IsFiniteSet(0 .. MaxNow)
    BY FiniteHeights
  <1>4. SumFunction(f) \in Nat
    BY <1>3, SumNat
  <1>5. f \in [0 .. MaxNow -> Int] /\ g \in [0 .. MaxNow -> Int]
    BY <1>1
  <1>6. SumFunction(g) = SumFunction(f) - f[h] + g[h]
    BY <1>2, <1>3, <1>5, SumUpdate
  <1> QED BY <1>1, <1>4, <1>6 DEF g

LEMMA NothingSpent ==
  /\ [h \in 0 .. MaxNow |-> 0] \in [0 .. MaxNow -> Nat]
  /\ SumFunction([h \in 0 .. MaxNow |-> 0]) = 0
  BY FiniteHeights, SumZero

\* A delegation, what was spent from it by height, and its revocations agree.
BudgetKept(d, delegation, spent, revocations) ==
  /\ delegation = NoDelegation =>
       /\ spent = [h \in 0 .. MaxNow |-> 0]
       /\ \A r \in revocations : r.id # d
  /\ delegation # NoDelegation =>
       /\ delegation.spent = SumFunction(spent)
       /\ delegation.spent <= delegation.total
       /\ delegation.total <= BudgetMax
       /\ \A h \in 0 .. MaxNow : spent[h] > 0 => h <= delegation.expiresAt
       /\ \A r \in revocations :
            r.id = d => r.spent = delegation.spent /\ delegation.status = "Revoked"

BudgetsInv ==
  /\ BudgetsTypeOK
  /\ \A d \in DelegationId : BudgetKept(d, delegations[d], spendings[d], revoked)

\* One delegation changes, and the others stay.
LEMMA OneBudgetMoves ==
  ASSUME BudgetsInv, NEW d \in DelegationId, NEW new \in BudgetDelegation,
         NEW spent \in [0 .. MaxNow -> Nat],
         delegations' = [delegations EXCEPT ![d] = new],
         spendings' = [spendings EXCEPT ![d] = spent],
         revoked' \subseteq [id : DelegationId, spent : Nat],
         \A r \in revoked' : r.id # d => r \in revoked,
         BudgetKept(d, new, spent, revoked')
  PROVE  BudgetsInv'
  <1>1. /\ delegations \in [DelegationId -> BudgetDelegation \cup {NoDelegation}]
        /\ spendings \in [DelegationId -> [0 .. MaxNow -> Nat]]
    BY DEF BudgetsInv, BudgetsTypeOK
  <1>2. BudgetsTypeOK'
    BY <1>1 DEF BudgetsTypeOK
  <1>3. ASSUME NEW c \in DelegationId, c # d
        PROVE  BudgetKept(c, delegations'[c], spendings'[c], revoked')
    <2>1. delegations'[c] = delegations[c] /\ spendings'[c] = spendings[c]
      BY <1>1, <1>3
    <2>2. BudgetKept(c, delegations[c], spendings[c], revoked)
      BY DEF BudgetsInv
    <2>3. \A r \in revoked' : r.id = c => r \in revoked
      BY <1>3
    <2> QED BY <2>1, <2>2, <2>3 DEF BudgetKept
  <1>4. delegations'[d] = new /\ spendings'[d] = spent
    BY <1>1
  <1> QED BY <1>2, <1>3, <1>4 DEF BudgetsInv

\* A call that spends nothing from a delegation, and does not take a revocation back.
LEMMA UnspentCall ==
  ASSUME BudgetsInv, NEW d \in DelegationId, Delegated(d), NEW new \in BudgetDelegation,
         delegations' = [delegations EXCEPT ![d] = new], UNCHANGED <<spendings, revoked>>,
         new.spent = delegations[d].spent, new.expiresAt = delegations[d].expiresAt,
         delegations[d].total <= new.total, new.total <= BudgetMax,
         delegations[d].status = "Revoked" => new.status = "Revoked"
  PROVE  BudgetsInv'
  <1> DEFINE old == delegations[d]
  <1>1. /\ old \in BudgetDelegation /\ old # NoDelegation
        /\ spendings \in [DelegationId -> [0 .. MaxNow -> Nat]]
        /\ revoked \subseteq [id : DelegationId, spent : Nat]
    BY DEF BudgetsInv, BudgetsTypeOK, Delegated
  <1>2. BudgetKept(d, old, spendings[d], revoked)
    BY DEF BudgetsInv
  <1>3. /\ new.spent = old.spent /\ new.expiresAt = old.expiresAt
        /\ old.total <= new.total /\ new.total <= BudgetMax
        /\ old.status = "Revoked" => new.status = "Revoked"
        /\ old.spent \in Nat /\ old.total \in Nat /\ new.total \in Nat
    BY <1>1 DEF BudgetDelegation
  <1>4. new # NoDelegation
    BY BudgetsTyped DEF BudgetsTyped
  <1> HIDE DEF old
  <1>5. BudgetKept(d, new, spendings[d], revoked)
    BY <1>1, <1>2, <1>3, <1>4 DEF BudgetKept
  <1>6. /\ spendings' = [spendings EXCEPT ![d] = spendings[d]] /\ revoked' = revoked
        /\ spendings[d] \in [0 .. MaxNow -> Nat]
    BY <1>1
  <1>7. /\ revoked' \subseteq [id : DelegationId, spent : Nat]
        /\ \A r \in revoked' : r.id # d => r \in revoked
    BY <1>1, <1>6
  <1>8. BudgetKept(d, new, spendings[d], revoked')
    BY <1>5, <1>6
  <1> QED BY <1>6, <1>7, <1>8, OneBudgetMoves

\* What check_expired leaves of a delegation.
LEMMA CheckedDelegation ==
  ASSUME NEW old \in BudgetDelegation
  PROVE  /\ Checked(old) \in BudgetDelegation
         /\ Checked(old).spent = old.spent /\ Checked(old).total = old.total
         /\ Checked(old).perTx = old.perTx
         /\ Checked(old).expiresAt = old.expiresAt
         /\ old.status = "Revoked" => Checked(old).status = "Revoked"
         /\ Checked(old).status = "Active" => old.status = "Active" /\ ~(now > old.expiresAt)
  BY DEF Checked, BudgetDelegation, DelegationStatus

LEMMA CreateKeepsBudgets ==
  ASSUME BudgetsInv, now \in Nat, NEW d \in DelegationId, NEW total \in Budgets,
         NEW perTx \in TxLimits, NEW services \in SUBSET BudgetService,
         NEW expiresAt \in Expiries, CreateDelegation(d, total, perTx, services, expiresAt)
  PROVE  BudgetsInv'
  <1> DEFINE new == [total |-> total, spent |-> 0, perTx |-> perTx, services |-> services,
                     expiresAt |-> expiresAt, status |-> "Active"]
             nothing == [h \in 0 .. MaxNow |-> 0]
  <1>1. total \in Nat /\ total <= BudgetMax /\ perTx \in Nat /\ expiresAt \in Nat
    BY BudgetsTyped DEF BudgetsTyped
  <1>2. /\ new \in BudgetDelegation /\ new.spent = 0 /\ new.total = total
        /\ new # NoDelegation
    BY <1>1, BudgetsTyped DEF BudgetsTyped, BudgetDelegation, DelegationStatus
  <1>3. /\ delegations[d] = NoDelegation
        /\ delegations' = [delegations EXCEPT ![d] = new]
        /\ spendings' = spendings /\ revoked' = revoked
    BY DEF CreateDelegation, budgetHistory, Delegated
  <1>4. /\ BudgetKept(d, NoDelegation, spendings[d], revoked)
        /\ spendings \in [DelegationId -> [0 .. MaxNow -> Nat]]
        /\ revoked \subseteq [id : DelegationId, spent : Nat]
    BY <1>3 DEF BudgetsInv, BudgetsTypeOK
  <1>5. spendings[d] = nothing /\ \A r \in revoked : r.id # d
    BY <1>4 DEF BudgetKept
  <1>6. SumFunction(nothing) = 0 /\ nothing \in [0 .. MaxNow -> Nat]
        /\ \A h \in 0 .. MaxNow : ~(nothing[h] > 0)
    BY NothingSpent
  <1> HIDE DEF new, nothing
  <1>7. BudgetKept(d, new, nothing, revoked)
    BY <1>1, <1>2, <1>5, <1>6 DEF BudgetKept
  <1>8. spendings' = [spendings EXCEPT ![d] = nothing]
    BY <1>3, <1>4, <1>5
  <1> QED BY <1>2, <1>3, <1>4, <1>6, <1>7, <1>8, OneBudgetMoves
LEMMA SpendKeepsBudgets ==
  ASSUME BudgetsInv, now \in 0 .. MaxNow, NEW d \in DelegationId, NEW amount \in BudgetAmounts,
         NEW service \in BudgetService, SpendBudget(d, amount, service)
  PROVE  BudgetsInv'
  <1> DEFINE old == delegations[d]
             delegation == Checked(old)
             spent == delegation.spent + amount
             allowed == /\ delegation.status = "Active" /\ amount <= delegation.perTx
                        /\ amount <= Monus(delegation.total, delegation.spent)
                        /\ service \in delegation.services
             new == [delegation EXCEPT !.spent = spent,
                       !.status = IF spent >= delegation.total THEN "Exhausted" ELSE @]
  <1>1. /\ amount \in Nat /\ amount > 0 /\ Delegated(d) /\ revoked' = revoked
        /\ \/ /\ allowed
              /\ delegations' = [delegations EXCEPT ![d] = new]
              /\ spendings' = [spendings EXCEPT ![d][now] = @ + amount]
           \/ /\ delegations' = [delegations EXCEPT ![d] = delegation]
              /\ spendings' = spendings
    BY BudgetsTyped DEF BudgetsTyped, SpendBudget
  <1>2. /\ old \in BudgetDelegation /\ old # NoDelegation
        /\ spendings \in [DelegationId -> [0 .. MaxNow -> Nat]]
        /\ revoked \subseteq [id : DelegationId, spent : Nat]
        /\ BudgetKept(d, old, spendings[d], revoked)
    BY <1>1 DEF BudgetsInv, BudgetsTypeOK, Delegated
  <1>3. /\ delegation \in BudgetDelegation
        /\ delegation.spent = old.spent /\ delegation.total = old.total
        /\ delegation.expiresAt = old.expiresAt
        /\ old.status = "Revoked" => delegation.status = "Revoked"
        /\ delegation.status = "Active" => old.status = "Active" /\ ~(now > old.expiresAt)
    BY <1>2, CheckedDelegation
  <1>4. /\ old.spent \in Nat /\ old.total \in Nat /\ old.expiresAt \in Nat
        /\ old.total <= BudgetMax
    BY <1>2 DEF BudgetDelegation, BudgetKept
  <1>5. CASE spendings' = spendings /\ delegations' = [delegations EXCEPT ![d] = delegation]
    <2> HIDE DEF delegation
    <2>1. delegation.total <= BudgetMax /\ old.total <= delegation.total
      BY <1>3, <1>4
    <2> QED BY <1>1, <1>3, <1>5, <2>1, UnspentCall
  <1>6. CASE /\ allowed
             /\ delegations' = [delegations EXCEPT ![d] = new]
             /\ spendings' = [spendings EXCEPT ![d][now] = @ + amount]
    <2>1. spent \in Nat /\ spent <= old.total
      BY <1>1, <1>3, <1>4, <1>6 DEF Monus
    <2> HIDE DEF spent
    <2>2. /\ new \in BudgetDelegation /\ new.spent = spent /\ new.total = old.total
          /\ new.expiresAt = old.expiresAt
      <3> HIDE DEF delegation
      <3> QED BY <1>3, <2>1 DEF BudgetDelegation, DelegationStatus
    <2>3. new # NoDelegation
      BY <2>2, BudgetsTyped DEF BudgetsTyped
    <2> HIDE DEF new
    <2> DEFINE before == spendings[d]
               after == [before EXCEPT ![now] = @ + amount]
    <2>4. before \in [0 .. MaxNow -> Nat]
      BY <1>2
    <2> HIDE DEF before
    <2>5. /\ after \in [0 .. MaxNow -> Nat]
          /\ SumFunction(after) = SumFunction(before) + amount
      BY <1>1, <2>4, SpentMore
    <2>6. \A h \in 0 .. MaxNow : after[h] > 0 => before[h] > 0 \/ h = now
      BY <2>4
    <2> HIDE DEF after
    <2>7. /\ old.spent = SumFunction(before)
          /\ \A h \in 0 .. MaxNow : before[h] > 0 => h <= old.expiresAt
          /\ \A r \in revoked : r.id = d => old.status = "Revoked"
      BY <1>2 DEF BudgetKept, before
    <2>8. old.status = "Active" /\ now <= old.expiresAt
      BY <1>3, <1>4, <1>6
    <2>9. /\ spent = SumFunction(after)
          /\ \A h \in 0 .. MaxNow : after[h] > 0 => h <= old.expiresAt
          /\ \A r \in revoked : r.id # d
      BY <1>3, <2>5, <2>6, <2>7, <2>8 DEF spent
    <2>10. BudgetKept(d, new, after, revoked')
      BY <1>1, <1>4, <2>1, <2>2, <2>3, <2>9 DEF BudgetKept
    <2>11. spendings' = [spendings EXCEPT ![d] = after]
      BY <1>2, <1>6 DEF after, before
    <2>12. /\ revoked' \subseteq [id : DelegationId, spent : Nat]
           /\ \A r \in revoked' : r.id # d => r \in revoked
      BY <1>1, <1>2
    <2>13. delegations' = [delegations EXCEPT ![d] = new]
      BY <1>6
    <2> QED BY <2>2, <2>5, <2>10, <2>11, <2>12, <2>13, OneBudgetMoves
  <1> QED BY <1>1, <1>5, <1>6

\* The smaller of two numbers.
LEMMA MinOfTwo ==
  ASSUME NEW n \in Nat, NEW m \in Nat
  PROVE  Min({n, m}) = IF n <= m THEN n ELSE m
  <1> DEFINE least == IF n <= m THEN n ELSE m
  <1>1. least \in {n, m} /\ \A y \in {n, m} : least <= y
    OBVIOUS
  <1>2. \A x \in {n, m} : (\A y \in {n, m} : x <= y) => x = least
    OBVIOUS
  <1> HIDE DEF least
  <1>3. Min({n, m}) = least
    BY <1>1, <1>2 DEF Min
  <1> QED BY <1>3 DEF least

\* Every other call of a budget.
LEMMA OtherCallsKeepBudgets ==
  ASSUME BudgetsInv, now \in Nat, NEW d \in DelegationId, NEW caller \in BudgetCaller,
         \/ CheckExpired(d) \/ Pause(d, caller) \/ Resume(d, caller) \/ Revoke(d, caller)
         \/ \E n \in BudgetAmounts : IncreaseBudget(d, n, caller)
  PROVE  BudgetsInv'
  <1> DEFINE old == delegations[d]
  <1>1. Delegated(d)
    BY DEF CheckExpired, Pause, Resume, Revoke, IncreaseBudget
  <1>2. /\ old \in BudgetDelegation /\ old # NoDelegation
        /\ delegations \in [DelegationId -> BudgetDelegation \cup {NoDelegation}]
        /\ spendings \in [DelegationId -> [0 .. MaxNow -> Nat]]
        /\ revoked \subseteq [id : DelegationId, spent : Nat]
        /\ BudgetKept(d, old, spendings[d], revoked)
    BY <1>1 DEF BudgetsInv, BudgetsTypeOK, Delegated
  <1>3. /\ old.spent \in Nat /\ old.total \in Nat /\ old.expiresAt \in Nat
        /\ old.total <= BudgetMax
    BY <1>2 DEF BudgetDelegation, BudgetKept
  <1>4. ASSUME NEW status \in DelegationStatus,
               delegations' = [delegations EXCEPT ![d].status = status]
        PROVE  LET new == [old EXCEPT !.status = status] IN
                 /\ new \in BudgetDelegation /\ delegations' = [delegations EXCEPT ![d] = new]
                 /\ new.spent = old.spent /\ new.total = old.total
                 /\ new.expiresAt = old.expiresAt /\ new.status = status
    BY <1>2, <1>4 DEF BudgetDelegation
  <1>5. CASE CheckExpired(d)
    <2> DEFINE new == Checked(old)
    <2>1. delegations' = [delegations EXCEPT ![d] = new] /\ UNCHANGED <<spendings, revoked>>
      BY <1>5 DEF CheckExpired, budgetHistory
    <2>2. /\ new \in BudgetDelegation /\ new.spent = old.spent /\ new.total = old.total
          /\ new.expiresAt = old.expiresAt
          /\ old.status = "Revoked" => new.status = "Revoked"
      BY <1>2, CheckedDelegation
    <2> HIDE DEF new
    <2>3. old.total <= new.total /\ new.total <= BudgetMax
      BY <1>3, <2>2
    <2> QED BY <1>1, <2>1, <2>2, <2>3, UnspentCall
  <1>6. CASE Pause(d, caller) \/ Resume(d, caller)
    <2>1. PICK status \in DelegationStatus :
            /\ delegations' = [delegations EXCEPT ![d].status = status]
            /\ old.status # "Revoked"
            /\ UNCHANGED <<spendings, revoked>>
      BY <1>6 DEF Pause, Resume, budgetHistory, DelegationStatus
    <2> DEFINE new == [old EXCEPT !.status = status]
    <2>2. /\ new \in BudgetDelegation /\ new.spent = old.spent /\ new.total = old.total
          /\ new.expiresAt = old.expiresAt /\ delegations' = [delegations EXCEPT ![d] = new]
      BY <1>4, <2>1
    <2> HIDE DEF new
    <2>3. old.total <= new.total /\ new.total <= BudgetMax
      BY <1>3, <2>2
    <2> QED BY <1>1, <2>1, <2>2, <2>3, UnspentCall
  <1>7. CASE Revoke(d, caller)
    <2> DEFINE new == [old EXCEPT !.status = "Revoked"]
               r == [id |-> d, spent |-> old.spent]
    <2>1. /\ delegations' = [delegations EXCEPT ![d].status = "Revoked"]
          /\ revoked' = revoked \cup {r} /\ spendings' = spendings
      BY <1>7 DEF Revoke
    <2>2. /\ new \in BudgetDelegation /\ new.spent = old.spent /\ new.total = old.total
          /\ new.expiresAt = old.expiresAt /\ new.status = "Revoked"
          /\ delegations' = [delegations EXCEPT ![d] = new]
      BY <1>4, <2>1 DEF DelegationStatus
    <2>3. new # NoDelegation
      BY <2>2, BudgetsTyped DEF BudgetsTyped
    <2> HIDE DEF new
    <2>4. r.id = d /\ r.spent = old.spent /\ r \in [id : DelegationId, spent : Nat]
      BY <1>3
    <2> HIDE DEF r
    <2>5. BudgetKept(d, new, spendings[d], revoked')
      <3>1. \A q \in revoked' : q.id = d => q.spent = old.spent
        BY <1>2, <2>1, <2>4 DEF BudgetKept
      <3> QED BY <1>2, <2>2, <2>3, <3>1 DEF BudgetKept
    <2>6. /\ revoked' \subseteq [id : DelegationId, spent : Nat]
          /\ \A q \in revoked' : q.id # d => q \in revoked
      BY <1>2, <2>1, <2>4
    <2>7. /\ spendings' = [spendings EXCEPT ![d] = spendings[d]]
          /\ spendings[d] \in [0 .. MaxNow -> Nat]
      BY <1>2, <2>1
    <2> QED BY <2>2, <2>5, <2>6, <2>7, OneBudgetMoves
  <1>8. ASSUME NEW n \in BudgetAmounts, IncreaseBudget(d, n, caller)
        PROVE  BudgetsInv'
    <2> DEFINE total == Min({old.total + n, BudgetMax})
               new == [old EXCEPT !.total = total,
                         !.status = IF @ = "Exhausted" /\ total > old.spent THEN "Active"
                                    ELSE @]
    <2>1. /\ delegations' = [delegations EXCEPT ![d] = new]
          /\ old.status # "Revoked" /\ UNCHANGED <<spendings, revoked>>
      BY <1>8 DEF IncreaseBudget, budgetHistory
    <2>2. n \in Nat /\ BudgetMax \in Nat /\ old.total + n \in Nat
      BY <1>3, BudgetsTyped DEF BudgetsTyped
    <2>3. total = IF old.total + n <= BudgetMax THEN old.total + n ELSE BudgetMax
      BY <2>2, MinOfTwo
    <2>4. total \in Nat /\ old.total <= total /\ total <= BudgetMax
      BY <1>3, <2>2, <2>3
    <2> HIDE DEF total
    <2>5. /\ new \in BudgetDelegation /\ new.spent = old.spent /\ new.total = total
          /\ new.expiresAt = old.expiresAt
      BY <1>2, <2>4 DEF BudgetDelegation, DelegationStatus
    <2> HIDE DEF new
    <2> QED BY <1>1, <2>1, <2>4, <2>5, UnspentCall
  <1> QED BY <1>5, <1>6, <1>7, <1>8

LEMMA BudgetsInvInit ==
  ASSUME BudgetsInit
  PROVE  BudgetsInv
  BY NothingSpent DEF BudgetsInit, BudgetsInv, BudgetsTypeOK, BudgetKept

LEMMA BudgetsInvStep ==
  ASSUME BudgetsInv, now \in 0 .. MaxNow, [BudgetsNext]_budgetVars
  PROVE  BudgetsInv'
  <1>1. now \in Nat
    BY HeightsTyped DEF HeightsTyped
  <1>2. CASE UNCHANGED budgetVars
    BY <1>2 DEF budgetVars, budgetHistory, BudgetsInv, BudgetsTypeOK
  <1>3. CASE BudgetsNext
    <2>1. PICK d \in DelegationId :
            \/ \E total \in Budgets, perTx \in TxLimits, services \in SUBSET BudgetService,
                  expiresAt \in Expiries : CreateDelegation(d, total, perTx, services, expiresAt)
            \/ CheckExpired(d)
            \/ \E n \in BudgetAmounts :
                 \/ \E service \in BudgetService : SpendBudget(d, n, service)
                 \/ \E caller \in BudgetCaller : IncreaseBudget(d, n, caller)
            \/ \E caller \in BudgetCaller :
                 Pause(d, caller) \/ Resume(d, caller) \/ Revoke(d, caller)
      BY <1>3 DEF BudgetsNext
    <2>2. d.delegator \in BudgetCaller
      BY BudgetsTyped DEF BudgetsTyped
    <2> QED BY <1>1, <2>1, <2>2, CreateKeepsBudgets, SpendKeepsBudgets, OtherCallsKeepBudgets
  <1> QED BY <1>2, <1>3

LEMMA BudgetsInvImplies ==
  ASSUME BudgetsInv
  PROVE  BudgetsKept
  <1> SUFFICES ASSUME NEW d \in DelegationId, Delegated(d)
               PROVE  LET delegation == delegations[d] IN
                 /\ delegation.spent = SumOver(LAMBDA h : spendings[d][h], 0 .. MaxNow)
                 /\ delegation.spent <= delegation.total
                 /\ \A h \in 0 .. MaxNow : spendings[d][h] > 0 => h <= delegation.expiresAt
                 /\ \A r \in revoked : r.id = d => r.spent = delegation.spent
    BY DEF BudgetsKept
  <1>1. BudgetKept(d, delegations[d], spendings[d], revoked) /\ delegations[d] # NoDelegation
    BY DEF BudgetsInv, Delegated
  <1>2. spendings[d] = [h \in 0 .. MaxNow |-> spendings[d][h]]
    BY DEF BudgetsInv, BudgetsTypeOK
  <1>3. SumOver(LAMBDA h : spendings[d][h], 0 .. MaxNow) = SumFunction(spendings[d])
    BY <1>2 DEF SumOver
  <1> QED BY <1>1, <1>3 DEF BudgetKept


----------------------------------------------------------------------------
(* Rewards stay within their budgets *)

SpentBy(program) == IF program = NoProgram THEN 0 ELSE program.spent

ProgramKept(program) ==
  program # NoProgram =>
    /\ program.spent = SumFunction(program.rewards)
    /\ program.spent <= program.budget
    /\ \A h \in 0 .. MaxNow : program.rewards[h] > 0 => h <= program.expiresAt

IncentivesInv ==
  /\ IncentivesTypeOK
  /\ \A p \in ProgramId : ProgramKept(programs[p])
  /\ totalRewarded = SumFunction([p \in ProgramId |-> SpentBy(programs[p])])
  /\ totalPrograms = Cardinality({p \in ProgramId : HasProgram(p)})

LEMMA SpentByNat ==
  \A x \in IncentiveProgram \cup {NoProgram} : SpentBy(x) \in Nat
  BY DEF SpentBy, IncentiveProgram

LEMMA ProgramFields ==
  ASSUME NEW x \in IncentiveProgram
  PROVE  /\ x.budget \in Nat /\ x.spent \in Nat /\ x.rewards \in [0 .. MaxNow -> Nat]
         /\ x.status \in ProgramStatus /\ x.expiresAt \in Nat /\ x # NoProgram
  BY IncentivesTyped DEF IncentivesTyped, IncentiveProgram, Rewards

LEMMA ProgramsFinite ==
  ASSUME NEW f \in [ProgramId -> IncentiveProgram \cup {NoProgram}]
  PROVE  /\ IsFiniteSet(ProgramId)
         /\ [p \in ProgramId |-> SpentBy(f[p])] \in [ProgramId -> Nat]
         /\ IsFiniteSet({p \in ProgramId : f[p] # NoProgram})
         /\ Cardinality({p \in ProgramId : f[p] # NoProgram}) \in Nat
  <1>1. IsFiniteSet(ProgramId)
    BY IncentivesTyped DEF IncentivesTyped
  <1>2. [p \in ProgramId |-> SpentBy(f[p])] \in [ProgramId -> Nat]
    BY SpentByNat
  <1>3. IsFiniteSet({p \in ProgramId : f[p] # NoProgram})
    BY <1>1, FS_Subset
  <1> QED BY <1>1, <1>2, <1>3, FS_CardinalityType

\* Calls that only change what programs are said to be.
LEMMA UnspentPrograms ==
  ASSUME IncentivesInv, programs' \in [ProgramId -> IncentiveProgram \cup {NoProgram}],
         UNCHANGED <<totalRewarded, totalPrograms>>,
         \A p \in ProgramId :
           \/ programs'[p] = programs[p]
           \/ /\ programs[p] # NoProgram /\ programs'[p] # NoProgram
              /\ programs'[p].spent = programs[p].spent
              /\ programs'[p].budget = programs[p].budget
              /\ programs'[p].rewards = programs[p].rewards
              /\ programs'[p].expiresAt = programs[p].expiresAt
  PROVE  IncentivesInv'
  <1>1. \A p \in ProgramId : ProgramKept(programs'[p])
    BY DEF IncentivesInv, ProgramKept
  <1>2. \A p \in ProgramId : SpentBy(programs'[p]) = SpentBy(programs[p])
    BY DEF SpentBy
  <1>3. [p \in ProgramId |-> SpentBy(programs'[p])] = [p \in ProgramId |-> SpentBy(programs[p])]
    BY <1>2
  <1>4. {p \in ProgramId : HasProgram(p)}' = {p \in ProgramId : HasProgram(p)}
    BY DEF HasProgram
  <1>5. IncentivesTypeOK'
    BY DEF IncentivesInv, IncentivesTypeOK
  <1> QED BY <1>1, <1>3, <1>4, <1>5 DEF IncentivesInv

\* What a program becomes when only its status changes.
LEMMA StatusOfProgram ==
  ASSUME NEW old \in IncentiveProgram, NEW status \in ProgramStatus
  PROVE  LET new == [old EXCEPT !.status = status] IN
           /\ new \in IncentiveProgram /\ new # NoProgram
           /\ new.spent = old.spent /\ new.budget = old.budget
           /\ new.rewards = old.rewards /\ new.expiresAt = old.expiresAt
           /\ new.status = status
  <1> DEFINE new == [old EXCEPT !.status = status]
  <1>1. /\ new \in IncentiveProgram
        /\ new.spent = old.spent /\ new.budget = old.budget
        /\ new.rewards = old.rewards /\ new.expiresAt = old.expiresAt
        /\ new.status = status
    BY DEF IncentiveProgram
  <1> HIDE DEF new
  <1>2. new # NoProgram
    BY <1>1, ProgramFields
  <1> QED BY <1>1, <1>2 DEF new

LEMMA CreateKeepsPrograms ==
  ASSUME IncentivesInv, NEW p \in ProgramId, NEW budget \in ProgramBudgets,
         NEW expiresAt \in ProgramExpiries, CreateProgram(p, budget, expiresAt)
  PROVE  IncentivesInv'
  <1> DEFINE nothing == [h \in 0 .. MaxNow |-> 0]
             new == [budget |-> budget, spent |-> 0, rewards |-> nothing,
                     status |-> "Active", expiresAt |-> expiresAt]
             made == {q \in ProgramId : programs[q] # NoProgram}
  <1>1. budget \in Nat /\ expiresAt \in Nat
    BY IncentivesTyped DEF IncentivesTyped
  <1>2. /\ nothing \in [0 .. MaxNow -> Nat] /\ SumFunction(nothing) = 0
        /\ \A h \in 0 .. MaxNow : ~(nothing[h] > 0)
    BY NothingSpent
  <1>3. /\ programs' = [programs EXCEPT ![p] = new] /\ programs[p] = NoProgram
        /\ totalPrograms' = totalPrograms + 1 /\ totalRewarded' = totalRewarded
        /\ programs \in [ProgramId -> IncentiveProgram \cup {NoProgram}]
        /\ totalRewarded \in Nat /\ totalPrograms \in Nat
        /\ totalPrograms = Cardinality(made)
    BY DEF CreateProgram, HasProgram, IncentivesInv, IncentivesTypeOK
  <1> HIDE DEF nothing
  <1>4. /\ new \in IncentiveProgram /\ new.spent = 0 /\ new.rewards = nothing
        /\ new.budget = budget
    BY <1>1, <1>2 DEF IncentiveProgram, Rewards, ProgramStatus
  <1> HIDE DEF new
  <1>5. ProgramKept(new) /\ new # NoProgram
    BY <1>1, <1>2, <1>4, ProgramFields DEF ProgramKept
  <1>6. /\ programs' \in [ProgramId -> IncentiveProgram \cup {NoProgram}]
        /\ programs'[p] = new
        /\ \A q \in ProgramId : q # p => programs'[q] = programs[q]
    BY <1>3, <1>4
  <1>7. \A q \in ProgramId : ProgramKept(programs'[q])
    BY <1>5, <1>6 DEF IncentivesInv
  <1>8. \A q \in ProgramId : SpentBy(programs'[q]) = SpentBy(programs[q])
    BY <1>3, <1>4, <1>6 DEF SpentBy
  <1>9. [q \in ProgramId |-> SpentBy(programs'[q])] = [q \in ProgramId |-> SpentBy(programs[q])]
    BY <1>8
  <1>10. {q \in ProgramId : HasProgram(q)}' = made \cup {p} /\ p \notin made
    BY <1>3, <1>5, <1>6 DEF HasProgram
  <1>11. IsFiniteSet(made) /\ Cardinality(made) \in Nat
    BY <1>3, ProgramsFinite
  <1> HIDE DEF made
  <1>12. Cardinality(made \cup {p}) = Cardinality(made) + 1
    BY <1>10, <1>11, FS_AddElement
  <1>13. totalPrograms' = Cardinality({q \in ProgramId : HasProgram(q)}')
    BY <1>3, <1>10, <1>12
  <1>14. IncentivesTypeOK'
    BY <1>3, <1>6 DEF IncentivesTypeOK
  <1> QED BY <1>3, <1>7, <1>9, <1>13, <1>14 DEF IncentivesInv

LEMMA AwardKeepsPrograms ==
  ASSUME IncentivesInv, now \in 0 .. MaxNow, NEW p \in ProgramId, NEW amount \in RewardAmounts,
         NEW caller \in IncentiveCaller, AwardReward(p, amount, caller)
  PROVE  IncentivesInv'
  <1> DEFINE old == programs[p]
             program == IF now > old.expiresAt THEN [old EXCEPT !.status = "Expired"] ELSE old
             spent == program.spent + amount
             after == [program.rewards EXCEPT ![now] = @ + amount]
             new == [program EXCEPT !.spent = spent, !.rewards = after,
                       !.status = IF spent = program.budget THEN "Exhausted" ELSE @]
  <1>1. /\ programs \in [ProgramId -> IncentiveProgram \cup {NoProgram}]
        /\ old \in IncentiveProgram /\ ProgramKept(old) /\ totalPrograms' = totalPrograms
        /\ totalRewarded \in Nat /\ totalPrograms \in Nat /\ amount \in Nat
        /\ totalRewarded = SumFunction([q \in ProgramId |-> SpentBy(programs[q])])
    BY IncentivesTyped
       DEF AwardReward, MayRun, HasProgram, IncentivesInv, IncentivesTypeOK, IncentivesTyped
  <1>2. /\ program \in IncentiveProgram
        /\ program.spent = old.spent /\ program.budget = old.budget
        /\ program.rewards = old.rewards /\ program.expiresAt = old.expiresAt
        /\ program.status = "Active" => ~(now > old.expiresAt)
    BY <1>1, StatusOfProgram DEF ProgramStatus
  <1>3. \/ /\ program.status = "Active" /\ spent <= program.budget
           /\ programs' = [programs EXCEPT ![p] =
                [program EXCEPT !.spent = spent, !.rewards[now] = @ + amount,
                   !.status = IF spent = program.budget THEN "Exhausted" ELSE @]]
           /\ totalRewarded' = totalRewarded + amount
        \/ /\ programs' = [programs EXCEPT ![p] = program]
           /\ totalRewarded' = totalRewarded
    BY DEF AwardReward
  <1>4. /\ old.budget \in Nat /\ old.spent \in Nat /\ old.rewards \in [0 .. MaxNow -> Nat]
        /\ old.expiresAt \in Nat /\ old # NoProgram
        /\ program.status \in ProgramStatus /\ program # NoProgram
    BY <1>1, <1>2, ProgramFields
  <1> HIDE DEF program
  <1>5. CASE programs' = [programs EXCEPT ![p] = program] /\ totalRewarded' = totalRewarded
    <2>1. /\ programs' \in [ProgramId -> IncentiveProgram \cup {NoProgram}]
          /\ programs'[p] = program
          /\ \A q \in ProgramId : q # p => programs'[q] = programs[q]
      BY <1>1, <1>2, <1>5
    <2> QED BY <1>1, <1>2, <1>4, <1>5, <2>1, UnspentPrograms
  <1>6. CASE /\ program.status = "Active" /\ spent <= program.budget
             /\ programs' = [programs EXCEPT ![p] =
                  [program EXCEPT !.spent = spent, !.rewards[now] = @ + amount,
                     !.status = IF spent = program.budget THEN "Exhausted" ELSE @]]
             /\ totalRewarded' = totalRewarded + amount
    <2>1. programs' = [programs EXCEPT ![p] = new]
      BY <1>2, <1>6 DEF IncentiveProgram, Rewards
    <2>2. /\ after \in [0 .. MaxNow -> Nat]
          /\ SumFunction(after) = SumFunction(old.rewards) + amount
      <3>1. PICK f : f = old.rewards
        OBVIOUS
      <3>2. f \in [0 .. MaxNow -> Nat] /\ after = [f EXCEPT ![now] = @ + amount]
        BY <1>2, <1>4, <3>1
      <3> HIDE DEF after
      <3> QED BY <1>1, <3>1, <3>2, SpentMore
    <2>3. \A h \in 0 .. MaxNow : after[h] > 0 => old.rewards[h] > 0 \/ h = now
      BY <1>2, <1>4
    <2>4. spent \in Nat /\ spent = old.spent + amount /\ spent <= old.budget
      BY <1>1, <1>2, <1>4, <1>6
    <2> HIDE DEF after, spent
    <2>5. /\ new \in IncentiveProgram /\ new.spent = spent /\ new.rewards = after
          /\ new.budget = old.budget /\ new.expiresAt = old.expiresAt
      BY <1>2, <2>2, <2>4 DEF IncentiveProgram, Rewards, ProgramStatus
    <2> HIDE DEF new
    <2>6. now <= old.expiresAt
      BY <1>2, <1>4, <1>6, HeightsTyped DEF HeightsTyped
    <2>7. ProgramKept(new) /\ new # NoProgram
      BY <1>1, <1>4, <2>2, <2>3, <2>4, <2>5, <2>6, ProgramFields DEF ProgramKept
    <2>8. /\ programs' \in [ProgramId -> IncentiveProgram \cup {NoProgram}]
          /\ programs'[p] = new
          /\ \A q \in ProgramId : q # p => programs'[q] = programs[q]
      BY <1>1, <2>1, <2>5
    <2>9. \A q \in ProgramId : ProgramKept(programs'[q])
      BY <2>7, <2>8 DEF IncentivesInv
    <2> DEFINE was == [q \in ProgramId |-> SpentBy(programs[q])]
               is == [q \in ProgramId |-> SpentBy(programs'[q])]
    <2>10. SumFunction(is) = SumFunction(was) + amount
      <3>1. was \in [ProgramId -> Nat] /\ is \in [ProgramId -> Nat] /\ IsFiniteSet(ProgramId)
        BY <1>1, <2>8, ProgramsFinite
      <3>2. was[p] = old.spent /\ is[p] = old.spent + amount
        BY <1>4, <2>4, <2>5, <2>7, <2>8 DEF SpentBy
      <3>3. \A q \in ProgramId \ {p} : is[q] = was[q]
        BY <2>8
      <3> HIDE DEF was, is
      <3>4. was \in [ProgramId -> Int] /\ is \in [ProgramId -> Int]
        BY <3>1
      <3>5. SumFunction(is) = SumFunction(was) - was[p] + is[p]
        BY <3>1, <3>3, <3>4, SumUpdate
      <3>6. SumFunction(was) \in Nat
        BY <3>1, SumNat
      <3> QED BY <1>1, <1>4, <3>2, <3>5, <3>6
    <2>11. totalRewarded' = SumFunction(is) /\ totalRewarded' \in Nat
      BY <1>1, <1>6, <2>10
    <2>12. {q \in ProgramId : HasProgram(q)}' = {q \in ProgramId : HasProgram(q)}
      BY <1>4, <2>7, <2>8 DEF HasProgram
    <2>13. IncentivesTypeOK'
      BY <1>1, <2>8, <2>11 DEF IncentivesTypeOK
    <2>14. totalPrograms' = Cardinality({q \in ProgramId : HasProgram(q)}')
      BY <1>1, <2>12 DEF IncentivesInv
    <2> QED BY <2>9, <2>11, <2>13, <2>14 DEF IncentivesInv
  <1> QED BY <1>3, <1>5, <1>6

LEMMA OtherCallsKeepPrograms ==
  ASSUME IncentivesInv,
         \/ ExpirePrograms
         \/ \E p \in ProgramId, caller \in IncentiveCaller :
              PauseProgram(p, caller) \/ ResumeProgram(p, caller)
  PROVE  IncentivesInv'
  <1>1. programs \in [ProgramId -> IncentiveProgram \cup {NoProgram}]
    BY DEF IncentivesInv, IncentivesTypeOK
  <1>2. CASE ExpirePrograms
    <2>1. ASSUME NEW p \in ProgramId
          PROVE  \/ programs'[p] = programs[p]
                 \/ /\ programs[p] \in IncentiveProgram
                    /\ programs'[p] = [programs[p] EXCEPT !.status = "Expired"]
      BY <1>1, <1>2 DEF ExpirePrograms, HasProgram
    <2>2. ASSUME NEW p \in ProgramId
          PROVE  /\ programs'[p] \in IncentiveProgram \cup {NoProgram}
                 /\ \/ programs'[p] = programs[p]
                    \/ /\ programs[p] # NoProgram /\ programs'[p] # NoProgram
                       /\ programs'[p].spent = programs[p].spent
                       /\ programs'[p].budget = programs[p].budget
                       /\ programs'[p].rewards = programs[p].rewards
                       /\ programs'[p].expiresAt = programs[p].expiresAt
      <3>1. CASE programs'[p] = programs[p]
        BY <1>1, <3>1
      <3>2. CASE /\ programs[p] \in IncentiveProgram
                 /\ programs'[p] = [programs[p] EXCEPT !.status = "Expired"]
        <4>1. PICK old \in IncentiveProgram : old = programs[p]
          BY <3>2
        <4>2. "Expired" \in ProgramStatus /\ programs'[p] = [old EXCEPT !.status = "Expired"]
          BY <3>2, <4>1 DEF ProgramStatus
        <4>3. /\ programs'[p] \in IncentiveProgram /\ programs'[p] # NoProgram
              /\ programs'[p].spent = old.spent /\ programs'[p].budget = old.budget
              /\ programs'[p].rewards = old.rewards
              /\ programs'[p].expiresAt = old.expiresAt
          BY <4>2, StatusOfProgram
        <4> QED BY <4>1, <4>3, ProgramFields
      <3> QED BY <2>1, <3>1, <3>2
    <2>3. programs' \in [ProgramId -> IncentiveProgram \cup {NoProgram}]
      <3>1. \E e : programs' = [p \in ProgramId |-> e[p]]
        <4> DEFINE e == [p \in ProgramId |->
                IF HasProgram(p) /\ programs[p].expiresAt < now /\ programs[p].status # "Exhausted"
                THEN [programs[p] EXCEPT !.status = "Expired"] ELSE programs[p]]
        <4>1. programs' = e
          BY <1>2 DEF ExpirePrograms
        <4>2. e = [p \in ProgramId |-> e[p]]
          OBVIOUS
        <4> QED BY <4>1, <4>2
      <3> QED BY <2>2, <3>1
    <2>4. UNCHANGED <<totalRewarded, totalPrograms>>
      BY <1>2 DEF ExpirePrograms
    <2> QED BY <2>2, <2>3, <2>4, UnspentPrograms
  <1>3. ASSUME NEW p \in ProgramId, NEW caller \in IncentiveCaller,
               PauseProgram(p, caller) \/ ResumeProgram(p, caller)
        PROVE  IncentivesInv'
    <2>1. PICK status \in ProgramStatus : programs' = [programs EXCEPT ![p].status = status]
      BY <1>3 DEF PauseProgram, ResumeProgram, ProgramStatus
    <2>2. programs[p] \in IncentiveProgram /\ UNCHANGED <<totalRewarded, totalPrograms>>
      BY <1>1, <1>3 DEF PauseProgram, ResumeProgram, MayRun, HasProgram
    <2> DEFINE new == [programs[p] EXCEPT !.status = status]
    <2>3. programs' = [programs EXCEPT ![p] = new]
      BY <1>1, <2>1, <2>2
    <2>4. /\ new \in IncentiveProgram /\ new # NoProgram
          /\ new.spent = programs[p].spent /\ new.budget = programs[p].budget
          /\ new.rewards = programs[p].rewards /\ new.expiresAt = programs[p].expiresAt
      BY <2>2, StatusOfProgram
    <2> HIDE DEF new
    <2>5. /\ programs' \in [ProgramId -> IncentiveProgram \cup {NoProgram}]
          /\ programs'[p] = new
          /\ \A q \in ProgramId : q # p => programs'[q] = programs[q]
      BY <1>1, <2>3, <2>4
    <2>6. programs[p] # NoProgram
      BY <2>2, ProgramFields
    <2> QED BY <2>2, <2>4, <2>5, <2>6, UnspentPrograms
  <1> QED BY <1>2, <1>3

LEMMA IncentivesInvInit ==
  ASSUME IncentivesInit
  PROVE  IncentivesInv
  <1>1. /\ programs \in [ProgramId -> IncentiveProgram \cup {NoProgram}]
        /\ \A p \in ProgramId : programs[p] = NoProgram
        /\ totalRewarded = 0 /\ totalPrograms = 0
    BY DEF IncentivesInit
  <1>2. {p \in ProgramId : HasProgram(p)} = {}
    BY <1>1 DEF HasProgram
  <1>3. Cardinality({p \in ProgramId : HasProgram(p)}) = 0
    BY <1>2, FS_EmptySet
  <1> DEFINE f == [p \in ProgramId |-> SpentBy(programs[p])]
  <1>4. DOMAIN f = ProgramId /\ \A p \in ProgramId : f[p] = 0
    BY <1>1 DEF SpentBy
  <1> HIDE DEF f
  <1>5. SumFunction(f) = 0
    BY <1>1, <1>4, SumZero, ProgramsFinite
  <1> QED BY <1>1, <1>3, <1>5 DEF f, IncentivesInv, IncentivesTypeOK, ProgramKept

LEMMA IncentivesInvStep ==
  ASSUME IncentivesInv, now \in 0 .. MaxNow, [IncentivesNext]_incentiveVars
  PROVE  IncentivesInv'
  <1>1. CASE UNCHANGED incentiveVars
    <2>1. programs' = programs /\ UNCHANGED <<totalRewarded, totalPrograms>>
      BY <1>1 DEF incentiveVars
    <2> QED BY <2>1, UnspentPrograms DEF IncentivesInv, IncentivesTypeOK
  <1> QED BY <1>1, CreateKeepsPrograms, AwardKeepsPrograms, OtherCallsKeepPrograms
          DEF IncentivesNext

LEMMA IncentivesInvImplies ==
  ASSUME IncentivesInv
  PROVE  IncentivesKept
  <1> DEFINE made == {p \in ProgramId : HasProgram(p)}
             all == [p \in ProgramId |-> SpentBy(programs[p])]
             theirs == [p \in made |-> programs[p].spent]
  <1>1. programs \in [ProgramId -> IncentiveProgram \cup {NoProgram}]
    BY DEF IncentivesInv, IncentivesTypeOK
  <1>2. ASSUME NEW p \in made
        PROVE  /\ programs[p].spent = SumOver(LAMBDA h : programs[p].rewards[h], 0 .. MaxNow)
               /\ programs[p].spent <= programs[p].budget
               /\ \A h \in 0 .. MaxNow :
                    programs[p].rewards[h] > 0 => h <= programs[p].expiresAt
    <2>1. programs[p] \in IncentiveProgram /\ programs[p] # NoProgram
      BY <1>1 DEF HasProgram
    <2>2. ProgramKept(programs[p])
      BY DEF IncentivesInv
    <2>3. programs[p].rewards = [h \in 0 .. MaxNow |-> programs[p].rewards[h]]
      BY <2>1, ProgramFields
    <2>4. SumOver(LAMBDA h : programs[p].rewards[h], 0 .. MaxNow)
            = SumFunction(programs[p].rewards)
      BY <2>3 DEF SumOver
    <2> QED BY <2>1, <2>2, <2>4 DEF ProgramKept
  <1>3. SumFunction(all) = SumFunction(theirs)
    <2>1. all \in [ProgramId -> Nat] /\ IsFiniteSet(ProgramId) /\ made \in SUBSET ProgramId
      BY <1>1, ProgramsFinite
    <2>2. \A p \in made : theirs[p] = all[p]
      BY DEF SpentBy, HasProgram
    <2>3. \A p \in ProgramId \ made : all[p] = 0
      BY DEF SpentBy, HasProgram
    <2>4. theirs \in [made -> Nat]
      BY <2>1, <2>2
    <2> HIDE DEF all, theirs, made
    <2>5. all \in [ProgramId -> Int] /\ theirs \in [made -> Int]
      BY <2>1, <2>4
    <2> QED BY <2>1, <2>2, <2>3, <2>5, SumOfPart
  <1>4. totalRewarded = SumOver(LAMBDA p : programs[p].spent, made)
    BY <1>3 DEF SumOver, IncentivesInv
  <1> QED BY <1>2, <1>4 DEF IncentivesKept, IncentivesInv


----------------------------------------------------------------------------
(* Charges stay within their rates *)

ChargeRecord == [user : BilledUser, service : BilledService, credits : Nat, height : Nat]

\* The charges of a user and a service from one height up to another, and how many they are.
ChargesIn(records, u, s, from, to) ==
  {i \in DOMAIN records : /\ records[i].user = u /\ records[i].service = s
                          /\ from <= records[i].height /\ records[i].height < to}

Requests(records, u, s, from, to) == Cardinality(ChargesIn(records, u, s, from, to))

ChargesOfUser(records, u) == {i \in DOMAIN records : records[i].user = u}
ChargesOfService(records, s) == {i \in DOMAIN records : records[i].service = s}
CreditsOf(records, I) == [i \in I |-> records[i].credits]

MostRequests == IF MaxRequests = 0 THEN 1 ELSE MaxRequests

\* Where the last stretch of a period ends.
EndOfHeights == MaxNow + BillingPeriod + 1

\* Nothing was requested, and no stretch has more than two windows take.
Unused(records, u, s) == Requests(records, u, s, 0, EndOfHeights) = 0
TwiceAtMost(records, u, s, h) ==
  Requests(records, u, s, h, h + BillingPeriod) <= 2 * MostRequests

\* A window that began at a height knows all requests since then, those of the period before
\* it are at most as many as one window takes, and no request is later than it.
WindowKnows(records, u, s, start, count) ==
  /\ Requests(records, u, s, start, EndOfHeights) <= count
  /\ Requests(records, u, s, start - BillingPeriod, start) <= MostRequests
  /\ Requests(records, u, s, start + BillingPeriod, EndOfHeights) = 0

RateKept(records, u, s, window) ==
  /\ window = NoWindow => Unused(records, u, s)
  /\ window # NoWindow /\ BillingPeriod > 0 =>
       window.count <= MostRequests /\ WindowKnows(records, u, s, window.start, window.count)
  /\ \A h \in 0 .. MaxNow : TwiceAtMost(records, u, s, h)

BillingInv ==
  /\ BillingTypeOK
  /\ \A k \in Usage : RateKept(billingRecords, k[1], k[2], rateLimits[k])
  /\ \A u \in BilledUser :
       userTotals[u] = SumFunction(CreditsOf(billingRecords, ChargesOfUser(billingRecords, u)))
  /\ \A s \in BilledService :
       serviceTotals[s] =
         [credits |-> SumFunction(CreditsOf(billingRecords, ChargesOfService(billingRecords, s))),
          requests |-> Cardinality(ChargesOfService(billingRecords, s))]

LEMMA BillingConstants ==
  /\ MaxRequests \in Nat /\ BillingPeriod \in Nat /\ MaxNow \in Nat
  /\ MostRequests \in Nat /\ MostRequests >= 1 /\ MaxRequests <= MostRequests
  /\ EndOfHeights \in Nat /\ EndOfHeights = MaxNow + BillingPeriod + 1
  /\ NoWindow \notin RateWindow
  BY BillingTyped, HeightsTyped DEF BillingTyped, HeightsTyped, MostRequests, EndOfHeights

LEMMA FiniteCharges ==
  ASSUME NEW R \in Seq(ChargeRecord), NEW I \in SUBSET DOMAIN R
  PROVE  /\ IsFiniteSet(I) /\ Cardinality(I) \in Nat
         /\ \A i \in DOMAIN R : R[i] \in ChargeRecord
         /\ DOMAIN R = 1 .. Len(R) /\ Len(R) \in Nat
  <1>1. DOMAIN R = 1 .. Len(R) /\ Len(R) \in Nat
    OBVIOUS
  <1>2. IsFiniteSet(DOMAIN R)
    BY <1>1, FS_Interval
  <1>3. IsFiniteSet(I)
    BY <1>2, FS_Subset
  <1>4. \A i \in DOMAIN R : R[i] \in ChargeRecord
    BY <1>1
  <1> QED BY <1>1, <1>3, <1>4, FS_CardinalityType

\* Fewer heights have fewer requests, and those of two stretches cover what lies in both.
LEMMA RequestsWithin ==
  ASSUME NEW R \in Seq(ChargeRecord), NEW u, NEW s,
         NEW a \in Int, NEW b \in Int, NEW c \in Int, NEW d \in Int, c <= a, b <= d
  PROVE  /\ Requests(R, u, s, a, b) \in Nat
         /\ Requests(R, u, s, a, b) <= Requests(R, u, s, c, d)
  <1> DEFINE I == ChargesIn(R, u, s, a, b)
             J == ChargesIn(R, u, s, c, d)
  <1>1. I \in SUBSET DOMAIN R /\ J \in SUBSET DOMAIN R
    BY DEF ChargesIn
  <1>2. I \in SUBSET J
    <2> SUFFICES ASSUME NEW i \in I PROVE i \in J
      OBVIOUS
    <2>1. R[i] \in ChargeRecord
      BY <1>1, FiniteCharges
    <2>2. R[i].height \in Nat
      BY <2>1 DEF ChargeRecord
    <2> QED BY <2>2 DEF ChargesIn
  <1> HIDE DEF I, J
  <1>3. IsFiniteSet(J) /\ Cardinality(I) \in Nat
    BY <1>1, FiniteCharges
  <1>4. Cardinality(I) <= Cardinality(J)
    BY <1>2, <1>3, FS_Subset
  <1> QED BY <1>3, <1>4 DEF I, J, Requests

LEMMA RequestsOfBoth ==
  ASSUME NEW R \in Seq(ChargeRecord), NEW u, NEW s,
         NEW a \in Int, NEW b \in Int, NEW c \in Int
  PROVE  /\ Requests(R, u, s, a, b) \in Nat /\ Requests(R, u, s, b, c) \in Nat
         /\ Requests(R, u, s, a, c) \in Nat
         /\ Requests(R, u, s, a, c) <= Requests(R, u, s, a, b) + Requests(R, u, s, b, c)
  <1> DEFINE I == ChargesIn(R, u, s, a, b)
             J == ChargesIn(R, u, s, b, c)
             K == ChargesIn(R, u, s, a, c)
  <1>1. I \in SUBSET DOMAIN R /\ J \in SUBSET DOMAIN R /\ K \in SUBSET DOMAIN R
    BY DEF ChargesIn
  <1>2. K \in SUBSET (I \cup J)
    <2> SUFFICES ASSUME NEW i \in K PROVE i \in I \cup J
      OBVIOUS
    <2>1. R[i] \in ChargeRecord
      BY <1>1, FiniteCharges
    <2>2. R[i].height \in Nat
      BY <2>1 DEF ChargeRecord
    <2> QED BY <2>2 DEF ChargesIn
  <1> HIDE DEF I, J, K
  <1>3. /\ IsFiniteSet(I) /\ IsFiniteSet(J) /\ I \cap J \in SUBSET DOMAIN R
        /\ Cardinality(I) \in Nat /\ Cardinality(J) \in Nat /\ Cardinality(K) \in Nat
    BY <1>1, FiniteCharges
  <1>4. Cardinality(I \cap J) \in Nat
    BY <1>3, FiniteCharges
  <1>5. /\ IsFiniteSet(I \cup J)
        /\ Cardinality(I \cup J) = Cardinality(I) + Cardinality(J) - Cardinality(I \cap J)
    BY <1>3, FS_Union
  <1>6. Cardinality(K) <= Cardinality(I \cup J)
    BY <1>2, <1>5, FS_Subset
  <1> QED BY <1>3, <1>4, <1>5, <1>6 DEF I, J, K, Requests

\* One more charge: where it counts, and where it does not.
LEMMA OneMoreRequest ==
  ASSUME NEW R \in Seq(ChargeRecord), NEW r \in ChargeRecord, NEW u, NEW s,
         NEW a \in Int, NEW b \in Int
  PROVE  /\ Requests(R, u, s, a, b) \in Nat
         /\ Requests(Append(R, r), u, s, a, b) =
              IF r.user = u /\ r.service = s /\ a <= r.height /\ r.height < b
              THEN Requests(R, u, s, a, b) + 1 ELSE Requests(R, u, s, a, b)
  <1> DEFINE S == Append(R, r)
             n == Len(R)
             I == ChargesIn(R, u, s, a, b)
             J == ChargesIn(S, u, s, a, b)
             counts == r.user = u /\ r.service = s /\ a <= r.height /\ r.height < b
  <1>1. /\ n \in Nat /\ DOMAIN R = 1 .. n /\ DOMAIN S = 1 .. n + 1
        /\ \A i \in 1 .. n : S[i] = R[i]
        /\ S[n + 1] = r
    OBVIOUS
  <1>2. I \in SUBSET DOMAIN R
    BY DEF ChargesIn
  <1>3. IsFiniteSet(I) /\ Cardinality(I) \in Nat /\ n + 1 \notin I
    BY <1>1, <1>2, FiniteCharges
  <1>4. J = IF counts THEN I \cup {n + 1} ELSE I
    <2> HIDE DEF S, n
    <2>1. \A i : i \in J <=> i \in 1 .. n + 1 /\ S[i].user = u /\ S[i].service = s
                              /\ a <= S[i].height /\ S[i].height < b
      BY <1>1 DEF ChargesIn
    <2>2. \A i : i \in I <=> i \in 1 .. n /\ R[i].user = u /\ R[i].service = s
                              /\ a <= R[i].height /\ R[i].height < b
      BY <1>1 DEF ChargesIn
    <2>3. n + 1 \in J <=> counts
      BY <1>1, <2>1
    <2>4. \A i \in 1 .. n : i \in J <=> i \in I
      BY <1>1, <2>1, <2>2
    <2>5. \A i \in 1 .. n + 1 : i \in 1 .. n \/ i = n + 1
      BY <1>1
    <2>6. \A i : i \in J \/ i \in I => i \in 1 .. n + 1
      BY <1>1, <2>1, <2>2
    <2> HIDE DEF I, J
    <2>7. CASE counts
      <3>1. \A i : i \in J <=> i \in I \/ i = n + 1
        BY <2>3, <2>4, <2>5, <2>6, <2>7
      <3> QED BY <2>7, <3>1
    <2>8. CASE ~counts
      <3>1. \A i : i \in J <=> i \in I
        BY <1>3, <2>3, <2>4, <2>5, <2>6, <2>8
      <3> QED BY <2>8, <3>1
    <2> HIDE DEF counts
    <2> QED BY <2>7, <2>8
  <1> HIDE DEF I, J, counts, n, S
  <1>5. Cardinality(I \cup {n + 1}) = Cardinality(I) + 1
    BY <1>3, FS_AddElement
  <1>6. Cardinality(J) = IF counts THEN Cardinality(I) + 1 ELSE Cardinality(I)
    BY <1>4, <1>5
  <1> QED BY <1>3, <1>6 DEF I, J, counts, Requests, S

\* What holds of the requests of records R and of those with one more at height t.
CountsNatural(R, x, y) == \A a \in Int, b \in Int : Requests(R, x, y, a, b) \in Nat

OneMore(R, T, x, y, t) ==
  \A a \in Int, b \in Int :
    /\ a <= t /\ t < b => Requests(T, x, y, a, b) = Requests(R, x, y, a, b) + 1
    /\ ~(a <= t /\ t < b) => Requests(T, x, y, a, b) = Requests(R, x, y, a, b)

CountsNested(R, x, y) ==
  \A a \in Int, b \in Int, c \in Int, d \in Int :
    c <= a /\ b <= d => Requests(R, x, y, a, b) <= Requests(R, x, y, c, d)

CountsJoined(R, x, y) ==
  \A a \in Int, b \in Int, c \in Int :
    Requests(R, x, y, a, c) <= Requests(R, x, y, a, b) + Requests(R, x, y, b, c)

RequestLaws(R, T, x, y, t) ==
  /\ CountsNatural(R, x, y) /\ CountsNatural(T, x, y) /\ OneMore(R, T, x, y, t)
  /\ CountsNested(R, x, y) /\ CountsNested(T, x, y) /\ CountsJoined(T, x, y)

LEMMA CountsAreNatural ==
  ASSUME NEW R, NEW x, NEW y, CountsNatural(R, x, y), NEW a \in Int, NEW b \in Int
  PROVE  Requests(R, x, y, a, b) \in Nat
  BY DEF CountsNatural

LEMMA RequestsHaveLaws ==
  ASSUME NEW R \in Seq(ChargeRecord), NEW r \in ChargeRecord
  PROVE  RequestLaws(R, Append(R, r), r.user, r.service, r.height)
  <1>1. PICK T, x, y, t : /\ T = Append(R, r) /\ x = r.user /\ y = r.service /\ t = r.height
    OBVIOUS
  <1>2. T \in Seq(ChargeRecord) /\ t \in Nat
    BY <1>1, AppendProperties DEF ChargeRecord
  <1>3. \A a \in Int, b \in Int :
          Requests(R, x, y, a, b) \in Nat /\ Requests(T, x, y, a, b) \in Nat
    BY <1>2, RequestsOfBoth
  <1>4. ASSUME NEW a \in Int, NEW b \in Int
        PROVE  /\ a <= t /\ t < b => Requests(T, x, y, a, b) = Requests(R, x, y, a, b) + 1
               /\ ~(a <= t /\ t < b) => Requests(T, x, y, a, b) = Requests(R, x, y, a, b)
    BY <1>1, OneMoreRequest
  <1>5. /\ \A a \in Int, b \in Int, c \in Int, d \in Int :
             c <= a /\ b <= d => Requests(R, x, y, a, b) <= Requests(R, x, y, c, d)
        /\ \A a \in Int, b \in Int, c \in Int, d \in Int :
             c <= a /\ b <= d => Requests(T, x, y, a, b) <= Requests(T, x, y, c, d)
    BY <1>2, RequestsWithin
  <1>6. \A a \in Int, b \in Int, c \in Int :
          Requests(T, x, y, a, c) <= Requests(T, x, y, a, b) + Requests(T, x, y, b, c)
    BY <1>2, RequestsOfBoth
  <1> QED BY <1>1, <1>3, <1>4, <1>5, <1>6
         DEF RequestLaws, CountsNatural, OneMore, CountsNested, CountsJoined

\* No request is earlier than 0, and none lies between a height and an earlier one.
LEMMA NoRequests ==
  ASSUME NEW R \in Seq(ChargeRecord), NEW x, NEW y, NEW a \in Int, NEW b \in Int,
         b <= a \/ b <= 0
  PROVE  Requests(R, x, y, a, b) = 0
  <1>1. ASSUME NEW i \in ChargesIn(R, x, y, a, b)
        PROVE  FALSE
    <2>1. R[i] \in ChargeRecord /\ a <= R[i].height /\ R[i].height < b
      BY FiniteCharges DEF ChargesIn
    <2>2. R[i].height \in Nat
      BY <2>1 DEF ChargeRecord
    <2> QED BY <2>1, <2>2
  <1>2. ChargesIn(R, x, y, a, b) = {}
    BY <1>1
  <1> QED BY <1>2, FS_EmptySet DEF Requests

\* A window that opens at t, after one that is over or as the first.
LEMMA WindowOpens ==
  ASSUME NEW R, NEW T, NEW x, NEW y, NEW t \in Nat, RequestLaws(R, T, x, y, t),
         t <= MaxNow, NEW s \in Nat, NEW k \in Nat, t >= s + BillingPeriod,
         k <= MostRequests, WindowKnows(R, x, y, s, k)
  PROVE  WindowKnows(R, x, y, t, 0)
  <1>1. PICK p, m, end : p = BillingPeriod /\ m = MostRequests /\ end = EndOfHeights
    OBVIOUS
  <1>2. p \in Nat /\ m \in Nat /\ end \in Nat /\ t <= end /\ t >= s + p /\ k <= m
    BY <1>1, BillingConstants
  <1>3. /\ Requests(R, x, y, t, end) <= Requests(R, x, y, s + p, end)
        /\ Requests(R, x, y, t + p, end) <= Requests(R, x, y, s + p, end)
        /\ Requests(R, x, y, t - p, t) <= Requests(R, x, y, s, end)
    BY <1>2 DEF RequestLaws, CountsNested
  <1>4. /\ Requests(R, x, y, t, end) \in Nat /\ Requests(R, x, y, t + p, end) \in Nat
        /\ Requests(R, x, y, t - p, t) \in Nat /\ Requests(R, x, y, s, end) \in Nat
    BY <1>2, CountsAreNatural DEF RequestLaws
  <1> QED BY <1>1, <1>2, <1>3, <1>4 DEF WindowKnows

LEMMA FirstWindowOpens ==
  ASSUME NEW R \in Seq(ChargeRecord), NEW T, NEW x, NEW y, NEW t \in Nat, t <= MaxNow,
         RequestLaws(R, T, x, y, t), Unused(R, x, y)
  PROVE  WindowKnows(R, x, y, t, 0)
  <1>1. PICK p, m, end : p = BillingPeriod /\ m = MostRequests /\ end = EndOfHeights
    OBVIOUS
  <1>2. p \in Nat /\ m \in Nat /\ end \in Nat /\ t <= end
    BY <1>1, BillingConstants
  <1>3. /\ Requests(R, x, y, t, end) <= Requests(R, x, y, 0, end)
        /\ Requests(R, x, y, t + p, end) <= Requests(R, x, y, 0, end)
        /\ Requests(R, x, y, 0, t) <= Requests(R, x, y, 0, end)
    BY <1>2 DEF RequestLaws, CountsNested
  <1>4. /\ Requests(R, x, y, t, end) \in Nat /\ Requests(R, x, y, t + p, end) \in Nat
        /\ Requests(R, x, y, t - p, t) \in Nat /\ Requests(R, x, y, 0, t) \in Nat
    BY <1>2, CountsAreNatural DEF RequestLaws
  <1>5. Requests(R, x, y, t - p, t) <= Requests(R, x, y, t - p, 0) + Requests(R, x, y, 0, t)
    BY <1>2, RequestsOfBoth
  <1>6. Requests(R, x, y, t - p, 0) = 0
    BY <1>2, NoRequests
  <1> QED BY <1>1, <1>2, <1>3, <1>4, <1>5, <1>6 DEF WindowKnows, Unused

\* One more request in a window.
LEMMA WindowCounts ==
  ASSUME NEW R, NEW T, NEW x, NEW y, NEW t \in Nat, t <= MaxNow, RequestLaws(R, T, x, y, t),
         NEW s \in Nat, NEW k \in Nat, s <= t, t < s + BillingPeriod,
         WindowKnows(R, x, y, s, k)
  PROVE  WindowKnows(T, x, y, s, k + 1)
  <1>1. PICK p, m, end : p = BillingPeriod /\ m = MostRequests /\ end = EndOfHeights
    OBVIOUS
  <1>2. p \in Nat /\ m \in Nat /\ end \in Nat /\ t < end /\ t < s + p
    BY <1>1, BillingConstants
  <1>3. /\ Requests(T, x, y, s, end) = Requests(R, x, y, s, end) + 1
        /\ Requests(T, x, y, s - p, s) = Requests(R, x, y, s - p, s)
        /\ Requests(T, x, y, s + p, end) = Requests(R, x, y, s + p, end)
    BY <1>2 DEF RequestLaws, OneMore
  <1>4. Requests(R, x, y, s, end) \in Nat
    BY <1>2, CountsAreNatural DEF RequestLaws
  <1> QED BY <1>1, <1>2, <1>3, <1>4 DEF WindowKnows

\* A stretch with the request in it lies within the window and the period before it.
LEMMA StretchWithin ==
  ASSUME NEW R, NEW T, NEW x, NEW y, NEW t \in Nat, t <= MaxNow, RequestLaws(R, T, x, y, t),
         NEW s \in Nat, NEW k \in Nat, s <= t, k <= MostRequests, WindowKnows(T, x, y, s, k),
         NEW h \in Nat, h <= t, t < h + BillingPeriod
  PROVE  TwiceAtMost(T, x, y, h)
  <1>1. PICK p, m, end : p = BillingPeriod /\ m = MostRequests /\ end = EndOfHeights
    OBVIOUS
  <1>2. /\ p \in Nat /\ m \in Nat /\ end \in Nat /\ t < end /\ t < h + p /\ h + p <= end
        /\ k <= m
    BY <1>1, BillingConstants
  <1>3. Requests(T, x, y, s - p, end)
          <= Requests(T, x, y, s - p, s) + Requests(T, x, y, s, end)
    BY <1>2 DEF RequestLaws, CountsJoined
  <1>4. Requests(T, x, y, h, h + p) <= Requests(T, x, y, s - p, end)
    BY <1>2 DEF RequestLaws, CountsNested
  <1>5. /\ Requests(T, x, y, h, h + p) \in Nat /\ Requests(T, x, y, s - p, end) \in Nat
        /\ Requests(T, x, y, s - p, s) \in Nat /\ Requests(T, x, y, s, end) \in Nat
    BY <1>2, CountsAreNatural DEF RequestLaws
  <1> QED BY <1>1, <1>2, <1>3, <1>4, <1>5 DEF WindowKnows, TwiceAtMost

\* A stretch without the request in it is as it was.
LEMMA StretchElsewhere ==
  ASSUME NEW R, NEW T, NEW x, NEW y, NEW t \in Nat, RequestLaws(R, T, x, y, t),
         NEW h \in Nat, ~(h <= t /\ t < h + BillingPeriod), TwiceAtMost(R, x, y, h)
  PROVE  TwiceAtMost(T, x, y, h)
  <1>1. PICK p : p = BillingPeriod
    OBVIOUS
  <1>2. p \in Nat /\ ~(h <= t /\ t < h + p)
    BY <1>1, BillingConstants
  <1>3. Requests(T, x, y, h, h + p) = Requests(R, x, y, h, h + p)
    BY <1>2 DEF RequestLaws, OneMore
  <1> QED BY <1>1, <1>3 DEF TwiceAtMost

\* A request within its rate keeps it, in the window that is open or in a new one.
LEMMA RateStaysKept ==
  ASSUME NEW R \in Seq(ChargeRecord), NEW r \in ChargeRecord, r.height <= MaxNow,
         NEW old \in RateWindow \cup {NoWindow}, NEW new \in RateWindow,
         RateKept(R, r.user, r.service, old),
         \/ /\ old = NoWindow \/ r.height >= old.start + BillingPeriod
            /\ new.count = 1 /\ new.start = r.height
         \/ /\ old # NoWindow /\ r.height < old.start + BillingPeriod
            /\ old.start <= r.height /\ old.count < MaxRequests
            /\ new.count = old.count + 1 /\ new.start = old.start
  PROVE  RateKept(Append(R, r), r.user, r.service, new)
  <1>1. PICK T, x, y, t, s, k, u, c :
          /\ T = Append(R, r) /\ x = r.user /\ y = r.service /\ t = r.height
          /\ s = old.start /\ k = old.count /\ u = new.start /\ c = new.count
    OBVIOUS
  <1>2. t \in Nat /\ t <= MaxNow /\ u \in Nat /\ c \in Nat /\ new # NoWindow
    BY <1>1, BillingConstants DEF ChargeRecord, RateWindow
  <1>3. RequestLaws(R, T, x, y, t)
    BY <1>1, RequestsHaveLaws
  <1>4. /\ old = NoWindow => Unused(R, x, y)
        /\ old # NoWindow /\ BillingPeriod > 0 => k <= MostRequests /\ WindowKnows(R, x, y, s, k)
        /\ \A h \in 0 .. MaxNow : TwiceAtMost(R, x, y, h)
    BY <1>1 DEF RateKept
  <1>5. old # NoWindow => s \in Nat /\ k \in Nat
    BY <1>1 DEF RateWindow
  <1>6. ASSUME BillingPeriod > 0
        PROVE  /\ c <= MostRequests /\ u <= t /\ WindowKnows(T, x, y, u, c)
    <2>1. CASE (old = NoWindow \/ t >= s + BillingPeriod) /\ c = 1 /\ u = t
      <3>1. WindowKnows(R, x, y, t, 0)
        BY <1>2, <1>3, <1>4, <1>5, <1>6, <2>1, WindowOpens, FirstWindowOpens
      <3>2. t < t + BillingPeriod /\ t <= t /\ 0 \in Nat
        BY <1>2, <1>6, BillingConstants
      <3>3. WindowKnows(T, x, y, t, 0 + 1)
        BY <1>2, <1>3, <3>1, <3>2, WindowCounts
      <3> QED BY <1>2, <2>1, <3>3, BillingConstants
    <2>2. CASE /\ old # NoWindow /\ t < s + BillingPeriod /\ s <= t /\ k < MaxRequests
               /\ c = k + 1 /\ u = s
      <3>1. s \in Nat /\ k \in Nat
        BY <1>5, <2>2
      <3>2. WindowKnows(T, x, y, s, k + 1)
        BY <1>2, <1>3, <1>4, <1>6, <2>2, <3>1, WindowCounts
      <3> QED BY <1>2, <2>2, <3>1, <3>2, BillingConstants
    <2> QED BY <1>1, <2>1, <2>2
  <1>7. ASSUME NEW h \in 0 .. MaxNow
        PROVE  TwiceAtMost(T, x, y, h)
    <2>1. h \in Nat
      OBVIOUS
    <2>2. CASE h <= t /\ t < h + BillingPeriod
      <3>1. BillingPeriod > 0
        BY <1>2, <2>1, <2>2, BillingConstants
      <3> QED BY <1>2, <1>3, <1>6, <2>1, <2>2, <3>1, StretchWithin
    <2>3. CASE ~(h <= t /\ t < h + BillingPeriod)
      BY <1>2, <1>3, <1>4, <2>1, <2>3, StretchElsewhere
    <2> QED BY <2>2, <2>3
  <1> QED BY <1>1, <1>2, <1>6, <1>7 DEF RateKept


\* What some of the charges add up to, and what one more adds to it.
LEMMA ChargesTyped ==
  ASSUME NEW R \in Seq(ChargeRecord), NEW I \in SUBSET DOMAIN R
  PROVE  CreditsOf(R, I) \in [I -> Nat] /\ IsFiniteSet(I) /\ SumFunction(CreditsOf(R, I)) \in Nat
  <1>1. \A i \in I : R[i].credits \in Nat
    BY FiniteCharges DEF ChargeRecord
  <1>2. CreditsOf(R, I) \in [I -> Nat]
    BY <1>1 DEF CreditsOf
  <1>3. IsFiniteSet(I)
    BY FiniteCharges
  <1> QED BY <1>2, <1>3, SumNat

\* Records T are records R and one more at n, and the charges J of T are the charges I of R or
\* have the new one besides.
OneLonger(R, T, r, n) ==
  /\ R \in Seq(ChargeRecord) /\ T \in Seq(ChargeRecord) /\ r \in ChargeRecord
  /\ DOMAIN T = DOMAIN R \cup {n} /\ n \notin DOMAIN R
  /\ \A i \in DOMAIN R : T[i] = R[i]
  /\ T[n] = r

SameSum(R, T, I, J) ==
  /\ SumFunction(CreditsOf(T, J)) = SumFunction(CreditsOf(R, I))
  /\ Cardinality(J) = Cardinality(I)

SumGrows(R, T, I, J, credits) ==
  /\ SumFunction(CreditsOf(T, J)) = SumFunction(CreditsOf(R, I)) + credits
  /\ Cardinality(J) = Cardinality(I) + 1

LEMMA AppendIsOneLonger ==
  ASSUME NEW R \in Seq(ChargeRecord), NEW r \in ChargeRecord
  PROVE  OneLonger(R, Append(R, r), r, Len(R) + 1)
  BY AppendProperties DEF OneLonger

LEMMA SameCharges ==
  ASSUME NEW R, NEW r, NEW T, NEW n, OneLonger(R, T, r, n), NEW I \in SUBSET DOMAIN R
  PROVE  SameSum(R, T, I, I)
  <1>1. \A i \in I : T[i] = R[i]
    BY DEF OneLonger
  <1>2. CreditsOf(T, I) = CreditsOf(R, I)
    BY <1>1 DEF CreditsOf
  <1> QED BY <1>2 DEF SameSum

LEMMA OneMoreCharge ==
  ASSUME NEW R, NEW r, NEW T, NEW n, OneLonger(R, T, r, n), NEW I \in SUBSET DOMAIN R
  PROVE  SumGrows(R, T, I, I \cup {n}, r.credits)
  <1>1. /\ R \in Seq(ChargeRecord) /\ T \in Seq(ChargeRecord)
        /\ I \cup {n} \in SUBSET DOMAIN T /\ n \notin I
        /\ \A i \in I : T[i] = R[i]
        /\ T[n] = r
    BY DEF OneLonger
  <1>2. PICK f, g, J : f = CreditsOf(R, I) /\ g = CreditsOf(T, J) /\ J = I \cup {n}
    OBVIOUS
  <1>3. IsFiniteSet(I)
    BY <1>1, FiniteCharges
  <1>4. f \in [I -> Int]
    <2>1. f \in [I -> Nat]
      BY <1>1, <1>2, ChargesTyped
    <2> QED BY <2>1
  <1>5. g \in [I \cup {n} -> Int]
    <2>1. g \in [J -> Nat]
      BY <1>1, <1>2, ChargesTyped
    <2> QED BY <1>2, <2>1
  <1>6. \A i \in I : g[i] = f[i]
    BY <1>1, <1>2 DEF CreditsOf
  <1>7. g[n] = r.credits
    BY <1>1, <1>2 DEF CreditsOf
  <1>8. n \notin I
    BY <1>1
  <1>9. SumFunction(g) = SumFunction(f) + g[n]
    BY <1>3, <1>4, <1>5, <1>6, <1>8, SumExtend
  <1>10. Cardinality(J) = Cardinality(I) + 1
    BY <1>2, <1>3, <1>8, FS_AddElement
  <1> QED BY <1>2, <1>7, <1>9, <1>10 DEF SumGrows

LEMMA UserCharged ==
  ASSUME NEW R, NEW r, NEW u, NEW T, NEW n, OneLonger(R, T, r, n)
  PROVE  /\ r.user = u =>
              SumGrows(R, T, ChargesOfUser(R, u), ChargesOfUser(T, u), r.credits)
         /\ r.user # u =>
              SameSum(R, T, ChargesOfUser(R, u), ChargesOfUser(T, u))
  <1>1. PICK I : I = ChargesOfUser(R, u)
    OBVIOUS
  <1>2. I \in SUBSET DOMAIN R
    BY <1>1 DEF ChargesOfUser
  <1>3. CASE r.user = u
    <2>1. ChargesOfUser(T, u) = I \cup {n}
      BY <1>1, <1>3 DEF ChargesOfUser, OneLonger
    <2>2. SumGrows(R, T, I, I \cup {n}, r.credits)
      BY <1>2, OneMoreCharge
    <2> QED BY <1>1, <1>3, <2>1, <2>2
  <1>4. CASE r.user # u
    <2>1. ChargesOfUser(T, u) = I
      BY <1>1, <1>4 DEF ChargesOfUser, OneLonger
    <2>2. SameSum(R, T, I, I)
      BY <1>2, SameCharges
    <2> QED BY <1>1, <1>4, <2>1, <2>2
  <1> QED BY <1>3, <1>4

LEMMA ServiceCharged ==
  ASSUME NEW R, NEW r, NEW s, NEW T, NEW n, OneLonger(R, T, r, n)
  PROVE  /\ r.service = s =>
              SumGrows(R, T, ChargesOfService(R, s), ChargesOfService(T, s), r.credits)
         /\ r.service # s =>
              SameSum(R, T, ChargesOfService(R, s), ChargesOfService(T, s))
  <1>1. PICK I : I = ChargesOfService(R, s)
    OBVIOUS
  <1>2. I \in SUBSET DOMAIN R
    BY <1>1 DEF ChargesOfService
  <1>3. CASE r.service = s
    <2>1. ChargesOfService(T, s) = I \cup {n}
      BY <1>1, <1>3 DEF ChargesOfService, OneLonger
    <2>2. SumGrows(R, T, I, I \cup {n}, r.credits)
      BY <1>2, OneMoreCharge
    <2> QED BY <1>1, <1>3, <2>1, <2>2
  <1>4. CASE r.service # s
    <2>1. ChargesOfService(T, s) = I
      BY <1>1, <1>4 DEF ChargesOfService, OneLonger
    <2>2. SameSum(R, T, I, I)
      BY <1>2, SameCharges
    <2> QED BY <1>1, <1>4, <2>1, <2>2
  <1> QED BY <1>3, <1>4

LEMMA ChargeKeepsTotals ==
  ASSUME BillingInv, NEW r \in ChargeRecord,
         billingRecords' = Append(billingRecords, r),
         userTotals' = [userTotals EXCEPT ![r.user] = @ + r.credits],
         serviceTotals' = [serviceTotals EXCEPT
           ![r.service] = [credits |-> @.credits + r.credits, requests |-> @.requests + 1]]
  PROVE  /\ billingRecords' \in Seq(ChargeRecord)
         /\ userTotals' \in [BilledUser -> Nat]
         /\ serviceTotals' \in [BilledService -> [credits : Nat, requests : Nat]]
         /\ \A u \in BilledUser :
              userTotals'[u]
                = SumFunction(CreditsOf(billingRecords', ChargesOfUser(billingRecords', u)))
         /\ \A s \in BilledService :
              serviceTotals'[s] =
                [credits |->
                   SumFunction(CreditsOf(billingRecords', ChargesOfService(billingRecords', s))),
                 requests |-> Cardinality(ChargesOfService(billingRecords', s))]
  <1>1. PICK R, T, n : /\ R = billingRecords /\ T = billingRecords' /\ OneLonger(R, T, r, n)
                       /\ R \in Seq(ChargeRecord) /\ T \in Seq(ChargeRecord)
    <2>1. billingRecords \in Seq(ChargeRecord)
      BY DEF BillingInv, BillingTypeOK, ChargeRecord
    <2>2. OneLonger(billingRecords, billingRecords', r, Len(billingRecords) + 1)
      BY <2>1, AppendIsOneLonger
    <2> QED BY <2>1, <2>2, AppendProperties
  <1>2. /\ userTotals \in [BilledUser -> Nat]
        /\ serviceTotals \in [BilledService -> [credits : Nat, requests : Nat]]
        /\ r.user \in BilledUser /\ r.service \in BilledService /\ r.credits \in Nat
    BY DEF BillingInv, BillingTypeOK, ChargeRecord
  <1>3. ASSUME NEW u \in BilledUser
        PROVE  userTotals'[u] = SumFunction(CreditsOf(T, ChargesOfUser(T, u)))
    <2>1. userTotals[u] = SumFunction(CreditsOf(R, ChargesOfUser(R, u)))
      BY <1>1 DEF BillingInv
    <2>2. CASE r.user = u
      <3>1. SumGrows(R, T, ChargesOfUser(R, u), ChargesOfUser(T, u), r.credits)
        BY <1>1, <2>2, UserCharged
      <3> QED BY <1>2, <2>1, <2>2, <3>1 DEF SumGrows
    <2>3. CASE r.user # u
      <3>1. SameSum(R, T, ChargesOfUser(R, u), ChargesOfUser(T, u))
        BY <1>1, <2>3, UserCharged
      <3> QED BY <1>2, <2>1, <2>3, <3>1 DEF SameSum
    <2> QED BY <2>2, <2>3
  <1>4. ASSUME NEW s \in BilledService
        PROVE  serviceTotals'[s] = [credits |-> SumFunction(CreditsOf(T, ChargesOfService(T, s))),
                                    requests |-> Cardinality(ChargesOfService(T, s))]
    <2>1. serviceTotals[s] = [credits |-> SumFunction(CreditsOf(R, ChargesOfService(R, s))),
                              requests |-> Cardinality(ChargesOfService(R, s))]
      BY <1>1 DEF BillingInv
    <2>2. CASE r.service = s
      <3>1. SumGrows(R, T, ChargesOfService(R, s), ChargesOfService(T, s), r.credits)
        BY <1>1, <2>2, ServiceCharged
      <3>2. serviceTotals'[s] = [credits |-> serviceTotals[s].credits + r.credits,
                                 requests |-> serviceTotals[s].requests + 1]
        BY <1>2, <2>2
      <3> QED BY <2>1, <3>1, <3>2 DEF SumGrows
    <2>3. CASE r.service # s
      <3>1. SameSum(R, T, ChargesOfService(R, s), ChargesOfService(T, s))
        BY <1>1, <2>3, ServiceCharged
      <3>2. serviceTotals'[s] = serviceTotals[s]
        BY <1>2, <2>3
      <3> QED BY <2>1, <3>1, <3>2 DEF SameSum
    <2> QED BY <2>2, <2>3
  <1>5. userTotals' \in [BilledUser -> Nat]
    BY <1>2
  <1>6. serviceTotals' \in [BilledService -> [credits : Nat, requests : Nat]]
    BY <1>2
  <1> QED BY <1>1, <1>2, <1>3, <1>4, <1>5, <1>6

\* The current height is not before any window that is open.
WindowsBegun == \A k \in Usage : rateLimits[k] # NoWindow => rateLimits[k].start <= now

LEMMA ChargeKeepsBilling ==
  ASSUME BillingInv, WindowsBegun, now \in 0 .. MaxNow, NEW user \in BilledUser,
         NEW service \in BilledService, NEW credits \in Charges, NEW balance \in BilledBalances,
         Charge(user, service, credits, balance)
  PROVE  BillingInv' /\ \A k \in Usage : rateLimits'[k] # NoWindow => rateLimits'[k].start <= now
  <1> DEFINE r == [user |-> user, service |-> service, credits |-> credits, height |-> now]
             key == <<user, service>>
             old == rateLimits[key]
             new == CountedWindow(key)
  <1>1. now \in Nat /\ now <= MaxNow /\ credits \in Nat
    BY HeightsTyped, BillingTyped DEF HeightsTyped, BillingTyped
  <1>2. /\ r \in ChargeRecord /\ r.user = user /\ r.service = service /\ r.credits = credits
        /\ r.height = now
    BY <1>1 DEF ChargeRecord
  <1>3. key \in Usage /\ key[1] = user /\ key[2] = service
    BY DEF Usage
  <1> HIDE DEF r
  <1>4. /\ billingRecords' = Append(billingRecords, r)
        /\ userTotals' = [userTotals EXCEPT ![user] = @ + credits]
        /\ serviceTotals' = [serviceTotals EXCEPT
             ![service] = [credits |-> @.credits + credits, requests |-> @.requests + 1]]
        /\ rateLimits' = [rateLimits EXCEPT ![key] = new]
        /\ enabledServices' = enabledServices /\ WithinRate(key)
    BY DEF Charge, r
  <1> HIDE DEF key
  <1>5. /\ billingRecords \in Seq(ChargeRecord)
        /\ rateLimits \in [Usage -> RateWindow \cup {NoWindow}]
        /\ enabledServices \subseteq BilledService
    BY DEF BillingInv, BillingTypeOK, ChargeRecord
  <1>6. /\ billingRecords' \in Seq(ChargeRecord)
        /\ userTotals' \in [BilledUser -> Nat]
        /\ serviceTotals' \in [BilledService -> [credits : Nat, requests : Nat]]
        /\ \A u \in BilledUser :
             userTotals'[u]
               = SumFunction(CreditsOf(billingRecords', ChargesOfUser(billingRecords', u)))
        /\ \A s \in BilledService :
             serviceTotals'[s] =
               [credits |->
                  SumFunction(CreditsOf(billingRecords', ChargesOfService(billingRecords', s))),
                requests |-> Cardinality(ChargesOfService(billingRecords', s))]
    BY <1>2, <1>4, ChargeKeepsTotals
  <1>7. /\ old \in RateWindow \cup {NoWindow} /\ new \in RateWindow
        /\ \/ /\ old = NoWindow \/ now >= old.start + BillingPeriod
              /\ new.count = 1 /\ new.start = now
           \/ /\ old # NoWindow /\ now < old.start + BillingPeriod
              /\ old.start <= now /\ old.count < MaxRequests
              /\ new.count = old.count + 1 /\ new.start = old.start
        /\ new.start <= now
    <2>1. old \in RateWindow \cup {NoWindow}
      BY <1>3, <1>5
    <2>2. old # NoWindow => old.start <= now
      BY <1>3 DEF WindowsBegun
    <2>3. CASE old = NoWindow \/ WindowOver(key)
      <3>1. new = [count |-> 1, start |-> now]
        BY <2>3 DEF CountedWindow
      <3> QED BY <1>1, <2>1, <2>3, <3>1 DEF RateWindow, WindowOver
    <2>4. CASE old # NoWindow /\ ~WindowOver(key)
      <3>1. new = [old EXCEPT !.count = @ + 1] /\ old.count < MaxRequests
        BY <1>4, <2>4 DEF CountedWindow, WithinRate
      <3>2. old \in RateWindow /\ old.start \in Nat /\ old.count \in Nat
        BY <2>1, <2>4 DEF RateWindow
      <3>3. now < old.start + BillingPeriod
        BY <1>1, <2>4, <3>2, BillingConstants DEF WindowOver
      <3> HIDE DEF new, old
      <3>4. new \in RateWindow /\ new.count = old.count + 1 /\ new.start = old.start
        BY <3>1, <3>2 DEF RateWindow
      <3> QED BY <2>1, <2>2, <2>4, <3>1, <3>3, <3>4
    <2> QED BY <2>3, <2>4
  <1>8. RateKept(billingRecords', user, service, new)
    <2>1. RateKept(billingRecords, user, service, old)
      BY <1>3 DEF BillingInv
    <2> HIDE DEF new, old
    <2> QED BY <1>1, <1>2, <1>4, <1>5, <1>7, <2>1, RateStaysKept
  <1> HIDE DEF new, old
  <1>9. /\ rateLimits' \in [Usage -> RateWindow \cup {NoWindow}] /\ rateLimits'[key] = new
        /\ \A k \in Usage : k # key => rateLimits'[k] = rateLimits[k]
    BY <1>3, <1>4, <1>5, <1>7
  <1>10. ASSUME NEW k \in Usage, k # key
         PROVE  RateKept(billingRecords', k[1], k[2], rateLimits'[k])
    <2>1. ~(r.user = k[1] /\ r.service = k[2])
      BY <1>2, <1>10 DEF Usage, key
    <2>2. RateKept(billingRecords, k[1], k[2], rateLimits[k])
      BY DEF BillingInv
    <2>3. \A a \in Int, b \in Int : Requests(billingRecords', k[1], k[2], a, b)
                                      = Requests(billingRecords, k[1], k[2], a, b)
      BY <1>2, <1>4, <1>5, <2>1, OneMoreRequest
    <2>4. rateLimits[k] # NoWindow => rateLimits[k].start \in Nat
      BY <1>5 DEF RateWindow
    <2> QED BY <1>9, <1>10, <2>2, <2>3, <2>4, BillingConstants
            DEF RateKept, Unused, TwiceAtMost, WindowKnows
  <1>11. \A k \in Usage : RateKept(billingRecords', k[1], k[2], rateLimits'[k])
    BY <1>3, <1>8, <1>9, <1>10
  <1>12. BillingTypeOK'
    BY <1>4, <1>5, <1>6, <1>9 DEF BillingTypeOK, ChargeRecord
  <1>13. \A k \in Usage : rateLimits'[k] # NoWindow => rateLimits'[k].start <= now
    BY <1>7, <1>9 DEF WindowsBegun
  <1> QED BY <1>6, <1>11, <1>12, <1>13 DEF BillingInv

LEMMA BillingInvInit ==
  ASSUME BillingInit
  PROVE  BillingInv /\ WindowsBegun
  <1>1. /\ billingRecords = <<>> /\ enabledServices = {}
        /\ \A k \in Usage : rateLimits[k] = NoWindow
        /\ \A u \in BilledUser : userTotals[u] = 0
        /\ \A s \in BilledService : serviceTotals[s] = [credits |-> 0, requests |-> 0]
        /\ BillingTypeOK
    BY DEF BillingInit, BillingTypeOK
  <1>2. <<>> \in Seq(ChargeRecord)
    OBVIOUS
  <1>3. /\ \A u : ChargesOfUser(<<>>, u) = {}
        /\ \A s : ChargesOfService(<<>>, s) = {}
        /\ \A u, s, a, b : ChargesIn(<<>>, u, s, a, b) = {}
    BY DEF ChargesOfUser, ChargesOfService, ChargesIn
  <1>4. Cardinality({}) = 0 /\ SumFunction(CreditsOf(<<>>, {})) = 0
    <2>1. DOMAIN CreditsOf(<<>>, {}) = {}
      BY DEF CreditsOf
    <2> QED BY <2>1, FS_EmptySet, SumZero
  <1>5. \A u, s, a, b : Requests(<<>>, u, s, a, b) = 0
    BY <1>3, <1>4 DEF Requests
  <1>6. \A u, s : RateKept(<<>>, u, s, NoWindow)
    BY <1>5, BillingConstants DEF RateKept, Unused, TwiceAtMost
  <1> QED BY <1>1, <1>3, <1>4, <1>6 DEF BillingInv, WindowsBegun

LEMMA BillingInvStep ==
  ASSUME BillingInv, WindowsBegun, now \in 0 .. MaxNow,
         \/ BillingNext /\ UNCHANGED now
         \/ UNCHANGED billingVars /\ now' \in Nat /\ now' >= now
  PROVE  BillingInv' /\ WindowsBegun'
  <1>1. ASSUME UNCHANGED <<billingRecords, userTotals, serviceTotals, rateLimits>>,
               enabledServices' \subseteq BilledService, now' \in Nat, now' >= now
        PROVE  BillingInv' /\ WindowsBegun'
    <2>1. BillingInv'
      BY <1>1 DEF BillingInv, BillingTypeOK
    <2>2. WindowsBegun'
      <3> SUFFICES ASSUME NEW k \in Usage, rateLimits[k] # NoWindow
                   PROVE  rateLimits[k].start <= now'
        BY <1>1 DEF WindowsBegun
      <3>1. rateLimits[k].start <= now /\ rateLimits[k].start \in Nat
        BY DEF WindowsBegun, BillingInv, BillingTypeOK, RateWindow
      <3> QED BY <1>1, <3>1, HeightsTyped DEF HeightsTyped
    <2> QED BY <2>1, <2>2
  <1>2. now \in Nat /\ enabledServices \subseteq BilledService
    BY HeightsTyped DEF HeightsTyped, BillingInv, BillingTypeOK
  <1>3. CASE UNCHANGED billingVars /\ now' \in Nat /\ now' >= now
    BY <1>1, <1>2, <1>3 DEF billingVars
  <1>4. CASE BillingNext /\ now' = now
    <2>1. PICK service \in BilledService :
            \/ EnableService(service) \/ DisableService(service)
            \/ \E user \in BilledUser, credits \in Charges, balance \in BilledBalances :
                 Charge(user, service, credits, balance)
      BY <1>4 DEF BillingNext
    <2>2. CASE EnableService(service) \/ DisableService(service)
      BY <1>1, <1>2, <1>4, <2>2 DEF EnableService, DisableService
    <2>3. ASSUME NEW user \in BilledUser, NEW credits \in Charges,
                 NEW balance \in BilledBalances, Charge(user, service, credits, balance)
          PROVE  BillingInv' /\ WindowsBegun'
      BY <1>4, <2>3, ChargeKeepsBilling DEF WindowsBegun
    <2> QED BY <2>1, <2>2, <2>3
  <1> QED BY <1>3, <1>4

LEMMA BillingInvImplies ==
  ASSUME BillingInv
  PROVE  BillingAccounted
  <1> DEFINE R == billingRecords
             of(u, s) == {i \in DOMAIN R : R[i].user \in u /\ R[i].service \in s}
  <1>1. R \in Seq(ChargeRecord)
    BY DEF BillingInv, BillingTypeOK, ChargeRecord
  <1>2. \A i \in DOMAIN R : R[i] \in ChargeRecord
    BY <1>1, FiniteCharges
  <1>3. \A i \in DOMAIN R :
          R[i].user \in BilledUser /\ R[i].service \in BilledService /\ R[i].height \in Nat
    BY <1>2 DEF ChargeRecord
  <1>4. \A u : of({u}, BilledService) = ChargesOfUser(R, u)
    BY <1>3 DEF ChargesOfUser
  <1>5. \A s : of(BilledUser, {s}) = ChargesOfService(R, s)
    BY <1>3 DEF ChargesOfService
  <1>6. ASSUME NEW u \in BilledUser, NEW s \in BilledService, NEW h \in 0 .. MaxNow
        PROVE  Cardinality({i \in of({u}, {s}) : R[i].height \in h .. h + BillingPeriod - 1})
                 <= 2 * MostRequests
    <2>1. h \in Nat /\ BillingPeriod \in Nat
      BY BillingConstants
    <2>2. {i \in of({u}, {s}) : R[i].height \in h .. h + BillingPeriod - 1}
            = ChargesIn(R, u, s, h, h + BillingPeriod)
      BY <1>3, <2>1 DEF ChargesIn
    <2>3. <<u, s>> \in Usage /\ <<u, s>>[1] = u /\ <<u, s>>[2] = s
      BY DEF Usage
    <2>4. RateKept(R, u, s, rateLimits[<<u, s>>])
      BY <2>3 DEF BillingInv
    <2> QED BY <2>2, <2>4 DEF RateKept, TwiceAtMost, Requests
  <1>7. ASSUME NEW u \in BilledUser
        PROVE  userTotals[u] = SumOver(LAMBDA i : R[i].credits, of({u}, BilledService))
    <2>1. userTotals[u] = SumFunction(CreditsOf(R, ChargesOfUser(R, u)))
      BY DEF BillingInv
    <2> QED BY <1>4, <2>1 DEF CreditsOf, SumOver
  <1>8. ASSUME NEW s \in BilledService
        PROVE  serviceTotals[s]
                 = [credits |-> SumOver(LAMBDA i : R[i].credits, of(BilledUser, {s})),
                    requests |-> Cardinality(of(BilledUser, {s}))]
    <2>1. serviceTotals[s] = [credits |-> SumFunction(CreditsOf(R, ChargesOfService(R, s))),
                              requests |-> Cardinality(ChargesOfService(R, s))]
      BY DEF BillingInv
    <2> QED BY <1>5, <2>1 DEF CreditsOf, SumOver
  <1> QED BY <1>6, <1>7, <1>8 DEF BillingAccounted, MostRequests


----------------------------------------------------------------------------
(* Wallets stay within their limits *)

SpentByHeight == [0 .. MaxNow -> Nat]
HeightsBetween(a, b) == {h \in 0 .. MaxNow : a <= h /\ h < b}

\* What was spent from one height up to another.
SpentBetween(f, a, b) == SumFunctionOnSet(f, HeightsBetween(a, b))

LastHeights == MaxNow + 1

\* A window that began at start knows what was spent since then, and nothing was after it.
SpentSince(f, start, length, spent) ==
  /\ spent = SpentBetween(f, start, LastHeights)
  /\ SpentBetween(f, start + length, LastHeights) = 0

\* Neither a window nor the stretch of its length before it has more than the limit, and no
\* stretch of that length more than twice of it.
StretchWithinTwice(f, h, length, limit) == SpentBetween(f, h, h + length) <= 2 * limit

SpentWithin(f, start, length, spent, limit) ==
  /\ spent <= limit
  /\ SpentBetween(f, start - length, start) <= limit
  /\ \A h \in 0 .. MaxNow : StretchWithinTwice(f, h, length, limit)

Limited(wallet, w) == w = "period" \/ wallet.limit[w] > 0
HighestOf(wallet, w, highest) == IF w = "period" THEN highest ELSE wallet.limit[w]

WindowKept(f, wallet, w, highest) ==
  Ends(wallet, w) =>
    /\ SpentSince(f, wallet.start[w], wallet.length[w], wallet.spent[w])
    /\ Limited(wallet, w) =>
         SpentWithin(f, wallet.start[w], wallet.length[w], wallet.spent[w],
                     HighestOf(wallet, w, highest))

WalletKept(f, wallet, putIn, paid, highest) ==
  /\ wallet = NoWallet => f = [h \in 0 .. MaxNow |-> 0] /\ putIn = 0 /\ paid = 0
  /\ wallet # NoWallet =>
       /\ putIn = wallet.balance + wallet.totalSpent + paid
       /\ wallet.limit["period"] <= highest
       /\ \A w \in Windows : WindowKept(f, wallet, w, highest)

WalletsInv ==
  /\ WalletsTypeOK
  /\ \A a \in Agent :
       WalletKept(spentAt[a], agentWallets[a], walletDeposits[a], paidBack[a], highestLimit[a])

\* The current height is not before any window.
WalletsBegun ==
  \A a \in Agent : HasWallet(a) => \A w \in Windows : agentWallets[a].start[w] <= now

LEMMA HeightsAreFinite ==
  /\ IsFiniteSet(0 .. MaxNow) /\ MaxNow \in Nat /\ LastHeights \in Nat
  /\ LastHeights = MaxNow + 1
  BY HeightsTyped, FS_Interval DEF HeightsTyped, LastHeights

\* Fewer heights, or those of two sets, have at most what the others have.
LEMMA LessSpent ==
  ASSUME NEW f \in SpentByHeight, NEW T \in SUBSET (0 .. MaxNow), NEW S \in SUBSET T
  PROVE  /\ SumFunctionOnSet(f, S) \in Nat /\ SumFunctionOnSet(f, T) \in Nat
         /\ SumFunctionOnSet(f, S) <= SumFunctionOnSet(f, T)
  <1> DEFINE rest == T \ S
  <1>1. IsFiniteSet(S) /\ IsFiniteSet(rest) /\ IsFiniteSet(T)
    BY HeightsAreFinite, FS_Subset
  <1>2. \A h \in 0 .. MaxNow : f[h] \in Nat /\ f[h] \in Int
    BY DEF SpentByHeight
  <1>3. SumFunctionOnSet(f, S) \in Nat /\ SumFunctionOnSet(f, rest) \in Nat
    BY <1>1, <1>2, SumOnNat
  <1>4. S \cap rest = {} /\ S \cup rest = T
    OBVIOUS
  <1>5. \A h \in S \cup rest : f[h] \in Int
    BY <1>2
  <1> HIDE DEF rest
  <1>6. SumFunctionOnSet(f, S \cup rest) = SumFunctionOnSet(f, S) + SumFunctionOnSet(f, rest)
    BY <1>1, <1>4, <1>5, SumOnDisjoint
  <1> QED BY <1>3, <1>4, <1>6

LEMMA SpentIsNatural ==
  ASSUME NEW f \in SpentByHeight, NEW a, NEW b
  PROVE  SpentBetween(f, a, b) \in Nat
  <1>1. HeightsBetween(a, b) \in SUBSET (0 .. MaxNow)
    BY DEF HeightsBetween
  <1> QED BY <1>1, LessSpent DEF SpentBetween

LEMMA SpentNested ==
  ASSUME NEW f \in SpentByHeight, NEW a \in Int, NEW b \in Int, NEW c \in Int, NEW d \in Int,
         c <= a, b <= d
  PROVE  SpentBetween(f, a, b) <= SpentBetween(f, c, d)
  <1>1. /\ HeightsBetween(c, d) \in SUBSET (0 .. MaxNow)
        /\ HeightsBetween(a, b) \in SUBSET HeightsBetween(c, d)
    BY HeightsTyped DEF HeightsBetween, HeightsTyped
  <1> QED BY <1>1, LessSpent DEF SpentBetween

LEMMA SpentJoined ==
  ASSUME NEW f \in SpentByHeight, NEW a \in Int, NEW b \in Int, NEW c \in Int
  PROVE  SpentBetween(f, a, c) <= SpentBetween(f, a, b) + SpentBetween(f, b, c)
  <1> DEFINE S == HeightsBetween(a, b)
             T == HeightsBetween(b, c)
             U == HeightsBetween(a, c)
  <1>1. S \in SUBSET (0 .. MaxNow) /\ T \in SUBSET (0 .. MaxNow)
    BY DEF HeightsBetween
  <1>2. U \in SUBSET (S \cup T)
    BY HeightsTyped DEF HeightsBetween, HeightsTyped
  <1> HIDE DEF S, T, U
  <1>3. IsFiniteSet(S) /\ IsFiniteSet(T)
    BY <1>1, HeightsAreFinite, FS_Subset
  <1>4. \A h \in S \cup T : f[h] \in Int
    BY <1>1 DEF SpentByHeight
  <1>5. SumFunctionOnSet(f, S \cup T)
          = SumFunctionOnSet(f, S) + SumFunctionOnSet(f, T) - SumFunctionOnSet(f, S \cap T)
    BY <1>3, <1>4, SumOnUnion
  <1>6. PICK J, M : J = S \cup T /\ M = S \cap T
    OBVIOUS
  <1>7. J \in SUBSET (0 .. MaxNow) /\ M \in SUBSET S /\ U \in SUBSET J
    BY <1>1, <1>2, <1>6
  <1>8. /\ SumFunctionOnSet(f, M) \in Nat /\ SumFunctionOnSet(f, U) \in Nat
        /\ SumFunctionOnSet(f, S) \in Nat /\ SumFunctionOnSet(f, T) \in Nat
        /\ SumFunctionOnSet(f, U) <= SumFunctionOnSet(f, J)
    BY <1>1, <1>7, LessSpent
  <1> QED BY <1>5, <1>6, <1>8 DEF SpentBetween, S, T, U

\* One more spending: where it counts, and where it does not.
SpentMoreAt(f, g, t, n) ==
  /\ f \in SpentByHeight /\ g \in SpentByHeight /\ t \in 0 .. MaxNow /\ n \in Nat
  /\ g[t] = f[t] + n
  /\ \A h \in (0 .. MaxNow) \ {t} : g[h] = f[h]

LEMMA SpentMoreExcept ==
  ASSUME NEW f \in SpentByHeight, NEW t \in 0 .. MaxNow, NEW n \in Nat
  PROVE  SpentMoreAt(f, [f EXCEPT ![t] = @ + n], t, n)
  BY DEF SpentMoreAt, SpentByHeight

LEMMA SpentElsewhere ==
  ASSUME NEW f, NEW g, NEW t, NEW n, SpentMoreAt(f, g, t, n),
         NEW a \in Int, NEW b \in Int, ~(a <= t /\ t < b)
  PROVE  SpentBetween(g, a, b) = SpentBetween(f, a, b)
  <1>1. PICK S : S = HeightsBetween(a, b)
    OBVIOUS
  <1>2. IsFiniteSet(S) /\ \A h \in S : g[h] = f[h]
    BY <1>1, HeightsAreFinite, FS_Subset DEF HeightsBetween, SpentMoreAt
  <1>3. SumFunctionOnSet(g, S) = SumFunctionOnSet(f, S)
    BY <1>2, SumOnAgree
  <1> QED BY <1>1, <1>3 DEF SpentBetween

LEMMA SpentThere ==
  ASSUME NEW f, NEW g, NEW t, NEW n, SpentMoreAt(f, g, t, n),
         NEW a \in Int, NEW b \in Int, a <= t, t < b
  PROVE  SpentBetween(g, a, b) = SpentBetween(f, a, b) + n
  <1>1. PICK S, R : S = HeightsBetween(a, b) /\ R = S \ {t}
    OBVIOUS
  <1>2. S \in SUBSET (0 .. MaxNow) /\ t \in S /\ f \in SpentByHeight
    BY <1>1 DEF HeightsBetween, SpentMoreAt
  <1>3. IsFiniteSet(S) /\ IsFiniteSet(R)
    BY <1>1, <1>2, HeightsAreFinite, FS_Subset
  <1>4. /\ g \in SpentByHeight /\ g[t] = f[t] + n /\ f[t] \in Nat
        /\ n \in Nat
        /\ \A h \in R : g[h] = f[h]
    BY <1>1, <1>2 DEF SpentByHeight, SpentMoreAt
  <1>5. (\A h \in S : f[h] \in Int) /\ (\A h \in S : g[h] \in Int)
    BY <1>2, <1>4 DEF SpentByHeight
  <1>6. ASSUME NEW e, \A h \in S : e[h] \in Int
        PROVE  SumFunctionOnSet(e, S) = e[t] + SumFunctionOnSet(e, R)
    <2>1. t \in S /\ IsFiniteSet(S)
      BY <1>2, <1>3
    <2>2. SumFunctionOnSet(e, S) = e[t] + SumFunctionOnSet(e, S \ {t})
      BY <1>6, <2>1, SumOnTakeOut
    <2> QED BY <1>1, <2>2
  <1>7. /\ SumFunctionOnSet(f, S) = f[t] + SumFunctionOnSet(f, R)
        /\ SumFunctionOnSet(g, S) = g[t] + SumFunctionOnSet(g, R)
    BY <1>5, <1>6
  <1>8. SumFunctionOnSet(g, R) = SumFunctionOnSet(f, R)
    BY <1>3, <1>4, SumOnAgree
  <1>9. SumFunctionOnSet(f, R) \in Nat
    BY <1>1, <1>2, LessSpent
  <1> QED BY <1>1, <1>4, <1>7, <1>8, <1>9 DEF SpentBetween

\* A window that opens at t after one that is over.
LEMMA WindowReopens ==
  ASSUME NEW f \in SpentByHeight, NEW s \in Nat, NEW l \in Nat, NEW k \in Nat, NEW t \in Nat,
         t <= MaxNow, t >= s + l, SpentSince(f, s, l, k)
  PROVE  /\ SpentSince(f, t, l, 0)
         /\ \A m \in Nat : SpentWithin(f, s, l, k, m) => SpentWithin(f, t, l, 0, m)
  <1>1. PICK end : end = LastHeights
    OBVIOUS
  <1>2. end \in Nat /\ t <= end
    BY <1>1, HeightsAreFinite
  <1>3. /\ SpentBetween(f, t, end) <= SpentBetween(f, s + l, end)
        /\ SpentBetween(f, t + l, end) <= SpentBetween(f, s + l, end)
        /\ SpentBetween(f, t - l, t) <= SpentBetween(f, s, end)
    BY <1>2, SpentNested
  <1>4. /\ SpentBetween(f, t, end) \in Nat /\ SpentBetween(f, t + l, end) \in Nat
        /\ SpentBetween(f, t - l, t) \in Nat /\ SpentBetween(f, s, end) \in Nat
    BY SpentIsNatural
  <1>5. SpentSince(f, t, l, 0)
    BY <1>1, <1>3, <1>4 DEF SpentSince
  <1>6. ASSUME NEW m \in Nat, SpentWithin(f, s, l, k, m)
        PROVE  SpentWithin(f, t, l, 0, m)
    BY <1>1, <1>3, <1>4, <1>6 DEF SpentSince, SpentWithin
  <1> QED BY <1>5, <1>6

\* A stretch with a spending in it lies within the window and the stretch before it.
LEMMA StretchWithSpending ==
  ASSUME NEW g \in SpentByHeight, NEW t \in Nat, t <= MaxNow, NEW s \in Nat, NEW l \in Nat,
         NEW k \in Nat, NEW m \in Nat, s <= t, k <= m, SpentSince(g, s, l, k),
         SpentBetween(g, s - l, s) <= m, NEW h \in Nat, h <= t, t < h + l
  PROVE  StretchWithinTwice(g, h, l, m)
  <1>1. PICK end : end = LastHeights
    OBVIOUS
  <1>2. PICK x, y, z, v : /\ x = SpentBetween(g, s - l, end) /\ y = SpentBetween(g, s - l, s)
                          /\ z = SpentBetween(g, s, end) /\ v = SpentBetween(g, h, h + l)
    OBVIOUS
  <1>3. x \in Nat /\ y \in Nat /\ z \in Nat /\ v \in Nat
    BY <1>2, SpentIsNatural
  <1>4. end \in Nat /\ end = MaxNow + 1
    BY <1>1, HeightsAreFinite
  <1>5. x <= y + z
    BY <1>2, <1>4, SpentJoined
  <1>6. v <= x
    <2>1. s - l <= h
      OBVIOUS
    <2>2. CASE h + l <= end
      BY <1>2, <1>4, <2>1, <2>2, SpentNested
    <2>3. CASE h + l > end
      <3>1. HeightsBetween(h, h + l) = HeightsBetween(h, end)
        BY <1>4, <2>3, HeightsTyped DEF HeightsBetween, HeightsTyped
      <3>2. SpentBetween(g, h, h + l) = SpentBetween(g, h, end)
        BY <3>1 DEF SpentBetween
      <3>3. SpentBetween(g, h, end) <= SpentBetween(g, s - l, end)
        BY <1>4, <2>1, SpentNested
      <3> QED BY <1>2, <3>2, <3>3
    <2> QED BY <1>4, <2>2, <2>3
  <1>7. k = z /\ y <= m
    BY <1>1, <1>2 DEF SpentSince
  <1> QED BY <1>2, <1>3, <1>5, <1>6, <1>7 DEF StretchWithinTwice

\* One more spending in a window.
LEMMA WindowSpends ==
  ASSUME NEW f, NEW g, NEW t \in Nat, t <= MaxNow, NEW n,
         SpentMoreAt(f, g, t, n), NEW s \in Nat, NEW l \in Nat, NEW k \in Nat,
         s <= t, t < s + l, SpentSince(f, s, l, k)
  PROVE  /\ SpentSince(g, s, l, k + n)
         /\ \A m \in Nat :
              SpentWithin(f, s, l, k, m) /\ k + n <= m => SpentWithin(g, s, l, k + n, m)
  <1>1. PICK end : end = LastHeights
    OBVIOUS
  <1>2. /\ end \in Nat /\ t < end /\ t \in 0 .. MaxNow /\ s + l \in Nat /\ s - l \in Int
        /\ f \in SpentByHeight /\ n \in Nat
    BY <1>1, HeightsAreFinite DEF SpentMoreAt
  <1>3. SpentBetween(g, s, end) = SpentBetween(f, s, end) + n
    BY <1>2, SpentThere
  <1>4. SpentBetween(g, s + l, end) = SpentBetween(f, s + l, end)
    BY <1>2, SpentElsewhere
  <1>5. SpentBetween(g, s - l, s) = SpentBetween(f, s - l, s)
    BY <1>2, SpentElsewhere
  <1>6. SpentBetween(f, s, end) \in Nat
    BY <1>2, SpentIsNatural
  <1>7. SpentSince(g, s, l, k + n)
    BY <1>1, <1>3, <1>4, <1>6 DEF SpentSince
  <1>8. g \in SpentByHeight
    BY DEF SpentMoreAt
  <1>9. ASSUME NEW m \in Nat, SpentWithin(f, s, l, k, m), k + n <= m
        PROVE  SpentWithin(g, s, l, k + n, m)
    <2>1. SpentBetween(g, s - l, s) <= m
      BY <1>5, <1>9 DEF SpentWithin
    <2>2. ASSUME NEW h \in 0 .. MaxNow
          PROVE  StretchWithinTwice(g, h, l, m)
      <3>1. h \in Nat /\ h + l \in Nat /\ k + n \in Nat
        BY <1>2
      <3>2. CASE h <= t /\ t < h + l
        BY <1>7, <1>8, <1>9, <2>1, <3>1, <3>2, StretchWithSpending
      <3>3. CASE ~(h <= t /\ t < h + l)
        <4>1. SpentBetween(g, h, h + l) = SpentBetween(f, h, h + l)
          BY <1>2, <3>1, <3>3, SpentElsewhere
        <4>2. StretchWithinTwice(f, h, l, m)
          BY <1>9 DEF SpentWithin
        <4> QED BY <4>1, <4>2 DEF StretchWithinTwice
      <3> QED BY <3>2, <3>3
    <2> QED BY <1>9, <2>1, <2>2 DEF SpentWithin
  <1> QED BY <1>7, <1>9

\* A higher limit is kept as well.
LEMMA LimitRaised ==
  ASSUME NEW f \in SpentByHeight, NEW s \in Nat, NEW l \in Nat, NEW k \in Nat, NEW m \in Nat,
         NEW r \in Nat, m <= r, SpentWithin(f, s, l, k, m)
  PROVE  SpentWithin(f, s, l, k, r)
  <1>1. SpentBetween(f, s - l, s) \in Nat /\ SpentBetween(f, s - l, s) <= m /\ k <= m
    BY SpentIsNatural DEF SpentWithin
  <1>2. ASSUME NEW h \in 0 .. MaxNow
        PROVE  StretchWithinTwice(f, h, l, r)
    <2>1. PICK v : v = SpentBetween(f, h, h + l)
      OBVIOUS
    <2>2. v \in Nat /\ v <= 2 * m
      BY <2>1, SpentIsNatural DEF SpentWithin, StretchWithinTwice
    <2> QED BY <2>1, <2>2 DEF StretchWithinTwice
  <1>3. k <= r /\ SpentBetween(f, s - l, s) <= r
    <2>1. PICK v : v = SpentBetween(f, s - l, s)
      OBVIOUS
    <2>2. v \in Nat /\ v <= m
      BY <1>1, <2>1
    <2> QED BY <1>1, <2>1, <2>2
  <1> QED BY <1>2, <1>3 DEF SpentWithin

\* The first window, before anything is spent.
LEMMA NothingSpentBetween ==
  ASSUME NEW a, NEW b
  PROVE  SpentBetween([h \in 0 .. MaxNow |-> 0], a, b) = 0
  <1>1. PICK f : f = [h \in 0 .. MaxNow |-> 0]
    OBVIOUS
  <1>2. f \in SpentByHeight /\ DOMAIN f = 0 .. MaxNow /\ \A h \in 0 .. MaxNow : f[h] = 0
    BY <1>1 DEF SpentByHeight
  <1>3. SumFunction(f) = 0
    BY <1>2, HeightsAreFinite, SumZero
  <1>4. SumFunctionOnSet(f, 0 .. MaxNow) = 0
    BY <1>2, <1>3 DEF SumFunction
  <1>5. HeightsBetween(a, b) \in SUBSET (0 .. MaxNow)
    BY DEF HeightsBetween
  <1>6. PICK x : x = SpentBetween(f, a, b)
    OBVIOUS
  <1>7. x \in Nat /\ x <= 0
    BY <1>2, <1>4, <1>5, <1>6, LessSpent DEF SpentBetween
  <1> QED BY <1>1, <1>6, <1>7

LEMMA FirstWindow ==
  ASSUME NEW s, NEW l, NEW m \in Nat
  PROVE  /\ SpentSince([h \in 0 .. MaxNow |-> 0], s, l, 0)
         /\ SpentWithin([h \in 0 .. MaxNow |-> 0], s, l, 0, m)
  <1>1. PICK f : f = [h \in 0 .. MaxNow |-> 0]
    OBVIOUS
  <1>2. \A a, b : SpentBetween(f, a, b) = 0
    BY <1>1, NothingSpentBetween
  <1>3. SpentSince(f, s, l, 0)
    BY <1>2 DEF SpentSince
  <1>4. \A h : StretchWithinTwice(f, h, l, m)
    BY <1>2 DEF StretchWithinTwice
  <1>5. SpentBetween(f, s - l, s) = 0
    BY <1>2
  <1>6. SpentWithin(f, s, l, 0, m)
    BY <1>4, <1>5 DEF SpentWithin
  <1> QED BY <1>1, <1>3, <1>6


\* A window of a wallet as it was, whatever else of the wallet changes.
LEMMA SameWindow ==
  ASSUME NEW f, NEW old \in AgentWallet, NEW new \in AgentWallet, NEW w \in Windows,
         NEW highest, WindowKept(f, old, w, highest), new.length[w] = old.length[w],
         new.start[w] = old.start[w], new.spent[w] = old.spent[w], new.limit = old.limit
  PROVE  WindowKept(f, new, w, highest)
  BY DEF WindowKept, Ends, Limited, HighestOf

\* A wallet is one of these, and so are its windows.
LEMMA WalletFields ==
  ASSUME NEW wallet \in AgentWallet
  PROVE  /\ wallet.balance \in Nat /\ wallet.totalSpent \in Nat
         /\ \A w \in Windows : /\ wallet.limit[w] \in Nat /\ wallet.length[w] \in Nat
                               /\ wallet.spent[w] \in Nat /\ wallet.start[w] \in Nat
  BY DEF AgentWallet

\* Opening windows anew that are over keeps what is known of them.
LEMMA ReopenedWallet ==
  ASSUME NEW wallet \in AgentWallet, NEW ws \in SUBSET Windows, now \in Nat
  PROVE  /\ Reopened(wallet, ws) \in AgentWallet
         /\ Reopened(wallet, ws).balance = wallet.balance
         /\ Reopened(wallet, ws).totalSpent = wallet.totalSpent
         /\ Reopened(wallet, ws).limit = wallet.limit
         /\ Reopened(wallet, ws).length = wallet.length
         /\ \A w \in Windows :
              \/ /\ w \in ws /\ IsOver(wallet, w)
                 /\ Reopened(wallet, ws).spent[w] = 0
                 /\ Reopened(wallet, ws).start[w] = now
              \/ /\ ~(w \in ws /\ IsOver(wallet, w))
                 /\ Reopened(wallet, ws).spent[w] = wallet.spent[w]
                 /\ Reopened(wallet, ws).start[w] = wallet.start[w]
  <1> DEFINE over == {w \in ws : IsOver(wallet, w)}
             spent == [w \in Windows |-> IF w \in over THEN 0 ELSE wallet.spent[w]]
             start == [w \in Windows |-> IF w \in over THEN now ELSE wallet.start[w]]
             r == Reopened(wallet, ws)
  <1>1. r = [wallet EXCEPT !.spent = spent, !.start = start]
    BY DEF Reopened
  <1>2. spent \in [Windows -> Nat] /\ start \in [Windows -> Nat]
    BY WalletFields
  <1>3. \A w \in Windows :
          \/ w \in over /\ spent[w] = 0 /\ start[w] = now
          \/ w \notin over /\ spent[w] = wallet.spent[w] /\ start[w] = wallet.start[w]
    OBVIOUS
  <1> HIDE DEF spent, start, r
  <1>4. /\ r \in AgentWallet /\ r.balance = wallet.balance /\ r.totalSpent = wallet.totalSpent
        /\ r.limit = wallet.limit /\ r.length = wallet.length
        /\ r.spent = spent /\ r.start = start
    BY <1>1, <1>2 DEF AgentWallet
  <1>5. \A w : w \in over <=> w \in ws /\ IsOver(wallet, w)
    OBVIOUS
  <1> HIDE DEF over
  <1> QED BY <1>3, <1>4, <1>5 DEF r

\* The end of a window that ends at a height is not wrapped.
LEMMA OverAtItsEnd ==
  ASSUME NEW wallet \in AgentWallet, NEW w \in Windows, Ends(wallet, w)
  PROVE  IsOver(wallet, w) <=> now >= wallet.start[w] + wallet.length[w]
  <1>1. PICK end : end = wallet.start[w] + wallet.length[w]
    OBVIOUS
  <1>2. end \in Nat /\ end < HeightModulus
    BY <1>1, WalletFields DEF Ends
  <1>3. end % HeightModulus = end
    BY <1>2, HeightsTyped, ModSmall DEF HeightsTyped
  <1> QED BY <1>1, <1>3 DEF IsOver

LEMMA ReopenedKept ==
  ASSUME NEW f \in SpentByHeight, NEW wallet \in AgentWallet, NEW ws \in SUBSET Windows,
         NEW highest \in Nat, now \in 0 .. MaxNow,
         \A w \in Windows : WindowKept(f, wallet, w, highest) /\ wallet.start[w] <= now
  PROVE  \A w \in Windows : /\ WindowKept(f, Reopened(wallet, ws), w, highest)
                            /\ Reopened(wallet, ws).start[w] <= now
                            /\ w \in ws /\ Ends(Reopened(wallet, ws), w) =>
                                 now < Reopened(wallet, ws).start[w] + wallet.length[w]
  <1>1. PICK r : r = Reopened(wallet, ws)
    OBVIOUS
  <1>2. now \in Nat /\ now <= MaxNow
    BY HeightsAreFinite
  <1>3. r \in AgentWallet /\ r.limit = wallet.limit /\ r.length = wallet.length
    BY <1>1, <1>2, ReopenedWallet
  <1>4. ASSUME NEW w \in Windows
        PROVE  /\ WindowKept(f, r, w, highest) /\ r.start[w] <= now
               /\ w \in ws /\ Ends(r, w) => now < r.start[w] + wallet.length[w]
    <2>1. PICK s, l, k, m : /\ s = wallet.start[w] /\ l = wallet.length[w]
                            /\ k = wallet.spent[w] /\ m = HighestOf(wallet, w, highest)
      OBVIOUS
    <2>2. s \in Nat /\ l \in Nat /\ k \in Nat /\ m \in Nat /\ s <= now
      BY <2>1, WalletFields DEF HighestOf
    <2>3. CASE w \in ws /\ IsOver(wallet, w) /\ r.spent[w] = 0 /\ r.start[w] = now
      <3>0. ASSUME Ends(r, w)
            PROVE  Ends(wallet, w) /\ now >= s + l /\ SpentSince(f, s, l, k)
        <4>1. l > 0 /\ now + l < HeightModulus
          BY <1>3, <2>1, <2>3, <3>0 DEF Ends
        <4>2. s + l < HeightModulus
          BY <1>2, <2>2, <4>1, HeightsTyped DEF HeightsTyped
        <4>3. Ends(wallet, w)
          BY <2>1, <4>1, <4>2 DEF Ends
        <4>4. now >= s + l
          BY <2>1, <2>3, <4>3, OverAtItsEnd
        <4>5. SpentSince(f, s, l, k)
          BY <2>1, <4>3 DEF WindowKept
        <4> QED BY <4>3, <4>4, <4>5
      <3>1. Ends(r, w) => SpentSince(f, now, l, 0)
        BY <1>2, <2>2, <3>0, WindowReopens
      <3>2. ASSUME Ends(r, w), Limited(wallet, w)
            PROVE  SpentWithin(f, now, l, 0, m)
        <4>1. SpentWithin(f, s, l, k, m)
          BY <2>1, <3>0, <3>2 DEF WindowKept
        <4>2. \A x \in Nat : SpentWithin(f, s, l, k, x) => SpentWithin(f, now, l, 0, x)
          BY <1>2, <2>2, <3>0, <3>2, WindowReopens
        <4> QED BY <2>2, <4>1, <4>2
      <3>3. WindowKept(f, r, w, highest)
        BY <1>3, <2>1, <2>3, <3>1, <3>2 DEF WindowKept, Limited, HighestOf
      <3>4. Ends(r, w) => now < r.start[w] + l
        BY <1>2, <1>3, <2>1, <2>2, <2>3 DEF Ends
      <3> QED BY <1>2, <2>1, <2>3, <3>3, <3>4
    <2>4. CASE /\ ~(w \in ws /\ IsOver(wallet, w))
               /\ r.spent[w] = wallet.spent[w] /\ r.start[w] = wallet.start[w]
      <3>1. WindowKept(f, r, w, highest)
        BY <1>3, <2>4, SameWindow
      <3>2. Ends(r, w) => Ends(wallet, w)
        BY <1>3, <2>4 DEF Ends
      <3>3. w \in ws /\ Ends(r, w) => now < s + l
        BY <1>2, <2>1, <2>2, <2>4, <3>2, OverAtItsEnd
      <3> QED BY <2>1, <2>2, <2>4, <3>1, <3>3
    <2> QED BY <1>1, <1>2, <2>1, <2>3, <2>4, ReopenedWallet
  <1> QED BY <1>1, <1>4

\* A spending that the limits allow keeps them.
LEMMA SpendingKept ==
  ASSUME NEW f, NEW g, NEW n, SpentMoreAt(f, g, now, n), now \in 0 .. MaxNow,
         NEW old \in AgentWallet, NEW new \in AgentWallet, NEW highest \in Nat,
         old.limit["period"] <= highest, WithinLimits(old, n),
         new.limit = old.limit, new.length = old.length, new.start = old.start,
         NEW w \in Windows, WindowKept(f, old, w, highest), old.start[w] <= now,
         Ends(old, w) => now < old.start[w] + old.length[w],
         new.spent[w] = old.spent[w] + n
  PROVE  WindowKept(g, new, w, highest)
  <1>1. PICK s, l, k, m : /\ s = old.start[w] /\ l = old.length[w] /\ k = old.spent[w]
                          /\ m = HighestOf(old, w, highest)
    OBVIOUS
  <1>2. s \in Nat /\ l \in Nat /\ k \in Nat /\ m \in Nat /\ now \in Nat /\ now <= MaxNow
    BY <1>1, WalletFields, HeightsAreFinite DEF HighestOf
  <1>3. SUFFICES ASSUME Ends(old, w)
                 PROVE  /\ SpentSince(g, s, l, k + n)
                        /\ Limited(old, w) => SpentWithin(g, s, l, k + n, m)
    BY <1>1 DEF WindowKept, Ends, Limited, HighestOf
  <1>4. SpentSince(f, s, l, k) /\ (Limited(old, w) => SpentWithin(f, s, l, k, m))
    BY <1>1, <1>3 DEF WindowKept
  <1>5. /\ SpentSince(g, s, l, k + n)
        /\ SpentWithin(f, s, l, k, m) /\ k + n <= m => SpentWithin(g, s, l, k + n, m)
    BY <1>1, <1>2, <1>3, <1>4, WindowSpends
  <1>6. Limited(old, w) => k + n <= m
    <2>1. Limited(old, w) => k + n <= old.limit[w]
      BY <1>1 DEF WithinLimits, Limited
    <2>2. old.limit[w] <= m /\ old.limit[w] \in Nat
      BY <1>1, WalletFields DEF HighestOf
    <2>3. n \in Nat
      BY DEF SpentMoreAt
    <2> QED BY <1>2, <2>1, <2>2, <2>3
  <1> QED BY <1>4, <1>5, <1>6


\* One wallet changes, and the others stay.
LEMMA OneWalletMoves ==
  ASSUME WalletsInv, WalletsBegun, NEW a \in Agent, NEW new \in AgentWallet,
         NEW f \in SpentByHeight, NEW putIn \in Nat, NEW paid \in Nat, NEW highest \in Nat,
         agentWallets' = [agentWallets EXCEPT ![a] = new],
         spentAt' = [spentAt EXCEPT ![a] = f],
         walletDeposits' = [walletDeposits EXCEPT ![a] = putIn],
         paidBack' = [paidBack EXCEPT ![a] = paid],
         highestLimit' = [highestLimit EXCEPT ![a] = highest],
         WalletKept(f, new, putIn, paid, highest), \A w \in Windows : new.start[w] <= now,
         now' = now
  PROVE  WalletsInv' /\ WalletsBegun'
  <1>1. /\ agentWallets \in [Agent -> AgentWallet \cup {NoWallet}]
        /\ spentAt \in [Agent -> SpentByHeight] /\ walletDeposits \in [Agent -> Nat]
        /\ paidBack \in [Agent -> Nat] /\ highestLimit \in [Agent -> Nat]
    BY DEF WalletsInv, WalletsTypeOK, SpentByHeight
  <1>2. /\ agentWallets' \in [Agent -> AgentWallet \cup {NoWallet}]
        /\ spentAt' \in [Agent -> SpentByHeight] /\ walletDeposits' \in [Agent -> Nat]
        /\ paidBack' \in [Agent -> Nat] /\ highestLimit' \in [Agent -> Nat]
    BY <1>1
  <1>3. WalletsTypeOK'
    BY <1>2 DEF WalletsTypeOK, SpentByHeight
  <1>4. ASSUME NEW b \in Agent
        PROVE  /\ WalletKept(spentAt'[b], agentWallets'[b], walletDeposits'[b], paidBack'[b],
                             highestLimit'[b])
               /\ agentWallets'[b] # NoWallet =>
                    \A w \in Windows : agentWallets'[b].start[w] <= now
    <2>1. CASE b = a
      BY <1>1, <2>1
    <2>2. CASE b # a
      <3>1. /\ spentAt'[b] = spentAt[b] /\ agentWallets'[b] = agentWallets[b]
            /\ walletDeposits'[b] = walletDeposits[b] /\ paidBack'[b] = paidBack[b]
            /\ highestLimit'[b] = highestLimit[b]
        BY <1>1, <2>2
      <3>2. WalletKept(spentAt[b], agentWallets[b], walletDeposits[b], paidBack[b],
                       highestLimit[b])
        BY DEF WalletsInv
      <3>3. agentWallets[b] # NoWallet => \A w \in Windows : agentWallets[b].start[w] <= now
        BY DEF WalletsBegun, HasWallet
      <3> QED BY <3>1, <3>2, <3>3
    <2> QED BY <2>1, <2>2
  <1>5. WalletsInv'
    BY <1>3, <1>4 DEF WalletsInv
  <1>6. WalletsBegun'
    BY <1>4 DEF WalletsBegun, HasWallet
  <1> QED BY <1>5, <1>6

\* What is known of a wallet that there is, and of the history beside it.
LEMMA WalletKnown ==
  ASSUME WalletsInv, WalletsBegun, NEW a \in Agent, HasWallet(a)
  PROVE  /\ agentWallets[a] \in AgentWallet /\ spentAt[a] \in SpentByHeight
         /\ walletDeposits[a] \in Nat /\ paidBack[a] \in Nat /\ highestLimit[a] \in Nat
         /\ walletDeposits[a] = agentWallets[a].balance + agentWallets[a].totalSpent
                                  + paidBack[a]
         /\ agentWallets[a].limit["period"] <= highestLimit[a]
         /\ \A w \in Windows : /\ WindowKept(spentAt[a], agentWallets[a], w, highestLimit[a])
                               /\ agentWallets[a].start[w] <= now
  <1>1. /\ agentWallets[a] \in AgentWallet /\ spentAt[a] \in SpentByHeight
        /\ walletDeposits[a] \in Nat /\ paidBack[a] \in Nat /\ highestLimit[a] \in Nat
    BY DEF WalletsInv, WalletsTypeOK, SpentByHeight, HasWallet
  <1>2. WalletKept(spentAt[a], agentWallets[a], walletDeposits[a], paidBack[a], highestLimit[a])
    BY DEF WalletsInv
  <1>3. \A w \in Windows : agentWallets[a].start[w] <= now
    BY DEF WalletsBegun
  <1> QED BY <1>1, <1>2, <1>3 DEF WalletKept, HasWallet

\* The histories stay as they are.
LEMMA HistoryStays ==
  ASSUME WalletsInv, NEW a \in Agent
  PROVE  /\ UNCHANGED spentAt => spentAt' = [spentAt EXCEPT ![a] = spentAt[a]]
         /\ UNCHANGED walletDeposits =>
              walletDeposits' = [walletDeposits EXCEPT ![a] = walletDeposits[a]]
         /\ UNCHANGED paidBack => paidBack' = [paidBack EXCEPT ![a] = paidBack[a]]
         /\ UNCHANGED highestLimit =>
              highestLimit' = [highestLimit EXCEPT ![a] = highestLimit[a]]
  <1>1. /\ spentAt \in [Agent -> SpentByHeight] /\ walletDeposits \in [Agent -> Nat]
        /\ paidBack \in [Agent -> Nat] /\ highestLimit \in [Agent -> Nat]
    BY DEF WalletsInv, WalletsTypeOK, SpentByHeight
  <1> QED BY <1>1

\* A change of a wallet besides its windows and what it owns.
LEMMA WalletAltered ==
  ASSUME WalletsInv, WalletsBegun, NEW a \in Agent, HasWallet(a), NEW new \in AgentWallet,
         agentWallets' = [agentWallets EXCEPT ![a] = new], UNCHANGED walletHistory,
         new.balance = agentWallets[a].balance, new.totalSpent = agentWallets[a].totalSpent,
         new.limit = agentWallets[a].limit, now' = now,
         \A w \in Windows : WindowKept(spentAt[a], new, w, highestLimit[a])
                              /\ new.start[w] <= now
  PROVE  WalletsInv' /\ WalletsBegun'
  <1>1. WalletKept(spentAt[a], new, walletDeposits[a], paidBack[a], highestLimit[a])
    BY WalletKnown, WalletsTyped DEF WalletKept, WalletsTyped
  <1>2. /\ spentAt' = [spentAt EXCEPT ![a] = spentAt[a]]
        /\ walletDeposits' = [walletDeposits EXCEPT ![a] = walletDeposits[a]]
        /\ paidBack' = [paidBack EXCEPT ![a] = paidBack[a]]
        /\ highestLimit' = [highestLimit EXCEPT ![a] = highestLimit[a]]
    BY HistoryStays DEF walletHistory
  <1>3. /\ spentAt[a] \in SpentByHeight
        /\ walletDeposits[a] \in Nat /\ paidBack[a] \in Nat /\ highestLimit[a] \in Nat
    BY WalletKnown
  <1> QED BY <1>1, <1>2, <1>3, OneWalletMoves


LEMMA CreateKeepsWallets ==
  ASSUME WalletsInv, WalletsBegun, now \in 0 .. MaxNow, now' = now, NEW a \in Agent,
         NEW terms \in WalletTerms, CreateWallet(a, terms)
  PROVE  WalletsInv' /\ WalletsBegun'
  <1> DEFINE limit == [w \in Windows |-> CASE w = "period" -> terms.limit
                                           [] w = "day" -> terms.daily
                                           [] w = "month" -> terms.monthly]
             length == [w \in Windows |-> CASE w = "period" -> terms.length
                                            [] w = "day" -> DailyBlocks
                                            [] w = "month" -> MonthlyBlocks]
             zero == [w \in Windows |-> 0]
             start == [w \in Windows |-> now]
             new == [owner |-> terms.owner, balance |-> 0, status |-> "Active",
                     limit |-> limit, length |-> length, spent |-> zero, start |-> start,
                     totalSpent |-> 0, allowed |-> AllSubnets]
             none == [h \in 0 .. MaxNow |-> 0]
  <1>1. /\ terms.owner \in WalletOwner /\ terms.limit \in Nat /\ terms.length \in Nat
        /\ terms.daily \in Nat /\ terms.monthly \in Nat
        /\ DailyBlocks \in Nat /\ MonthlyBlocks \in Nat /\ now \in Nat
        /\ NoWallet \notin AgentWallet
    BY WalletsTyped, HeightsTyped DEF WalletsTyped, HeightsTyped
  <1>2. /\ limit \in [Windows -> Nat] /\ length \in [Windows -> Nat]
        /\ zero \in [Windows -> Nat] /\ start \in [Windows -> Nat]
        /\ limit["period"] = terms.limit
        /\ \A w \in Windows : zero[w] = 0 /\ start[w] = now
    BY <1>1 DEF Windows
  <1>3. /\ agentWallets' = [agentWallets EXCEPT ![a] = new]
        /\ highestLimit' = [highestLimit EXCEPT ![a] = terms.limit]
        /\ UNCHANGED <<walletDeposits, paidBack, spentAt>>
        /\ agentWallets[a] = NoWallet
    BY DEF CreateWallet, HasWallet
  <1> HIDE DEF limit, length, zero, start
  <1>4. /\ new \in AgentWallet /\ new.balance = 0 /\ new.totalSpent = 0 /\ new.limit = limit
        /\ new.length = length /\ new.spent = zero /\ new.start = start
    BY <1>1, <1>2 DEF AgentWallet
  <1> HIDE DEF new
  <1>5. /\ spentAt[a] = none /\ walletDeposits[a] = 0 /\ paidBack[a] = 0
    BY <1>3 DEF WalletsInv, WalletKept
  <1>6. none \in SpentByHeight
    BY DEF SpentByHeight
  <1>7. ASSUME NEW w \in Windows
        PROVE  WindowKept(none, new, w, terms.limit) /\ new.start[w] <= now
    <2>1. HighestOf(new, w, terms.limit) \in Nat
      BY <1>1, <1>2, <1>4 DEF HighestOf
    <2>2. /\ SpentSince(none, now, length[w], 0)
          /\ SpentWithin(none, now, length[w], 0, HighestOf(new, w, terms.limit))
      BY <2>1, FirstWindow
    <2> HIDE DEF none
    <2> QED BY <1>1, <1>2, <1>4, <2>2 DEF WindowKept
  <1>8. WalletKept(none, new, 0, 0, terms.limit)
    <2>1. new.limit["period"] <= terms.limit
      BY <1>1, <1>2, <1>4
    <2> HIDE DEF none
    <2> QED BY <1>1, <1>4, <1>7, <2>1 DEF WalletKept
  <1>9. /\ spentAt' = [spentAt EXCEPT ![a] = none]
        /\ walletDeposits' = [walletDeposits EXCEPT ![a] = 0]
        /\ paidBack' = [paidBack EXCEPT ![a] = 0]
    <2> HIDE DEF none
    <2> QED BY <1>3, <1>5, HistoryStays
  <1> HIDE DEF none
  <1>10. \A w \in Windows : new.start[w] <= now
    BY <1>7
  <1>11. 0 \in Nat /\ terms.limit \in Nat
    BY <1>1
  <1>12. PICK f, d, p, m : f = none /\ d = 0 /\ p = 0 /\ m = terms.limit
    OBVIOUS
  <1>13. /\ f \in SpentByHeight /\ d \in Nat /\ p \in Nat /\ m \in Nat
         /\ WalletKept(f, new, d, p, m)
         /\ agentWallets' = [agentWallets EXCEPT ![a] = new]
         /\ spentAt' = [spentAt EXCEPT ![a] = f]
         /\ walletDeposits' = [walletDeposits EXCEPT ![a] = d]
         /\ paidBack' = [paidBack EXCEPT ![a] = p]
         /\ highestLimit' = [highestLimit EXCEPT ![a] = m]
    BY <1>3, <1>6, <1>8, <1>9, <1>11, <1>12
  <1> QED BY <1>4, <1>10, <1>13, OneWalletMoves

LEMMA DepositKeepsWallets ==
  ASSUME WalletsInv, WalletsBegun, now' = now, NEW a \in Agent, NEW n \in WalletAmounts,
         DepositToWallet(a, n)
  PROVE  WalletsInv' /\ WalletsBegun'
  <1> DEFINE old == agentWallets[a]
             new == [old EXCEPT !.balance = @ + n]
             putIn == walletDeposits[a] + n
  <1>1. n \in Nat /\ NoWallet \notin AgentWallet
    BY WalletsTyped DEF WalletsTyped
  <1>2. HasWallet(a) /\ UNCHANGED <<paidBack, spentAt, highestLimit>>
    BY DEF DepositToWallet
  <1>3. /\ agentWallets' = [agentWallets EXCEPT ![a] = new]
        /\ walletDeposits' = [walletDeposits EXCEPT ![a] = putIn]
    BY DEF DepositToWallet
  <1>4. /\ old \in AgentWallet /\ spentAt[a] \in SpentByHeight
        /\ walletDeposits[a] \in Nat /\ paidBack[a] \in Nat /\ highestLimit[a] \in Nat
        /\ walletDeposits[a] = old.balance + old.totalSpent + paidBack[a]
        /\ old.limit["period"] <= highestLimit[a]
        /\ \A w \in Windows : WindowKept(spentAt[a], old, w, highestLimit[a])
                                /\ old.start[w] <= now
    BY <1>2, WalletKnown
  <1>5. old.balance \in Nat /\ old.totalSpent \in Nat
    BY <1>4, WalletFields
  <1> HIDE DEF old
  <1>6. /\ new \in AgentWallet /\ new.balance = old.balance + n
        /\ new.totalSpent = old.totalSpent /\ new.limit = old.limit
        /\ new.length = old.length /\ new.start = old.start /\ new.spent = old.spent
    BY <1>1, <1>4, <1>5 DEF AgentWallet
  <1> HIDE DEF new
  <1>7. \A w \in Windows : WindowKept(spentAt[a], new, w, highestLimit[a])
                             /\ new.start[w] <= now
    BY <1>4, <1>6, SameWindow
  <1>8. putIn \in Nat /\ putIn = new.balance + new.totalSpent + paidBack[a]
    BY <1>1, <1>4, <1>5, <1>6
  <1> HIDE DEF putIn
  <1>9. WalletKept(spentAt[a], new, putIn, paidBack[a], highestLimit[a])
    BY <1>1, <1>4, <1>6, <1>7, <1>8 DEF WalletKept
  <1>10. /\ spentAt' = [spentAt EXCEPT ![a] = spentAt[a]]
         /\ paidBack' = [paidBack EXCEPT ![a] = paidBack[a]]
         /\ highestLimit' = [highestLimit EXCEPT ![a] = highestLimit[a]]
    BY <1>2, HistoryStays
  <1> QED BY <1>3, <1>4, <1>6, <1>7, <1>8, <1>9, <1>10, OneWalletMoves

LEMMA CloseKeepsWallets ==
  ASSUME WalletsInv, WalletsBegun, now' = now, NEW a \in Agent, NEW owner,
         CloseWallet(a, owner)
  PROVE  WalletsInv' /\ WalletsBegun'
  <1> DEFINE old == agentWallets[a]
             new == [old EXCEPT !.balance = 0, !.status = "Closed"]
             paid == paidBack[a] + old.balance
  <1>1. NoWallet \notin AgentWallet
    BY WalletsTyped DEF WalletsTyped
  <1>2. HasWallet(a) /\ UNCHANGED <<walletDeposits, spentAt, highestLimit>>
    BY DEF CloseWallet, OwnersWallet
  <1>3. /\ agentWallets' = [agentWallets EXCEPT ![a] = new]
        /\ paidBack' = [paidBack EXCEPT ![a] = paid]
    BY DEF CloseWallet, WalletsInv, WalletsTypeOK
  <1>4. /\ old \in AgentWallet /\ spentAt[a] \in SpentByHeight
        /\ walletDeposits[a] \in Nat /\ paidBack[a] \in Nat /\ highestLimit[a] \in Nat
        /\ walletDeposits[a] = old.balance + old.totalSpent + paidBack[a]
        /\ old.limit["period"] <= highestLimit[a]
        /\ \A w \in Windows : WindowKept(spentAt[a], old, w, highestLimit[a])
                                /\ old.start[w] <= now
    BY <1>2, WalletKnown
  <1>5. old.balance \in Nat /\ old.totalSpent \in Nat
    BY <1>4, WalletFields
  <1> HIDE DEF old
  <1>6. /\ new \in AgentWallet /\ new.balance = 0
        /\ new.totalSpent = old.totalSpent /\ new.limit = old.limit
        /\ new.length = old.length /\ new.start = old.start /\ new.spent = old.spent
    BY <1>4, <1>5 DEF AgentWallet
  <1> HIDE DEF new
  <1>7. \A w \in Windows : WindowKept(spentAt[a], new, w, highestLimit[a])
                             /\ new.start[w] <= now
    BY <1>4, <1>6, SameWindow
  <1>8. paid \in Nat /\ walletDeposits[a] = new.balance + new.totalSpent + paid
    BY <1>4, <1>5, <1>6
  <1> HIDE DEF paid
  <1>9. WalletKept(spentAt[a], new, walletDeposits[a], paid, highestLimit[a])
    BY <1>1, <1>4, <1>6, <1>7, <1>8 DEF WalletKept
  <1>10. /\ spentAt' = [spentAt EXCEPT ![a] = spentAt[a]]
         /\ walletDeposits' = [walletDeposits EXCEPT ![a] = walletDeposits[a]]
         /\ highestLimit' = [highestLimit EXCEPT ![a] = highestLimit[a]]
    BY <1>2, HistoryStays
  <1> QED BY <1>3, <1>4, <1>6, <1>7, <1>8, <1>9, <1>10, OneWalletMoves

\* The highest limit is the one from then on, or one before.
LEMMA LimitKeepsWallets ==
  ASSUME WalletsInv, WalletsBegun, now' = now, NEW a \in Agent, NEW owner,
         NEW limit \in SpendingLimits, SetSpendingLimit(a, limit, owner)
  PROVE  WalletsInv' /\ WalletsBegun'
  <1> DEFINE old == agentWallets[a]
             limits == [old.limit EXCEPT !["period"] = limit]
             new == [old EXCEPT !.limit = limits]
             before == highestLimit[a]
             highest == IF limit > before THEN limit ELSE before
  <1>1. limit \in Nat /\ NoWallet \notin AgentWallet
    BY WalletsTyped DEF WalletsTyped
  <1>2. HasWallet(a) /\ UNCHANGED <<walletDeposits, paidBack, spentAt>>
    BY DEF SetSpendingLimit, OwnersWallet
  <1>3. /\ agentWallets' = [agentWallets EXCEPT ![a] = new]
        /\ highestLimit' = [highestLimit EXCEPT ![a] = highest]
    <2>1. /\ agentWallets' = [agentWallets EXCEPT ![a].limit["period"] = limit]
          /\ highestLimit' = [highestLimit EXCEPT ![a] = IF limit > @ THEN limit ELSE @]
          /\ agentWallets[a] \in AgentWallet
      BY <1>2, WalletKnown DEF SetSpendingLimit
    <2>2. "limit" \in DOMAIN agentWallets[a]
      BY <2>1 DEF AgentWallet
    <2> QED BY <2>1, <2>2 DEF WalletsInv, WalletsTypeOK
  <1>4. /\ old \in AgentWallet /\ spentAt[a] \in SpentByHeight
        /\ walletDeposits[a] \in Nat /\ paidBack[a] \in Nat /\ before \in Nat
        /\ walletDeposits[a] = old.balance + old.totalSpent + paidBack[a]
        /\ old.limit["period"] <= before
        /\ \A w \in Windows : WindowKept(spentAt[a], old, w, before)
                                /\ old.start[w] <= now
    BY <1>2, WalletKnown
  <1>5. /\ old.limit \in [Windows -> Nat]
        /\ \A w \in Windows : /\ old.length[w] \in Nat /\ old.start[w] \in Nat
                              /\ old.spent[w] \in Nat
    BY <1>4, WalletFields DEF AgentWallet
  <1> HIDE DEF old, before
  <1>6. /\ limits \in [Windows -> Nat] /\ limits["period"] = limit
        /\ \A w \in Windows : w # "period" => limits[w] = old.limit[w]
    BY <1>1, <1>5 DEF Windows
  <1> HIDE DEF limits
  <1>7. /\ new \in AgentWallet /\ new.balance = old.balance
        /\ new.totalSpent = old.totalSpent /\ new.limit = limits
        /\ new.length = old.length /\ new.start = old.start /\ new.spent = old.spent
    BY <1>4, <1>6 DEF AgentWallet
  <1> HIDE DEF new
  <1>8. highest \in Nat /\ before <= highest /\ limit <= highest
    BY <1>1, <1>4
  <1> HIDE DEF highest
  <1>9. ASSUME NEW w \in Windows
        PROVE  WindowKept(spentAt[a], new, w, highest) /\ new.start[w] <= now
    <2>1. WindowKept(spentAt[a], old, w, before)
      BY <1>4
    <2>2. CASE w = "period"
      <3>1. Limited(old, w) /\ HighestOf(old, w, before) = before
              /\ HighestOf(new, w, highest) = highest
        BY <2>2 DEF Limited, HighestOf
      <3>2. /\ new.length[w] \in Nat /\ new.start[w] \in Nat /\ new.spent[w] \in Nat
        BY <1>5, <1>7
      <3>3. Ends(old, w) =>
              /\ SpentSince(spentAt[a], new.start[w], new.length[w], new.spent[w])
              /\ SpentWithin(spentAt[a], new.start[w], new.length[w], new.spent[w], before)
        BY <1>7, <2>1, <3>1 DEF WindowKept
      <3>4. Ends(old, w) =>
              SpentWithin(spentAt[a], new.start[w], new.length[w], new.spent[w], highest)
        BY <1>4, <1>8, <3>2, <3>3, LimitRaised
      <3> QED BY <1>4, <1>7, <3>1, <3>3, <3>4 DEF WindowKept, Ends
    <2>3. CASE w # "period"
      <3>1. new.limit[w] = old.limit[w]
        BY <1>6, <1>7, <2>3
      <3> QED BY <1>4, <1>7, <2>1, <2>3, <3>1 DEF WindowKept, Ends, Limited, HighestOf
    <2> QED BY <2>2, <2>3
  <1>10. WalletKept(spentAt[a], new, walletDeposits[a], paidBack[a], highest)
    <2>1. new.limit["period"] <= highest
      BY <1>6, <1>7, <1>8
    <2> QED BY <1>1, <1>4, <1>7, <1>9, <2>1 DEF WalletKept
  <1>11. /\ spentAt' = [spentAt EXCEPT ![a] = spentAt[a]]
         /\ walletDeposits' = [walletDeposits EXCEPT ![a] = walletDeposits[a]]
         /\ paidBack' = [paidBack EXCEPT ![a] = paidBack[a]]
    BY <1>2, HistoryStays
  <1>12. /\ spentAt[a] \in SpentByHeight /\ walletDeposits[a] \in Nat /\ paidBack[a] \in Nat
         /\ new \in AgentWallet /\ highest \in Nat
         /\ \A w \in Windows : new.start[w] <= now
    BY <1>4, <1>7, <1>8, <1>9
  <1> QED BY <1>3, <1>10, <1>11, <1>12, OneWalletMoves


\* A spending, whether it goes through or not.
LEMMA SpendKeepsWallets ==
  ASSUME WalletsInv, WalletsBegun, now \in 0 .. MaxNow, now' = now, NEW a \in Agent,
         NEW n \in WalletAmounts, NEW subnet, SpendFromWallet(a, n, subnet)
  PROVE  WalletsInv' /\ WalletsBegun'
  <1> DEFINE old == agentWallets[a]
             wallet == Reopened(old, Windows)
             f == spentAt[a]
             highest == highestLimit[a]
  <1>1. n \in Nat /\ NoWallet \notin AgentWallet /\ now \in Nat /\ Windows \in SUBSET Windows
    BY WalletsTyped, HeightsTyped DEF WalletsTyped, HeightsTyped
  <1>2. HasWallet(a) /\ UNCHANGED <<walletDeposits, paidBack, highestLimit>>
    BY DEF SpendFromWallet
  <1>3. \/ /\ WithinLimits(wallet, n) /\ wallet.balance >= n
           /\ agentWallets' = [agentWallets EXCEPT ![a] =
                [wallet EXCEPT !.balance = @ - n, !.totalSpent = @ + n,
                               !.spent = [w \in Windows |-> @[w] + n]]]
           /\ spentAt' = [spentAt EXCEPT ![a][now] = @ + n]
        \/ /\ agentWallets' = [agentWallets EXCEPT ![a] = wallet]
           /\ UNCHANGED spentAt
    BY DEF SpendFromWallet
  <1>4. /\ old \in AgentWallet /\ f \in SpentByHeight
        /\ walletDeposits[a] \in Nat /\ paidBack[a] \in Nat /\ highest \in Nat
        /\ walletDeposits[a] = old.balance + old.totalSpent + paidBack[a]
        /\ old.limit["period"] <= highest
        /\ \A w \in Windows : WindowKept(f, old, w, highest) /\ old.start[w] <= now
    BY <1>2, WalletKnown
  <1> HIDE DEF old
  <1>5. /\ wallet \in AgentWallet /\ wallet.balance = old.balance
        /\ wallet.totalSpent = old.totalSpent /\ wallet.limit = old.limit
        /\ wallet.length = old.length
    BY <1>1, <1>4, ReopenedWallet
  <1>6. \A w \in Windows : /\ WindowKept(f, wallet, w, highest) /\ wallet.start[w] <= now
                           /\ Ends(wallet, w) => now < wallet.start[w] + old.length[w]
    <2> HIDE DEF f, highest
    <2> QED BY <1>1, <1>4, ReopenedKept
  <1> HIDE DEF wallet
  <1>7. CASE /\ agentWallets' = [agentWallets EXCEPT ![a] = wallet]
             /\ UNCHANGED spentAt
    <2>1. UNCHANGED walletHistory
      BY <1>2, <1>7 DEF walletHistory
    <2> QED BY <1>2, <1>5, <1>6, <1>7, <2>1, WalletAltered DEF old
  <1>8. CASE /\ WithinLimits(wallet, n) /\ wallet.balance >= n
             /\ agentWallets' = [agentWallets EXCEPT ![a] =
                  [wallet EXCEPT !.balance = @ - n, !.totalSpent = @ + n,
                                 !.spent = [w \in Windows |-> @[w] + n]]]
             /\ spentAt' = [spentAt EXCEPT ![a][now] = @ + n]
    <2> DEFINE spent == [w \in Windows |-> wallet.spent[w] + n]
               new == [wallet EXCEPT !.balance = wallet.balance - n,
                                     !.totalSpent = wallet.totalSpent + n, !.spent = spent]
               g == [f EXCEPT ![now] = @ + n]
    <2>1. /\ wallet.balance \in Nat /\ wallet.totalSpent \in Nat
          /\ \A w \in Windows : wallet.spent[w] \in Nat
      BY <1>5, WalletFields
    <2>2. spent \in [Windows -> Nat] /\ \A w \in Windows : spent[w] = wallet.spent[w] + n
      BY <1>1, <2>1
    <2>3. agentWallets' = [agentWallets EXCEPT ![a] = new]
      BY <1>5, <1>8 DEF AgentWallet
    <2> HIDE DEF spent
    <2>4. /\ new \in AgentWallet /\ new.balance = wallet.balance - n
          /\ new.totalSpent = wallet.totalSpent + n /\ new.limit = wallet.limit
          /\ new.length = wallet.length /\ new.start = wallet.start /\ new.spent = spent
      <3>1. PICK b, t : b = wallet.balance - n /\ t = wallet.totalSpent + n
        OBVIOUS
      <3>2. b \in Nat /\ t \in Nat
        BY <1>1, <1>8, <2>1, <3>1
      <3>3. new = [wallet EXCEPT !.balance = b, !.totalSpent = t, !.spent = spent]
        BY <3>1
      <3> HIDE DEF new
      <3>4. /\ new \in AgentWallet /\ new.balance = b /\ new.totalSpent = t
            /\ new.limit = wallet.limit /\ new.length = wallet.length
            /\ new.start = wallet.start /\ new.spent = spent
        BY <1>5, <2>2, <3>2, <3>3 DEF AgentWallet
      <3> QED BY <3>1, <3>4
    <2> HIDE DEF new
    <2>5. spentAt' = [spentAt EXCEPT ![a] = g]
      BY <1>8
    <2>6. SpentMoreAt(f, g, now, n)
      <3> HIDE DEF f
      <3> QED BY <1>1, <1>4, SpentMoreExcept
    <2>7. g \in SpentByHeight
      BY <2>6 DEF SpentMoreAt
    <2> HIDE DEF g, f, highest
    <2>8. ASSUME NEW w \in Windows
          PROVE  WindowKept(g, new, w, highest) /\ new.start[w] <= now
      <3>1. wallet.limit["period"] <= highest
        BY <1>4, <1>5
      <3>2. Ends(wallet, w) => now < wallet.start[w] + wallet.length[w]
        BY <1>5, <1>6
      <3>3. WindowKept(f, wallet, w, highest) /\ wallet.start[w] <= now
        BY <1>6
      <3>4. new.spent[w] = wallet.spent[w] + n /\ new.start[w] = wallet.start[w]
        BY <2>2, <2>4
      <3>5. highest \in Nat /\ WithinLimits(wallet, n)
        BY <1>4, <1>8
      <3>6. WindowKept(g, new, w, highest)
        BY <1>5, <2>4, <2>6, <3>1, <3>2, <3>3, <3>4, <3>5, SpendingKept
      <3> QED BY <3>3, <3>4, <3>6
    <2>9. walletDeposits[a] = new.balance + new.totalSpent + paidBack[a]
      <3>1. PICK b, t : b = wallet.balance /\ t = wallet.totalSpent
        OBVIOUS
      <3>2. walletDeposits[a] = b + t + paidBack[a] /\ b \in Nat /\ t \in Nat
        BY <1>4, <1>5, <2>1, <3>1
      <3>3. new.balance = b - n /\ new.totalSpent = t + n
        BY <2>4, <3>1
      <3> QED BY <1>1, <1>4, <3>2, <3>3
    <2>10. WalletKept(g, new, walletDeposits[a], paidBack[a], highest)
      <3>1. new.limit["period"] <= highest
        BY <1>4, <1>5, <2>4
      <3> QED BY <1>1, <2>4, <2>8, <2>9, <3>1 DEF WalletKept
    <2>11. /\ walletDeposits' = [walletDeposits EXCEPT ![a] = walletDeposits[a]]
           /\ paidBack' = [paidBack EXCEPT ![a] = paidBack[a]]
           /\ highestLimit' = [highestLimit EXCEPT ![a] = highest]
      BY <1>2, HistoryStays DEF highest
    <2>12. \A w \in Windows : new.start[w] <= now
      BY <2>8
    <2>13. walletDeposits[a] \in Nat /\ paidBack[a] \in Nat /\ highest \in Nat
      BY <1>4
    <2> QED BY <2>3, <2>4, <2>5, <2>7, <2>10, <2>11, <2>12, <2>13, OneWalletMoves
  <1> QED BY <1>3, <1>7, <1>8

LEMMA StatusKeepsWallets ==
  ASSUME WalletsInv, WalletsBegun, now' = now, NEW a \in Agent, NEW owner,
         Freeze(a, owner) \/ Unfreeze(a, owner)
  PROVE  WalletsInv' /\ WalletsBegun'
  <1> DEFINE old == agentWallets[a]
  <1>1. HasWallet(a) /\ UNCHANGED walletHistory
    BY DEF Freeze, Unfreeze, OwnersWallet
  <1>2. PICK status \in {"Active", "Frozen", "Closed"} :
          agentWallets' = [agentWallets EXCEPT ![a].status = status]
    BY DEF Freeze, Unfreeze
  <1> DEFINE new == [old EXCEPT !.status = status]
  <1>3. agentWallets' = [agentWallets EXCEPT ![a] = new]
    BY <1>2
  <1>4. /\ old \in AgentWallet
        /\ \A w \in Windows : WindowKept(spentAt[a], old, w, highestLimit[a])
                                /\ old.start[w] <= now
    BY <1>1, WalletKnown
  <1> HIDE DEF old
  <1>5. /\ new \in AgentWallet /\ new.balance = old.balance /\ new.totalSpent = old.totalSpent
        /\ new.limit = old.limit /\ new.length = old.length /\ new.start = old.start
        /\ new.spent = old.spent
    BY <1>2, <1>4 DEF AgentWallet
  <1> HIDE DEF new
  <1>6. \A w \in Windows : WindowKept(spentAt[a], new, w, highestLimit[a])
                             /\ new.start[w] <= now
    BY <1>4, <1>5, SameWindow
  <1> QED BY <1>1, <1>3, <1>5, <1>6, WalletAltered DEF old

LEMMA AllowKeepsWallets ==
  ASSUME WalletsInv, WalletsBegun, now' = now, NEW a \in Agent, NEW subnets \in SubnetLists,
         AllowSubnets(a, subnets)
  PROVE  WalletsInv' /\ WalletsBegun'
  <1> DEFINE old == agentWallets[a]
             new == [old EXCEPT !.allowed = subnets]
  <1>1. HasWallet(a) /\ UNCHANGED walletHistory
    BY DEF AllowSubnets
  <1>2. subnets \in {AllSubnets} \cup SUBSET WalletSubnet
    BY WalletsTyped DEF WalletsTyped
  <1>3. agentWallets' = [agentWallets EXCEPT ![a] = new]
    BY DEF AllowSubnets
  <1>4. /\ old \in AgentWallet
        /\ \A w \in Windows : WindowKept(spentAt[a], old, w, highestLimit[a])
                                /\ old.start[w] <= now
    BY <1>1, WalletKnown
  <1> HIDE DEF old
  <1>5. /\ new \in AgentWallet /\ new.balance = old.balance /\ new.totalSpent = old.totalSpent
        /\ new.limit = old.limit /\ new.length = old.length /\ new.start = old.start
        /\ new.spent = old.spent
    BY <1>2, <1>4 DEF AgentWallet
  <1> HIDE DEF new
  <1>6. \A w \in Windows : WindowKept(spentAt[a], new, w, highestLimit[a])
                             /\ new.start[w] <= now
    BY <1>4, <1>5, SameWindow
  <1> QED BY <1>1, <1>3, <1>5, <1>6, WalletAltered DEF old

LEMMA ResetKeepsWallets ==
  ASSUME WalletsInv, WalletsBegun, now \in 0 .. MaxNow, now' = now, NEW a \in Agent,
         ResetPeriod(a)
  PROVE  WalletsInv' /\ WalletsBegun'
  <1> DEFINE old == agentWallets[a]
             new == Reopened(old, {"period"})
             f == spentAt[a]
             highest == highestLimit[a]
  <1>1. HasWallet(a) /\ UNCHANGED walletHistory
    BY DEF ResetPeriod
  <1>2. agentWallets' = [agentWallets EXCEPT ![a] = new]
    BY DEF ResetPeriod
  <1>3. {"period"} \in SUBSET Windows /\ now \in Nat
    BY HeightsTyped DEF Windows, HeightsTyped
  <1>4. /\ old \in AgentWallet /\ f \in SpentByHeight /\ highest \in Nat
        /\ \A w \in Windows : WindowKept(f, old, w, highest) /\ old.start[w] <= now
    BY <1>1, WalletKnown
  <1> HIDE DEF old
  <1>5. /\ new \in AgentWallet /\ new.balance = old.balance /\ new.totalSpent = old.totalSpent
        /\ new.limit = old.limit
    BY <1>3, <1>4, ReopenedWallet
  <1>6. \A w \in Windows : WindowKept(f, new, w, highest) /\ new.start[w] <= now
    <2> HIDE DEF f, highest
    <2> QED BY <1>3, <1>4, ReopenedKept
  <1> HIDE DEF new
  <1> QED BY <1>1, <1>2, <1>5, <1>6, WalletAltered DEF old


LEMMA WalletsInvInit ==
  ASSUME WalletsInit
  PROVE  WalletsInv /\ WalletsBegun
  <1> DEFINE none == [h \in 0 .. MaxNow |-> 0]
  <1>1. \A a \in Agent : /\ agentWallets[a] = NoWallet /\ walletDeposits[a] = 0
                         /\ paidBack[a] = 0 /\ spentAt[a] = none
    BY DEF WalletsInit
  <1>2. none \in [0 .. MaxNow -> Nat]
    OBVIOUS
  <1>3. spentAt = [a \in Agent |-> none]
    BY DEF WalletsInit
  <1> HIDE DEF none
  <1>4. WalletsTypeOK
    BY <1>2, <1>3 DEF WalletsInit, WalletsTypeOK
  <1>5. WalletsBegun
    BY <1>1 DEF WalletsBegun, HasWallet
  <1>6. ASSUME NEW a \in Agent
        PROVE  WalletKept(spentAt[a], agentWallets[a], walletDeposits[a], paidBack[a],
                          highestLimit[a])
    BY <1>1 DEF WalletKept, none
  <1> QED BY <1>4, <1>5, <1>6 DEF WalletsInv

LEMMA WalletsInvStep ==
  ASSUME WalletsInv, WalletsBegun, now \in 0 .. MaxNow,
         \/ WalletsNext /\ UNCHANGED now
         \/ UNCHANGED walletVars /\ now' \in Nat /\ now' >= now
  PROVE  WalletsInv' /\ WalletsBegun'
  <1>1. CASE UNCHANGED walletVars /\ now' \in Nat /\ now' >= now
    <2>1. UNCHANGED <<agentWallets, walletDeposits, paidBack, spentAt, highestLimit>>
      BY <1>1 DEF walletVars, walletHistory
    <2>2. WalletsInv'
      BY <2>1 DEF WalletsInv, WalletsTypeOK
    <2>3. ASSUME NEW a \in Agent, HasWallet(a), NEW w \in Windows
          PROVE  agentWallets[a].start[w] <= now'
      <3>1. agentWallets[a].start[w] \in Nat /\ agentWallets[a].start[w] <= now
        BY <2>3, WalletKnown, WalletFields
      <3> QED BY <1>1, <3>1, HeightsTyped DEF HeightsTyped
    <2> QED BY <2>1, <2>2, <2>3 DEF WalletsBegun, HasWallet
  <1>2. CASE WalletsNext /\ now' = now
    <2>1. PICK a \in Agent :
            \/ \E terms \in WalletTerms : CreateWallet(a, terms)
            \/ \E owner \in WalletOwner :
                 \/ Freeze(a, owner) \/ Unfreeze(a, owner) \/ CloseWallet(a, owner)
                 \/ \E limit \in SpendingLimits : SetSpendingLimit(a, limit, owner)
            \/ \E n \in WalletAmounts :
                 DepositToWallet(a, n)
                   \/ \E subnet \in WalletSubnet \cup {"none"} : SpendFromWallet(a, n, subnet)
            \/ ResetPeriod(a)
            \/ \E subnets \in SubnetLists : AllowSubnets(a, subnets)
      BY <1>2 DEF WalletsNext
    <2>2. CASE \E terms \in WalletTerms : CreateWallet(a, terms)
      BY <1>2, <2>2, CreateKeepsWallets
    <2>3. CASE \E owner \in WalletOwner :
                 \/ Freeze(a, owner) \/ Unfreeze(a, owner) \/ CloseWallet(a, owner)
                 \/ \E limit \in SpendingLimits : SetSpendingLimit(a, limit, owner)
      BY <1>2, <2>3, StatusKeepsWallets, CloseKeepsWallets, LimitKeepsWallets
    <2>4. CASE \E n \in WalletAmounts :
                 DepositToWallet(a, n)
                   \/ \E subnet \in WalletSubnet \cup {"none"} : SpendFromWallet(a, n, subnet)
      BY <1>2, <2>4, DepositKeepsWallets, SpendKeepsWallets
    <2>5. CASE ResetPeriod(a)
      BY <1>2, <2>5, ResetKeepsWallets
    <2>6. CASE \E subnets \in SubnetLists : AllowSubnets(a, subnets)
      BY <1>2, <2>6, AllowKeepsWallets
    <2> QED BY <2>1, <2>2, <2>3, <2>4, <2>5, <2>6
  <1> QED BY <1>1, <1>2

\* What the property says of some heights, as sums from one height up to another.
LEMMA DuringIsBetween ==
  ASSUME NEW a \in Agent, spentAt[a] \in SpentByHeight, NEW heights, NEW from, NEW to,
         heights \cap (0 .. MaxNow) = HeightsBetween(from, to)
  PROVE  SpentDuring(a, heights) = SpentBetween(spentAt[a], from, to)
  <1> DEFINE S == heights \cap (0 .. MaxNow)
             g == [h \in S |-> spentAt[a][h]]
  <1>1. SpentDuring(a, heights) = SumFunctionOnSet(g, S)
    BY DEF SpentDuring, SumOver, SumFunction
  <1>2. IsFiniteSet(S) /\ \A h \in S : g[h] = spentAt[a][h]
    BY HeightsAreFinite, FS_Subset
  <1> HIDE DEF S, g
  <1>3. SumFunctionOnSet(g, S) = SumFunctionOnSet(spentAt[a], S)
    BY <1>2, SumOnAgree
  <1> QED BY <1>1, <1>3 DEF S, SpentBetween

LEMMA WalletsInvImplies ==
  ASSUME WalletsInv, WalletsBegun
  PROVE  WalletsWithinLimits
  <1> SUFFICES ASSUME NEW a \in Agent, HasWallet(a)
               PROVE  LET wallet == agentWallets[a]
                          limit(w) == IF w = "period" THEN highestLimit[a] ELSE wallet.limit[w]
                      IN
                      /\ walletDeposits[a] = wallet.balance + wallet.totalSpent + paidBack[a]
                      /\ \A w \in Windows : Ends(wallet, w) =>
                           /\ wallet.spent[w] = SpentDuring(a, wallet.start[w] .. MaxNow)
                           /\ (w = "period" \/ limit(w) > 0) =>
                                \A h \in 0 .. MaxNow :
                                  SpentDuring(a, h .. h + wallet.length[w] - 1) <= 2 * limit(w)
    BY DEF WalletsWithinLimits
  <1>1. PICK wallet, f : wallet = agentWallets[a] /\ f = spentAt[a]
    OBVIOUS
  <1>2. /\ wallet \in AgentWallet /\ f \in SpentByHeight
        /\ walletDeposits[a] = wallet.balance + wallet.totalSpent + paidBack[a]
        /\ \A w \in Windows : WindowKept(f, wallet, w, highestLimit[a])
    BY <1>1, WalletKnown
  <1>3. ASSUME NEW w \in Windows, Ends(wallet, w)
        PROVE  /\ wallet.spent[w] = SpentDuring(a, wallet.start[w] .. MaxNow)
               /\ Limited(wallet, w) =>
                    \A h \in 0 .. MaxNow :
                      SpentDuring(a, h .. h + wallet.length[w] - 1)
                        <= 2 * HighestOf(wallet, w, highestLimit[a])
    <2>1. PICK s, l : s = wallet.start[w] /\ l = wallet.length[w]
      OBVIOUS
    <2>2. s \in Nat /\ l \in Nat
      BY <1>2, <2>1, WalletFields
    <2>3. SpentDuring(a, s .. MaxNow) = SpentBetween(f, s, LastHeights)
      <3>1. (s .. MaxNow) \cap (0 .. MaxNow) = HeightsBetween(s, LastHeights)
        BY <2>2, HeightsAreFinite DEF HeightsBetween
      <3> QED BY <1>1, <1>2, <3>1, DuringIsBetween
    <2>4. ASSUME NEW h \in 0 .. MaxNow
          PROVE  SpentDuring(a, h .. h + l - 1) = SpentBetween(f, h, h + l)
      <3>1. (h .. h + l - 1) \cap (0 .. MaxNow) = HeightsBetween(h, h + l)
        BY <2>2, HeightsAreFinite DEF HeightsBetween
      <3> QED BY <1>1, <1>2, <3>1, DuringIsBetween
    <2>5. /\ wallet.spent[w] = SpentBetween(f, s, LastHeights)
          /\ Limited(wallet, w) => \A h \in 0 .. MaxNow :
               SpentBetween(f, h, h + l) <= 2 * HighestOf(wallet, w, highestLimit[a])
      BY <1>2, <1>3, <2>1 DEF WindowKept, SpentSince, SpentWithin, StretchWithinTwice
    <2> QED BY <2>1, <2>3, <2>4, <2>5
  <1> QED BY <1>1, <1>2, <1>3 DEF Limited, HighestOf
==============================================================================
