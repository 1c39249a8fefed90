---------------------------- MODULE Withdrawals ----------------------------
(***************************************************************************)
(* Withdrawals of credits as tokens (withdrawal/manager.rs): a request     *)
(* waits for its cooldown and is then completed, or cancelled before.      *)
(*                                                                         *)
(* As for deposits, an id is a hash of user, credits and height, here      *)
(* these three, and the same request again replaces the first.  The index  *)
(* by user then lists the id twice, and the limit counts it twice.         *)
(***************************************************************************)
EXTENDS Common

CONSTANTS
  WithdrawalId,                               \* [user, credits, at]
  NoWithdrawal,                               \* a missing map entry
  WithdrawalPrices,                           \* isa_price_usd that callers pass, 0 too
  WithdrawalFee(_),                           \* calculate_fee, by the credits
  CooldownBlocks, MinWithdrawal, DailyLimit,  \* parameters of the manager
  WithdrawalUnit,                             \* DEFAULT_CREDIT_PRICE_USD in the prices' units
  MaxWithdrawalCalls                          \* bound of the exploration

WithdrawalStatus == {"InCooldown", "Completed", "Cancelled"}   \* the others are never set

WithdrawalRequest == [isaToReceive : Nat, cooldownEnds : Nat, status : WithdrawalStatus]

ASSUME WithdrawalsTyped ==
  /\ IsFiniteSet(WithdrawalId)
  /\ \A w \in WithdrawalId :
       w.credits \in Nat /\ w.at \in Nat /\ WithdrawalFee(w.credits) \in Nat
  /\ NoWithdrawal \notin WithdrawalRequest
  /\ WithdrawalPrices \subseteq Nat
  /\ CooldownBlocks \in Nat /\ MinWithdrawal \in Nat /\ DailyLimit \in Nat
  /\ WithdrawalUnit \in Nat \ {0}

VARIABLES
  withdrawals,            \* WithdrawalRequest by id
  withdrawalListed,       \* by_user: how often an id is in its user's list
  totalWithdrawnCredits,  \* total_withdrawn_credits
  totalIsaMinted          \* total_isa_minted

\* History: what cancel_withdrawal returned, open requests that another one replaced.
VARIABLES cancelledCredits, replacedCredits

withdrawalHistory == <<cancelledCredits, replacedCredits>>
withdrawalVars ==
  <<withdrawals, withdrawalListed, totalWithdrawnCredits, totalIsaMinted, withdrawalHistory>>

WithdrawalsInit ==
  /\ withdrawals = [w \in WithdrawalId |-> NoWithdrawal]
  /\ withdrawalListed = [w \in WithdrawalId |-> 0]
  /\ totalWithdrawnCredits = 0 /\ totalIsaMinted = 0
  /\ cancelledCredits = 0 /\ replacedCredits = 0

InCooldown(w) == withdrawals[w] # NoWithdrawal /\ withdrawals[w].status = "InCooldown"

\* The credits that an open request holds.
WithdrawalHeld(w) == IF InCooldown(w) THEN w.credits ELSE 0

Calls == SumFunction(withdrawalListed)

\* user_pending_credits: one summand per place in the user's list.
UserPendingCredits(user) ==
  SumOver(LAMBDA w : withdrawalListed[w] * WithdrawalHeld(w),
                {w \in WithdrawalId : w.user = user})

CalculateIsa(credits, price) == IF price = 0 THEN 0 ELSE (credits * WithdrawalUnit) \div price

InitiateWithdrawal(w, price) ==
  /\ w.at = now /\ Calls < MaxWithdrawalCalls
  /\ w.credits > 0 /\ w.credits >= MinWithdrawal
  /\ UserPendingCredits(w.user) + w.credits <= DailyLimit
  /\ withdrawals' = [withdrawals EXCEPT
       ![w] = [isaToReceive |-> CalculateIsa(Monus(w.credits, WithdrawalFee(w.credits)), price),
               cooldownEnds |-> now + CooldownBlocks, status |-> "InCooldown"]]
  /\ withdrawalListed' = [withdrawalListed EXCEPT ![w] = @ + 1]
  /\ replacedCredits' = replacedCredits + WithdrawalHeld(w)
  /\ UNCHANGED <<totalWithdrawnCredits, totalIsaMinted, cancelledCredits>>

CompleteWithdrawal(w) ==
  /\ InCooldown(w) /\ now >= withdrawals[w].cooldownEnds
  /\ withdrawals' = [withdrawals EXCEPT ![w].status = "Completed"]
  /\ totalWithdrawnCredits' = totalWithdrawnCredits + w.credits
  /\ totalIsaMinted' = totalIsaMinted + withdrawals[w].isaToReceive
  /\ UNCHANGED <<withdrawalListed, withdrawalHistory>>

\* Mutant: a completed withdrawal can be cancelled.
CancelCompleted(w) ==
  /\ withdrawals[w] # NoWithdrawal /\ withdrawals[w].status # "Cancelled"
  /\ withdrawals' = [withdrawals EXCEPT ![w].status = "Cancelled"]
  /\ cancelledCredits' = cancelledCredits + w.credits
  /\ UNCHANGED <<withdrawalListed, totalWithdrawnCredits, totalIsaMinted, replacedCredits>>

CancelWithdrawal(w) ==
  /\ InCooldown(w)
  /\ withdrawals' = [withdrawals EXCEPT ![w].status = "Cancelled"]
  /\ cancelledCredits' = cancelledCredits + w.credits
  /\ UNCHANGED <<withdrawalListed, totalWithdrawnCredits, totalIsaMinted, replacedCredits>>

WithdrawalsNext ==
  \E w \in WithdrawalId :
    \/ CompleteWithdrawal(w) \/ CancelWithdrawal(w)
    \/ \E price \in WithdrawalPrices : InitiateWithdrawal(w, price)

----------------------------------------------------------------------------
(* Properties *)

\* Types of the withdrawals' state.
WithdrawalsTypeOK ==
  /\ withdrawals \in [WithdrawalId -> WithdrawalRequest \cup {NoWithdrawal}]
  /\ withdrawalListed \in [WithdrawalId -> Nat]
  /\ totalWithdrawnCredits \in Nat /\ totalIsaMinted \in Nat
  /\ cancelledCredits \in Nat /\ replacedCredits \in Nat

\* A user's open requests never add up to more than the limit, whatever was replaced
\* (withdrawal/manager.rs:107).
OpenWithinLimit ==
  \A w \in WithdrawalId :
    SumOver(WithdrawalHeld, {v \in WithdrawalId : v.user = w.user}) <= DailyLimit

\* Credits are held until they are withdrawn or given back, once
\* (withdrawal/manager.rs:164, 200).
WithdrawalEscrow == INSTANCE Escrow
  WITH Key <- WithdrawalId, Value <- {w.credits : w \in WithdrawalId},
       held <- [w \in WithdrawalId |-> WithdrawalHeld(w)], paid <- totalWithdrawnCredits,
       returned <- cancelledCredits, dropped <- replacedCredits
=============================================================================
