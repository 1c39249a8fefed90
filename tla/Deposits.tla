------------------------------ MODULE Deposits ------------------------------
(***************************************************************************)
(* Deposits of tokens for credits (deposit/manager.rs).                    *)
(*                                                                         *)
(* Every operation is one &mut self call.  A deposit's id is a hash of its *)
(* user, amount and height, so here it is these three, and a second        *)
(* deposit of the same three replaces the first, whatever became of it.    *)
(* Left out: the index by user and the queries, which decide nothing.      *)
(***************************************************************************)
EXTENDS Common

CONSTANTS
  DepositId,        \* [user, amount, at]
  NoDeposit,        \* a missing map entry
  IsaPrices,        \* prices that callers pass
  CreditUnit,       \* credit_price_usd in the units of amount times price
  MaxDepositCalls   \* bound of the exploration: calls of initiate_deposit

DepositStatus == {"Pending", "Completed", "Failed", "Refunded"}   \* Processing is never set

DepositRequest == [credits : Nat, status : DepositStatus]

ASSUME DepositsTyped ==
  /\ \A d \in DepositId : d.amount \in Nat /\ d.at \in Nat
  /\ NoDeposit \notin DepositRequest
  /\ IsaPrices \subseteq Nat /\ CreditUnit \in Nat

VARIABLES
  deposits,             \* DepositRequest by id
  totalDepositedIsa,    \* total_deposited_isa
  totalCreditsIssued    \* total_credits_issued

\* History, which the code does not keep.
VARIABLES
  depositCalls,         \* calls of initiate_deposit
  refundedIsa,          \* what refund_deposit returned
  replacedIsa           \* unfinished deposits that another one replaced

depositHistory == <<depositCalls, refundedIsa, replacedIsa>>
depositVars == <<deposits, totalDepositedIsa, totalCreditsIssued, depositHistory>>

DepositsInit ==
  /\ deposits = [d \in DepositId |-> NoDeposit]
  /\ totalDepositedIsa = 0 /\ totalCreditsIssued = 0
  /\ depositCalls = 0 /\ refundedIsa = 0 /\ replacedIsa = 0

\* The tokens that a deposit holds until they are credited or refunded.
DepositHeld(d) ==
  IF deposits[d] # NoDeposit /\ deposits[d].status \in {"Pending", "Failed"} THEN d.amount ELSE 0

\* Credits without a price are none; a product above u128 is left out.
DepositCredits(amount, price) ==
  IF CreditUnit = 0 THEN 0 ELSE (amount * price) \div CreditUnit

InitiateDeposit(d, price) ==
  /\ d.at = now /\ d.amount > 0 /\ price > 0 /\ depositCalls < MaxDepositCalls
  /\ deposits' = [deposits EXCEPT
       ![d] = [credits |-> DepositCredits(d.amount, price), status |-> "Pending"]]
  /\ replacedIsa' = replacedIsa + DepositHeld(d)
  /\ depositCalls' = depositCalls + 1
  /\ UNCHANGED <<totalDepositedIsa, totalCreditsIssued, refundedIsa>>

CompleteDeposit(d) ==
  /\ deposits[d] # NoDeposit /\ deposits[d].status = "Pending"
  /\ deposits' = [deposits EXCEPT ![d].status = "Completed"]
  /\ totalDepositedIsa' = totalDepositedIsa + d.amount
  /\ totalCreditsIssued' = totalCreditsIssued + deposits[d].credits
  /\ UNCHANGED <<depositCalls, refundedIsa, replacedIsa>>

FailDeposit(d) ==
  /\ deposits[d] # NoDeposit /\ deposits[d].status = "Pending"
  /\ deposits' = [deposits EXCEPT ![d].status = "Failed"]
  /\ UNCHANGED <<totalDepositedIsa, totalCreditsIssued, depositHistory>>

RefundDeposit(d) ==
  /\ deposits[d] # NoDeposit /\ deposits[d].status = "Failed"
  /\ deposits' = [deposits EXCEPT ![d].status = "Refunded"]
  /\ refundedIsa' = refundedIsa + d.amount
  /\ UNCHANGED <<totalDepositedIsa, totalCreditsIssued, depositCalls, replacedIsa>>

DepositsNext ==
  \E d \in DepositId :
    \/ CompleteDeposit(d) \/ FailDeposit(d) \/ RefundDeposit(d)
    \/ \E price \in IsaPrices : InitiateDeposit(d, price)

----------------------------------------------------------------------------
(* Properties *)

\* Types of the deposits' state.
DepositsTypeOK ==
  /\ deposits \in [DepositId -> DepositRequest \cup {NoDeposit}]
  /\ totalDepositedIsa \in Nat /\ totalCreditsIssued \in Nat
  /\ depositCalls \in Nat /\ refundedIsa \in Nat /\ replacedIsa \in Nat

\* A deposit's tokens are held until they are credited or refunded, once
\* (deposit/manager.rs:120, 160, 188).
DepositEscrow == INSTANCE Escrow
  WITH Key <- DepositId, Value <- {d.amount : d \in DepositId},
       held <- [d \in DepositId |-> DepositHeld(d)], paid <- totalDepositedIsa,
       returned <- refundedIsa, dropped <- replacedIsa
=============================================================================
