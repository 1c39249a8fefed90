------------------------------ MODULE Budgets ------------------------------
(***************************************************************************)
(* Budgets that a user delegates to an agent (budget/manager.rs): up to a  *)
(* total, per transaction up to a limit, for some services, until a        *)
(* height.  A delegation's id is a hash of delegator, agent and height,    *)
(* and a second one of the same id is refused.  BudgetMax stands for       *)
(* u128::MAX.  Left out: the indexes, which decide nothing.                *)
(***************************************************************************)
EXTENDS Common

CONSTANTS
  DelegationId,                 \* [delegator, agent, at]
  NoDelegation,                 \* a missing map entry
  BudgetCaller,                 \* addresses that call
  Budgets, TxLimits, Expiries,  \* what delegators choose
  BudgetAmounts,                \* what agents spend, and delegators add
  BudgetService,                \* services; the choices are sets of them, all if not given
  BudgetMax,                    \* Amount::MAX
  MaxBudget                     \* bound of the exploration

DelegationStatus == {"Active", "Paused", "Exhausted", "Expired", "Revoked"}

BudgetDelegation ==
  [total : Nat, spent : Nat, perTx : Nat, services : SUBSET BudgetService,
   expiresAt : Nat, status : DelegationStatus]

ASSUME BudgetsTyped ==
  /\ NoDelegation \notin BudgetDelegation
  /\ \A d \in DelegationId : d.delegator \in BudgetCaller /\ d.at \in Nat
  /\ Budgets \subseteq 0 .. BudgetMax /\ BudgetMax \in Nat
  /\ TxLimits \cup Expiries \cup BudgetAmounts \subseteq Nat

VARIABLE delegations    \* BudgetDelegation by id

\* History: every spending that succeeded, and the ids that were revoked.
VARIABLES spendings, revoked

budgetHistory == <<spendings, revoked>>
budgetVars == <<delegations, budgetHistory>>

BudgetsInit ==
  /\ delegations = [d \in DelegationId |-> NoDelegation]
  /\ spendings = [d \in DelegationId |-> [h \in 0 .. MaxNow |-> 0]]
  /\ revoked = {}

Delegated(d) == delegations[d] # NoDelegation

CreateDelegation(d, total, perTx, services, expiresAt) ==
  /\ total > 0 /\ perTx > 0 /\ d.at = now /\ ~Delegated(d)
  /\ delegations' = [delegations EXCEPT ![d] =
       [total |-> total, spent |-> 0, perTx |-> perTx, services |-> services,
        expiresAt |-> expiresAt, status |-> "Active"]]
  /\ UNCHANGED budgetHistory

\* What check_expired makes of a delegation.
Checked(delegation) ==
  IF now > delegation.expiresAt /\ delegation.status = "Active"
  THEN [delegation EXCEPT !.status = "Expired"] ELSE delegation

CheckExpired(d) ==
  /\ Delegated(d)
  /\ delegations' = [delegations EXCEPT ![d] = Checked(@)]
  /\ UNCHANGED budgetHistory

\* An expiry that is found stays, although the spending is refused.
SpendBudget(d, amount, service) ==
  /\ amount > 0 /\ Delegated(d)
  /\ LET delegation == Checked(delegations[d])  spent == delegation.spent + amount IN
       IF /\ delegation.status = "Active" /\ amount <= delegation.perTx
          /\ amount <= Monus(delegation.total, delegation.spent)
          /\ service \in delegation.services
       THEN /\ delegations' = [delegations EXCEPT ![d] =
                 [delegation EXCEPT !.spent = spent,
                    !.status = IF spent >= delegation.total THEN "Exhausted" ELSE @]]
            /\ spendings' = [spendings EXCEPT ![d][now] = @ + amount]
       ELSE delegations' = [delegations EXCEPT ![d] = delegation] /\ UNCHANGED spendings
  /\ UNCHANGED revoked

Pause(d, caller) ==
  /\ Delegated(d) /\ caller = d.delegator /\ delegations[d].status = "Active"
  /\ delegations' = [delegations EXCEPT ![d].status = "Paused"]
  /\ UNCHANGED budgetHistory

Resume(d, caller) ==
  /\ Delegated(d) /\ caller = d.delegator /\ delegations[d].status = "Paused"
  /\ delegations' = [delegations EXCEPT ![d].status = "Active"]
  /\ UNCHANGED budgetHistory

Revoke(d, caller) ==
  /\ Delegated(d) /\ caller = d.delegator
  /\ delegations[d].status \notin {"Revoked", "Expired"}
  /\ delegations' = [delegations EXCEPT ![d].status = "Revoked"]
  /\ revoked' = revoked \cup {[id |-> d, spent |-> delegations[d].spent]}
  /\ UNCHANGED spendings

IncreaseBudget(d, additional, caller) ==
  /\ additional > 0 /\ Delegated(d) /\ caller = d.delegator
  /\ delegations[d].status \notin {"Revoked", "Expired"}
  /\ delegations[d].total + additional <= MaxBudget
  /\ LET delegation == delegations[d]
         total == Min({delegation.total + additional, BudgetMax})
     IN delegations' = [delegations EXCEPT ![d] =
          [delegation EXCEPT !.total = total,
             !.status = IF @ = "Exhausted" /\ total > delegation.spent THEN "Active" ELSE @]]
  /\ UNCHANGED budgetHistory

BudgetsNext ==
  \E d \in DelegationId :
    \/ \E total \in Budgets, perTx \in TxLimits, services \in SUBSET BudgetService,
          expiresAt \in Expiries : CreateDelegation(d, total, perTx, services, expiresAt)
    \/ CheckExpired(d)
    \/ \E n \in BudgetAmounts :
         \/ \E service \in BudgetService : SpendBudget(d, n, service)
         \/ \E caller \in BudgetCaller : IncreaseBudget(d, n, caller)
    \/ \E caller \in BudgetCaller : Pause(d, caller) \/ Resume(d, caller) \/ Revoke(d, caller)

----------------------------------------------------------------------------
(* Properties *)

\* Types of the budgets' state.
BudgetsTypeOK ==
  /\ delegations \in [DelegationId -> BudgetDelegation \cup {NoDelegation}]
  /\ spendings \in [DelegationId -> [0 .. MaxNow -> Nat]]
  /\ revoked \subseteq [id : DelegationId, spent : Nat]

\* An agent spends what it was given and no more, up to the height until which it was given,
\* although nothing runs at that height and a paused or an exhausted delegation is not
\* looked at; a revoked one is never spent from again (budget/manager.rs:95, 269, 284).
BudgetsKept ==
  \A d \in DelegationId : Delegated(d) =>
    LET delegation == delegations[d] IN
    /\ delegation.spent = SumOver(LAMBDA h : spendings[d][h], 0 .. MaxNow)
    /\ delegation.spent <= delegation.total
    /\ \A h \in 0 .. MaxNow : spendings[d][h] > 0 => h <= delegation.expiresAt
    /\ \A r \in revoked : r.id = d => r.spent = delegation.spent
=============================================================================
