---------------------------- MODULE Delegations ----------------------------
(***************************************************************************)
(* The stakes that an account records (account/account.rs): its own as a   *)
(* validator, what it delegates, and what is on its way back; and the set  *)
(* of validators with its total power (validator.rs).  Neither calls the   *)
(* other, and the power of a validator is what the caller's record says.   *)
(* A stake that is recorded is not taken off the balance, while one that   *)
(* comes back is added to it.  What comes back at one height is added up.  *)
(* The total power is a u128 that nothing checks.  Left out: rewards,      *)
(* commissions and descriptions, which nothing changes.                    *)
(***************************************************************************)
EXTENDS Common

CONSTANTS
  StakingAccount, Delegatee,    \* accounts, and validators that they name
  NoEntry,                      \* a missing map entry
  DelegatedAmounts,             \* amounts that callers pass
  MinSelfDelegation,            \* what callers pass for it, and for the period
  DelegationPeriod,
  Powers,                       \* total_delegation of the records that are added
  PowerModulus,                 \* 2^128
  MaxDelegated,                 \* bound of the exploration, which no sum of an account leaves
  MaxPower                      \* bound of the exploration: the power that is replaced

ASSUME DelegationsTyped ==
  /\ IsFiniteSet(Delegatee) /\ NoEntry \notin Nat
  /\ DelegatedAmounts \cup Powers \cup {MinSelfDelegation, DelegationPeriod} \subseteq Nat
  /\ PowerModulus \in Nat \ {0} /\ MaxNow + DelegationPeriod < HeightModulus

CompletionHeights == 0 .. MaxNow + DelegationPeriod

\* What came back to an account's balance, and its staking_info.
AccountStake ==
  [gained : Nat, self : Nat \cup {NoEntry}, delegated : [Delegatee -> Nat \cup {NoEntry}],
   total : Nat, unbonding : [CompletionHeights -> Nat]]

VARIABLES
  stakings,          \* AccountStake by address
  validatorSet,      \* ValidatorSet.validators: the power by address
  totalPower,        \* total_power
  undelegated,       \* history: what each account took out, by the height at which it is due
  replacedPower      \* history: the power of records that others replaced

accountVars == <<stakings, undelegated>>
validatorSetVars == <<validatorSet, totalPower, replacedPower>>
delegationVars == <<accountVars, validatorSetVars>>

DelegationsInit ==
  /\ stakings = [a \in StakingAccount |->
       [gained |-> 0, self |-> NoEntry, delegated |-> [d \in Delegatee |-> NoEntry],
        total |-> 0, unbonding |-> [h \in CompletionHeights |-> 0]]]
  /\ undelegated = [a \in StakingAccount |-> [h \in CompletionHeights |-> 0]]
  /\ validatorSet = [d \in Delegatee |-> NoEntry] /\ totalPower = 0 /\ replacedPower = 0

----------------------------------------------------------------------------
(* Accounts *)

\* Of an entry that may be missing.
AmountOf(entry) == IF entry = NoEntry THEN 0 ELSE entry

BecomeValidator(a, amount) ==
  /\ stakings[a].total + amount <= MaxDelegated
  /\ stakings[a].self = NoEntry /\ amount >= MinSelfDelegation
  /\ stakings' = [stakings EXCEPT ![a].self = amount, ![a].total = @ + amount]
  /\ UNCHANGED undelegated

DelegateTo(a, d, amount) ==
  /\ stakings[a].total + amount <= MaxDelegated
  /\ stakings' = [stakings EXCEPT ![a].delegated[d] = AmountOf(@) + amount,
                                  ![a].total = @ + amount]
  /\ UNCHANGED undelegated

\* An entry that is used up is removed.
UndelegateFrom(a, d, amount) ==
  LET due == now + DelegationPeriod IN
  /\ stakings[a].delegated[d] # NoEntry /\ amount <= AmountOf(stakings[a].delegated[d])
  /\ undelegated[a][due] + amount <= MaxDelegated
  /\ stakings' = [stakings EXCEPT
       ![a].delegated[d] = IF @ = amount THEN NoEntry ELSE @ - amount,
       ![a].total = @ - amount,
       ![a].unbonding[due] = @ + amount]
  /\ undelegated' = [undelegated EXCEPT ![a][due] = @ + amount]

ProcessUnbonding(a) ==
  LET unbonding == stakings[a].unbonding
      done == {h \in CompletionHeights : now >= h}
  IN
  /\ stakings' = [stakings EXCEPT
       ![a].unbonding = [h \in CompletionHeights |-> IF h \in done THEN 0 ELSE unbonding[h]],
       ![a].gained = @ + SumOver(LAMBDA h : unbonding[h], done)]
  /\ UNCHANGED undelegated

----------------------------------------------------------------------------
(* The validator set *)

\* A record of an address that is in the set replaces the other, and its power is added.
AddValidator(d, active, power) ==
  /\ active /\ replacedPower + AmountOf(validatorSet[d]) <= MaxPower
  /\ replacedPower' = replacedPower + AmountOf(validatorSet[d])
  /\ validatorSet' = [validatorSet EXCEPT ![d] = power]
  /\ totalPower' = (totalPower + power) % PowerModulus

RemoveFromSet(d) ==
  /\ validatorSet[d] # NoEntry
  /\ validatorSet' = [validatorSet EXCEPT ![d] = NoEntry]
  /\ totalPower' = (totalPower - validatorSet[d]) % PowerModulus
  /\ UNCHANGED replacedPower

AccountsNext ==
  \E a \in StakingAccount :
    \/ \E amount \in DelegatedAmounts :
         \/ BecomeValidator(a, amount)
         \/ \E d \in Delegatee : DelegateTo(a, d, amount) \/ UndelegateFrom(a, d, amount)
    \/ ProcessUnbonding(a)

ValidatorSetNext ==
  \E d \in Delegatee :
    \/ \E active \in BOOLEAN, power \in Powers : AddValidator(d, active, power)
    \/ RemoveFromSet(d)

----------------------------------------------------------------------------
(* Properties *)

\* Types of the accounts' stakes and of the validator set.
DelegationsTypeOK ==
  /\ stakings \in [StakingAccount -> AccountStake]
  /\ undelegated \in [StakingAccount -> [CompletionHeights -> Nat]]
  /\ validatorSet \in [Delegatee -> Nat \cup {NoEntry}]
  /\ totalPower \in Nat /\ replacedPower \in Nat

\* An account's total is its own stake and its delegations; what it took out is unbonding or
\* came back, once, and nothing before its period was over.  The total power is that of the
\* validators in the set and of the records that were replaced, modulo its width, in whatever
\* order they come and go (account/account.rs:256, validator.rs:33, 41).
DelegationsAccounted ==
  /\ \A a \in StakingAccount :
       LET account == stakings[a]
           takenOut(H) == SumOver(LAMBDA h : undelegated[a][h], H)
       IN
       /\ account.total =
            AmountOf(account.self) + SumOver(LAMBDA d : AmountOf(account.delegated[d]), Delegatee)
       /\ account.gained + SumOver(LAMBDA h : account.unbonding[h], CompletionHeights)
            = takenOut(CompletionHeights)
       /\ account.gained <= takenOut({h \in CompletionHeights : h <= now})
  /\ totalPower =
       (replacedPower + SumOver(LAMBDA d : AmountOf(validatorSet[d]), Delegatee)) % PowerModulus
=============================================================================
