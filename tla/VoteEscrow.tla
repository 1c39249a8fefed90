----------------------------- MODULE VoteEscrow -----------------------------
(***************************************************************************)
(* Locked tokens and the voting power they give (veisa/system.rs).  A      *)
(* lock's power decays with every block until its end.  The system keeps a *)
(* total of the powers as they were when each lock was last touched.       *)
(***************************************************************************)
EXTENDS Common

CONSTANTS
  LockOwner, NoLock,                 \* addresses, and a missing map entry
  LockAmounts, LockDurations,        \* what callers pass
  MinLockDuration, MaxLockDuration, MinLockAmount,   \* parameters of the system
  MaxLockedTotal                     \* bound of the exploration

VeISALock ==
  [amount : Nat, lockEnd : Nat, votingPower : Nat, lastCalculated : Nat]

ASSUME VoteEscrowTyped ==
  /\ IsFiniteSet(LockOwner)
  /\ NoLock \notin VeISALock
  /\ LockAmounts \subseteq Nat /\ LockDurations \subseteq Nat
  /\ MinLockDuration \in Nat /\ MaxLockDuration \in Nat \ {0} /\ MinLockAmount \in Nat

VARIABLES
  locks,              \* VeISALock by owner
  totalLockedIsa,     \* total_locked
  totalVotingPower,   \* total_voting_power, which is stale
  decayed             \* history: power that had decayed when an extension took it off the total

voteEscrowVars == <<locks, totalLockedIsa, totalVotingPower, decayed>>

VoteEscrowInit ==
  /\ locks = [o \in LockOwner |-> NoLock]
  /\ totalLockedIsa = 0 /\ totalVotingPower = 0 /\ decayed = 0

VotingPower(amount, remaining) == (amount * remaining) \div MaxLockDuration

Locked(o) == locks[o] # NoLock

Lock(o, amount, duration) ==
  /\ amount > 0 /\ amount >= MinLockAmount /\ totalLockedIsa + amount <= MaxLockedTotal
  /\ duration \in MinLockDuration .. MaxLockDuration
  /\ ~Locked(o)
  /\ LET power == VotingPower(amount, duration) IN
       /\ locks' = [locks EXCEPT
            ![o] = [amount |-> amount, lockEnd |-> now + duration, votingPower |-> power,
                    lastCalculated |-> now]]
       /\ totalVotingPower' = totalVotingPower + power
  /\ totalLockedIsa' = totalLockedIsa + amount
  /\ UNCHANGED decayed

\* Mutant: the power is taken off the total as it was recorded, before the lock's end moved on
\* by the blocks since then.
ExtendFromRecord(o, newEnd) ==
  /\ Locked(o) /\ newEnd > locks[o].lockEnd
  /\ Monus(newEnd, now) <= MaxLockDuration
  /\ LET lock == locks[o]
         taken == VotingPower(lock.amount, Monus(newEnd, lock.lastCalculated))
         new == VotingPower(lock.amount, Monus(newEnd, now))
     IN
       /\ locks' = [locks EXCEPT
            ![o] = [lock EXCEPT !.lockEnd = newEnd, !.votingPower = new, !.lastCalculated = now]]
       /\ totalVotingPower' = Monus(totalVotingPower, taken) + new
       /\ decayed' = decayed
  /\ UNCHANGED totalLockedIsa

ExtendLock(o, newEnd) ==
  /\ Locked(o) /\ newEnd > locks[o].lockEnd
  /\ Monus(newEnd, now) <= MaxLockDuration
  /\ LET lock == locks[o]
         old == VotingPower(lock.amount, Monus(lock.lockEnd, now))
         new == VotingPower(lock.amount, Monus(newEnd, now))
     IN
       /\ locks' = [locks EXCEPT
            ![o] = [lock EXCEPT !.lockEnd = newEnd, !.votingPower = new, !.lastCalculated = now]]
       /\ totalVotingPower' = Monus(totalVotingPower, old) + new
       /\ decayed' = decayed + (lock.votingPower - old)
  /\ UNCHANGED totalLockedIsa

\* The remaining blocks are those from the last calculation on, not from now.
IncreaseAmount(o, additional) ==
  /\ additional > 0 /\ Locked(o) /\ totalLockedIsa + additional <= MaxLockedTotal
  /\ LET lock == locks[o]
         remaining == Monus(lock.lockEnd, lock.lastCalculated)
         new == VotingPower(lock.amount + additional, remaining)
     IN
       /\ locks' = [locks EXCEPT
            ![o] = [lock EXCEPT !.amount = @ + additional, !.votingPower = new]]
       /\ totalVotingPower' =
            Monus(totalVotingPower, VotingPower(lock.amount, remaining)) + new
       /\ totalLockedIsa' = Monus(totalLockedIsa, lock.amount) + lock.amount + additional
  /\ UNCHANGED decayed

WithdrawLock(o) ==
  /\ Locked(o) /\ now >= locks[o].lockEnd
  /\ locks' = [locks EXCEPT ![o] = NoLock]
  /\ totalVotingPower' = Monus(totalVotingPower, locks[o].votingPower)
  /\ totalLockedIsa' = Monus(totalLockedIsa, locks[o].amount)
  /\ UNCHANGED decayed

VoteEscrowNext ==
  \E o \in LockOwner :
    \/ \E amount \in LockAmounts :
         IncreaseAmount(o, amount) \/ \E duration \in LockDurations : Lock(o, amount, duration)
    \/ \E newEnd \in 0 .. MaxNow + MaxLockDuration : ExtendLock(o, newEnd)
    \/ WithdrawLock(o)

----------------------------------------------------------------------------
(* Properties *)

\* Types of the vote escrow's state.
VoteEscrowTypeOK ==
  /\ locks \in [LockOwner -> VeISALock \cup {NoLock}]
  /\ totalLockedIsa \in Nat /\ totalVotingPower \in Nat /\ decayed \in Nat

\* get_voting_power
PowerNow(o) ==
  IF Locked(o) THEN VotingPower(locks[o].amount, Monus(locks[o].lockEnd, now)) ELSE 0

\* The total never understates the power that the locks have: it is what they had when they
\* were last touched, and what decayed before an extension, which stays in it for ever
\* (veisa/system.rs:152, 220, 265).
TotalCoversPower ==
  LET owners == {o \in LockOwner : Locked(o)} IN
  /\ totalLockedIsa = SumOver(LAMBDA o : locks[o].amount, owners)
  /\ totalVotingPower = SumOver(LAMBDA o : locks[o].votingPower, owners) + decayed
  /\ totalVotingPower >= SumOver(PowerNow, owners)
=============================================================================
