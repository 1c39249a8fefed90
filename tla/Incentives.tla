----------------------------- MODULE Incentives -----------------------------
(***************************************************************************)
(* Programs that reward contributors out of a budget until a height        *)
(* (incentives/manager.rs).  A program's id is a hash of its name, height  *)
(* and admin, and a second one of the same id is refused.  Recipients and  *)
(* reasons decide nothing and are left out.                                *)
(***************************************************************************)
EXTENDS Common

CONSTANTS
  ProgramId,                      \* [admin, at], with the name as part of the id
  NoProgram,                      \* a missing map entry
  IncentiveCaller, GlobalAdmin,   \* addresses, and global_admin
  ProgramBudgets, ProgramExpiries, RewardAmounts,   \* what callers pass
  MaxRewards                      \* bound of the exploration

ProgramStatus == {"Active", "Paused", "Expired", "Exhausted"}

Rewards == [0 .. MaxNow -> Nat]    \* what was awarded at each height

IncentiveProgram ==
  [budget : Nat, spent : Nat, rewards : Rewards, status : ProgramStatus, expiresAt : Nat]

ASSUME IncentivesTyped ==
  /\ NoProgram \notin IncentiveProgram /\ GlobalAdmin \in IncentiveCaller
  /\ \A p \in ProgramId : p.admin \in IncentiveCaller /\ p.at \in Nat
  /\ ProgramBudgets \cup ProgramExpiries \cup RewardAmounts \subseteq Nat
  /\ IsFiniteSet(ProgramId)

VARIABLES
  programs,         \* IncentiveProgram by id
  totalRewarded,    \* total_rewarded
  totalPrograms     \* total_programs

incentiveVars == <<programs, totalRewarded, totalPrograms>>

IncentivesInit ==
  /\ programs = [p \in ProgramId |-> NoProgram]
  /\ totalRewarded = 0 /\ totalPrograms = 0

HasProgram(p) == programs[p] # NoProgram

CreateProgram(p, budget, expiresAt) ==
  /\ budget > 0 /\ p.at = now /\ ~HasProgram(p)
  /\ programs' = [programs EXCEPT ![p] =
       [budget |-> budget, spent |-> 0, rewards |-> [h \in 0 .. MaxNow |-> 0],
        status |-> "Active", expiresAt |-> expiresAt]]
  /\ totalPrograms' = totalPrograms + 1
  /\ UNCHANGED totalRewarded

MayRun(p, caller) == HasProgram(p) /\ caller \in {p.admin, GlobalAdmin}

\* An expiry that is found stays, although the reward is refused.
AwardReward(p, amount, caller) ==
  /\ amount > 0 /\ MayRun(p, caller) /\ totalRewarded + amount <= MaxRewards
  /\ LET program ==
           IF now > programs[p].expiresAt THEN [programs[p] EXCEPT !.status = "Expired"]
           ELSE programs[p]
         spent == program.spent + amount
     IN
       IF program.status = "Active" /\ spent <= program.budget
       THEN /\ programs' = [programs EXCEPT ![p] =
                 [program EXCEPT !.spent = spent, !.rewards[now] = @ + amount,
                    !.status = IF spent = program.budget THEN "Exhausted" ELSE @]]
            /\ totalRewarded' = totalRewarded + amount
       ELSE programs' = [programs EXCEPT ![p] = program] /\ UNCHANGED totalRewarded
  /\ UNCHANGED totalPrograms

PauseProgram(p, caller) ==
  /\ MayRun(p, caller) /\ programs[p].status = "Active"
  /\ programs' = [programs EXCEPT ![p].status = "Paused"]
  /\ UNCHANGED <<totalRewarded, totalPrograms>>

ResumeProgram(p, caller) ==
  /\ MayRun(p, caller) /\ programs[p].status = "Paused"
  /\ programs' = [programs EXCEPT ![p].status = "Active"]
  /\ UNCHANGED <<totalRewarded, totalPrograms>>

\* An exhausted program stays exhausted.
ExpirePrograms ==
  /\ programs' = [p \in ProgramId |->
       IF HasProgram(p) /\ programs[p].expiresAt < now /\ programs[p].status # "Exhausted"
       THEN [programs[p] EXCEPT !.status = "Expired"] ELSE programs[p]]
  /\ UNCHANGED <<totalRewarded, totalPrograms>>

IncentivesNext ==
  \/ \E p \in ProgramId :
       \/ \E budget \in ProgramBudgets, expiresAt \in ProgramExpiries :
            CreateProgram(p, budget, expiresAt)
       \/ \E caller \in IncentiveCaller :
            \/ \E n \in RewardAmounts : AwardReward(p, n, caller)
            \/ PauseProgram(p, caller) \/ ResumeProgram(p, caller)
  \/ ExpirePrograms

----------------------------------------------------------------------------
(* Properties *)

\* Types of the manager's state.
IncentivesTypeOK ==
  /\ programs \in [ProgramId -> IncentiveProgram \cup {NoProgram}]
  /\ totalRewarded \in Nat /\ totalPrograms \in Nat

\* A program rewards its budget and no more, up to the height that it was made for, paused
\* and resumed or not, and the totals are those of the programs
\* (incentives/manager.rs:106, 125, 137, 175).
IncentivesKept ==
  LET made == {p \in ProgramId : HasProgram(p)} IN
  /\ \A p \in made :
       /\ programs[p].spent = SumOver(LAMBDA h : programs[p].rewards[h], 0 .. MaxNow)
       /\ programs[p].spent <= programs[p].budget
       /\ \A h \in 0 .. MaxNow : programs[p].rewards[h] > 0 => h <= programs[p].expiresAt
  /\ totalRewarded = SumOver(LAMBDA p : programs[p].spent, made)
  /\ totalPrograms = Cardinality(made)
=============================================================================
