---------------------------- MODULE TokenSupply ----------------------------
(***************************************************************************)
(* The supply of the native token (token.rs) and the genesis allocations   *)
(* that vest over time (genesis/).  A configuration that the validation    *)
(* accepts is started with, and its tokens are released as they vest.      *)
(* SupplyModulus stands for 2^128: additions to the supply that reach it   *)
(* are errors, the sum of a configuration's allocations wraps, and the     *)
(* product of an allocation and its time saturates.  What a configuration  *)
(* allocates at once only leaves less to vest.                             *)
(***************************************************************************)
EXTENDS Common

CONSTANTS
  TokenParty, TokenAdmin,      \* addresses, and the admin among them
  TokenAmounts,                \* what callers mint and burn
  InitialSupply, SupplyModulus,
  Beneficiary, NoSchedule,     \* who schedules are for, and a missing one
  VestingSchedules,            \* [total, start, cliff, end] of configurations
  MaxTokenCalls                \* bound of the exploration: mints and burns

ASSUME SupplyTyped ==
  /\ TokenAdmin \in TokenParty /\ TokenAmounts \subseteq Nat
  /\ IsFiniteSet(Beneficiary) /\ NoSchedule \notin VestingSchedules
  /\ SupplyModulus \in Nat /\ InitialSupply \in 0 .. SupplyModulus - 1
  /\ \A s \in VestingSchedules : {s.total, s.start, s.cliff, s.end} \subseteq Nat

VARIABLES
  totalSupply, totalMinted, totalBurned,   \* fields of TokenState
  minters, burners,                        \* authorized_minters, authorized_burners
  schedules,                               \* vesting_schedules by beneficiary
  released                                 \* released, by beneficiary

\* History: what burns took off the supply before they failed, and the calls.
VARIABLES burnedByFailure, tokenCalls

tokenVars ==
  <<totalSupply, totalMinted, totalBurned, minters, burners, burnedByFailure, tokenCalls>>
vestingVars == <<schedules, released>>
supplyVars == <<tokenVars, vestingVars>>

SupplyInit ==
  /\ totalSupply = InitialSupply /\ totalMinted = 0 /\ totalBurned = 0
  /\ minters = {} /\ burners = {}
  /\ burnedByFailure = 0 /\ tokenCalls = 0
  /\ schedules = [b \in Beneficiary |-> NoSchedule] /\ released = [b \in Beneficiary |-> 0]

----------------------------------------------------------------------------
(* Minting and burning *)

Mint(amount, minter) ==
  /\ amount > 0 /\ minter \in minters /\ tokenCalls < MaxTokenCalls
  /\ totalSupply + amount < SupplyModulus /\ totalMinted + amount < SupplyModulus
  /\ totalSupply' = totalSupply + amount
  /\ totalMinted' = totalMinted + amount
  /\ tokenCalls' = tokenCalls + 1
  /\ UNCHANGED <<totalBurned, minters, burners, burnedByFailure>>

\* The supply is lowered before the sum of all burns is checked.
Burn(amount, burner) ==
  /\ amount > 0 /\ burner \in burners /\ totalSupply >= amount /\ tokenCalls < MaxTokenCalls
  /\ totalSupply' = totalSupply - amount
  /\ IF totalBurned + amount < SupplyModulus
     THEN totalBurned' = totalBurned + amount /\ UNCHANGED burnedByFailure
     ELSE burnedByFailure' = burnedByFailure + amount /\ UNCHANGED totalBurned
  /\ tokenCalls' = tokenCalls + 1
  /\ UNCHANGED <<totalMinted, minters, burners>>

AuthorizeMinter(a, caller) ==
  /\ caller = TokenAdmin /\ minters' = minters \cup {a}
  /\ UNCHANGED <<totalSupply, totalMinted, totalBurned, burners, burnedByFailure, tokenCalls>>

RevokeMinter(a, caller) ==
  /\ caller = TokenAdmin /\ minters' = minters \ {a}
  /\ UNCHANGED <<totalSupply, totalMinted, totalBurned, burners, burnedByFailure, tokenCalls>>

AuthorizeBurner(a, caller) ==
  /\ caller = TokenAdmin /\ burners' = burners \cup {a}
  /\ UNCHANGED <<totalSupply, totalMinted, totalBurned, minters, burnedByFailure, tokenCalls>>

RevokeBurner(a, caller) ==
  /\ caller = TokenAdmin /\ burners' = burners \ {a}
  /\ UNCHANGED <<totalSupply, totalMinted, totalBurned, minters, burnedByFailure, tokenCalls>>

----------------------------------------------------------------------------
(* Vesting *)

Scheduled == {b \in Beneficiary : schedules[b] # NoSchedule}

\* What all schedules add up to; the code has it modulo its width.
Allocated == SumOver(LAMBDA b : schedules[b].total, Scheduled)

\* validate: one schedule per beneficiary, no more than there is.
StartVesting(config) ==
  /\ now = 0 /\ Scheduled = {}
  /\ schedules' = config
  /\ \A b \in Scheduled' : config[b].total > 0 /\ config[b].cliff <= config[b].end
  /\ Allocated' % SupplyModulus <= InitialSupply
  /\ UNCHANGED released

VestingStart(s) == Max({s.start, s.cliff})

\* vested_amount
Vested(s, height) ==
  IF height < s.cliff THEN 0
  ELSE IF height >= s.end \/ s.end <= VestingStart(s) THEN s.total
  ELSE Smaller(SupplyModulus - 1, s.total * Monus(height, VestingStart(s)))
         \div (s.end - VestingStart(s))

Releasable(b, height) == Monus(Vested(schedules[b], height), released[b])

\* Mutant: what has vested is released again.
ReleaseVested(b) ==
  /\ b \in Scheduled
  /\ released' = [released EXCEPT ![b] = @ + Vested(schedules[b], now)]
  /\ UNCHANGED schedules

Release(b) ==
  /\ b \in Scheduled
  /\ released' = [released EXCEPT ![b] = @ + Releasable(b, now)]
  /\ UNCHANGED schedules

TokenNext ==
  \E a, caller \in TokenParty :
    \/ \E n \in TokenAmounts : Mint(n, a) \/ Burn(n, a)
    \/ AuthorizeMinter(a, caller) \/ RevokeMinter(a, caller)
    \/ AuthorizeBurner(a, caller) \/ RevokeBurner(a, caller)

VestingNext ==
  \/ \E config \in [Beneficiary -> VestingSchedules \cup {NoSchedule}] : StartVesting(config)
  \/ \E b \in Beneficiary : Release(b)

----------------------------------------------------------------------------
(* Properties *)

\* Types of the supply's state.
SupplyTypeOK ==
  /\ {totalSupply, totalMinted, totalBurned} \subseteq 0 .. SupplyModulus - 1
  /\ {burnedByFailure, tokenCalls} \subseteq Nat
  /\ minters \subseteq TokenParty /\ burners \subseteq TokenParty
  /\ schedules \in [Beneficiary -> VestingSchedules \cup {NoSchedule}]
  /\ released \in [Beneficiary -> Nat]

\* The supply is the initial one, with what was minted and without what was burned, as
\* token.rs:78 says, until a burn fails at its last check: then it is less, and never more.
\* Whoever asks and whenever, no more is released than has vested, and all schedules together
\* release at most the supply if their sum fits (token.rs:176, genesis/config.rs:209,
\* genesis/vesting.rs:61).
SupplyAccounted ==
  /\ burnedByFailure = 0 => totalSupply + totalBurned = InitialSupply + totalMinted
  /\ totalSupply + totalBurned <= InitialSupply + totalMinted
  /\ \A b \in Scheduled : released[b] <= Vested(schedules[b], now)
  /\ Allocated < SupplyModulus => SumOver(LAMBDA b : released[b], Scheduled) <= InitialSupply
=============================================================================
