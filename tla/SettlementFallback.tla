------------------------- MODULE SettlementFallback -------------------------
(***************************************************************************)
(* What happens when a user cannot cover a settlement                      *)
(* (settlement_fallback/manager.rs): the shortfall is charged to credits,  *)
(* settled in part, or deferred until a deadline.  A record's id takes in  *)
(* the number of records, so a record is its place in the list.            *)
(***************************************************************************)
EXTENDS Common, Sequences

CONSTANTS
  FallbackAmounts,       \* required and available amounts, credit balances
  MaxDeferBlocks,        \* max_defer_blocks
  AutoCreditThreshold,   \* auto_credit_threshold
  MaxShortfalls          \* bound of the exploration

ASSUME FallbackTyped ==
  FallbackAmounts \subseteq Nat /\ MaxDeferBlocks \in Nat /\ AutoCreditThreshold \in Nat

FallbackAction == {"CreditDeduction", "PartialSettlement", "DeferredSettlement"}

FallbackRecord ==
  [shortfall : Nat, action : FallbackAction, deadline : Nat, resolved : BOOLEAN,
   resolvedAt : Nat]

VARIABLES
  fallbackRecords,   \* records
  deferred,          \* deferred: the places of the records
  totalShortfall,    \* total_shortfall
  totalRecovered,    \* total_recovered
  expiredCharges            \* history: records that expire_deferred returned

fallbackVars == <<fallbackRecords, deferred, totalShortfall, totalRecovered, expiredCharges>>

FallbackInit ==
  /\ fallbackRecords = <<>> /\ deferred = {}
  /\ totalShortfall = 0 /\ totalRecovered = 0 /\ expiredCharges = {}

ActionFor(shortfall, available, credit) ==
  IF shortfall <= AutoCreditThreshold /\ credit >= shortfall THEN "CreditDeduction"
  ELSE IF available > 0 THEN "PartialSettlement" ELSE "DeferredSettlement"

HandleShortfall(required, available, credit) ==
  LET shortfall == Monus(required, available)
      action == ActionFor(shortfall, available, credit)
  IN
  /\ Len(fallbackRecords) < MaxShortfalls
  /\ fallbackRecords' = Append(fallbackRecords,
       [shortfall |-> shortfall, action |-> action, deadline |-> now + MaxDeferBlocks,
        resolved |-> FALSE, resolvedAt |-> 0])
  /\ totalShortfall' = totalShortfall + shortfall
  /\ deferred' = IF action = "DeferredSettlement"
                 THEN deferred \cup {Len(fallbackRecords) + 1} ELSE deferred
  /\ UNCHANGED <<totalRecovered, expiredCharges>>

IsDeferred(i) == fallbackRecords[i].action = "DeferredSettlement"

PastDeadline(i) == IsDeferred(i) /\ now > fallbackRecords[i].deadline

\* Mutant: an expired record can be resolved.
ResolveLate(i) ==
  /\ ~fallbackRecords[i].resolved
  /\ fallbackRecords' = [fallbackRecords EXCEPT ![i].resolved = TRUE, ![i].resolvedAt = now]
  /\ totalRecovered' = totalRecovered + fallbackRecords[i].shortfall
  /\ deferred' = deferred \ {i}
  /\ UNCHANGED <<totalShortfall, expiredCharges>>

ResolveDeferred(i) ==
  /\ ~fallbackRecords[i].resolved /\ ~PastDeadline(i)
  /\ fallbackRecords' = [fallbackRecords EXCEPT ![i].resolved = TRUE, ![i].resolvedAt = now]
  /\ totalRecovered' = totalRecovered + fallbackRecords[i].shortfall
  /\ deferred' = deferred \ {i}
  /\ UNCHANGED <<totalShortfall, expiredCharges>>

ExpireDeferred ==
  LET late == {i \in deferred : PastDeadline(i)} IN
  /\ late # {}
  /\ deferred' = deferred \ late
  /\ expiredCharges' = expiredCharges \cup late
  /\ UNCHANGED <<fallbackRecords, totalShortfall, totalRecovered>>

FallbackNext ==
  \/ \E required, available, credit \in FallbackAmounts :
       HandleShortfall(required, available, credit)
  \/ \E i \in DOMAIN fallbackRecords : ResolveDeferred(i)
  \/ ExpireDeferred

----------------------------------------------------------------------------
(* Properties *)

\* Types of the fallback manager's state.
FallbackTypeOK ==
  /\ fallbackRecords \in Seq(FallbackRecord)
  /\ deferred \subseteq DOMAIN fallbackRecords /\ expiredCharges \subseteq DOMAIN fallbackRecords
  /\ totalShortfall \in Nat /\ totalRecovered \in Nat

Shortfalls(places) == SumOver(LAMBDA i : fallbackRecords[i].shortfall, places)

\* A deferred charge is waiting, resolved in time or reported as expired, and only one of the
\* three; the totals are those of the records (settlement_fallback/manager.rs:172, 203).
ChargesAccounted ==
  LET resolved == {i \in DOMAIN fallbackRecords : fallbackRecords[i].resolved} IN
  /\ {i \in DOMAIN fallbackRecords : IsDeferred(i)} \ resolved = deferred \cup expiredCharges
  /\ deferred \cap expiredCharges = {} /\ expiredCharges \cap resolved = {}
  /\ \A i \in resolved :
       IsDeferred(i) => fallbackRecords[i].resolvedAt <= fallbackRecords[i].deadline
  /\ totalShortfall = Shortfalls(DOMAIN fallbackRecords)
  /\ totalRecovered = Shortfalls(resolved)
=============================================================================
