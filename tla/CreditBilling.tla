--------------------------- MODULE CreditBilling ---------------------------
(***************************************************************************)
(* Charges in credits for services (credit_billing/engine.rs), limited to  *)
(* a number of requests per user, service and period.  The balance is what *)
(* the caller says; a charge does not lower it.  Left out: the indexes,    *)
(* which decide nothing, and descriptions and timestamps.                  *)
(***************************************************************************)
EXTENDS Common, Sequences

CONSTANTS
  BilledUser, BilledService,
  NoWindow,                              \* a missing entry of rate_limits
  Charges, BilledBalances,               \* what callers pass
  MaxRequests, BillingPeriod,            \* parameters of the engine
  MaxCharges                             \* bound of the exploration

RateWindow == [count : Nat, start : Nat]

ASSUME BillingTyped ==
  /\ NoWindow \notin RateWindow /\ Charges \cup BilledBalances \subseteq Nat
  /\ MaxRequests \in Nat /\ BillingPeriod \in Nat

VARIABLES
  billingRecords,      \* records
  userTotals,          \* user_totals
  serviceTotals,       \* service_totals: credits and requests
  enabledServices,     \* enabled_services
  rateLimits           \* rate_limits by user and service

billingVars == <<billingRecords, userTotals, serviceTotals, enabledServices, rateLimits>>

Usage == BilledUser \X BilledService

BillingInit ==
  /\ billingRecords = <<>>
  /\ userTotals = [u \in BilledUser |-> 0]
  /\ serviceTotals = [s \in BilledService |-> [credits |-> 0, requests |-> 0]]
  /\ enabledServices = {}
  /\ rateLimits = [k \in Usage |-> NoWindow]

EnableService(s) ==
  /\ enabledServices' = enabledServices \cup {s}
  /\ UNCHANGED <<billingRecords, userTotals, serviceTotals, rateLimits>>

DisableService(s) ==
  /\ enabledServices' = enabledServices \ {s}
  /\ UNCHANGED <<billingRecords, userTotals, serviceTotals, rateLimits>>

WindowOver(k) == now >= rateLimits[k].start + BillingPeriod

\* check_rate_limit: a user without history and a window that is over are always within.
WithinRate(k) ==
  rateLimits[k] # NoWindow => WindowOver(k) \/ rateLimits[k].count < MaxRequests

\* The window after one more request.
CountedWindow(k) ==
  IF rateLimits[k] = NoWindow \/ WindowOver(k) THEN [count |-> 1, start |-> now]
  ELSE [rateLimits[k] EXCEPT !.count = @ + 1]

Charge(user, service, credits, balance) ==
  /\ credits > 0 /\ service \in enabledServices /\ WithinRate(<<user, service>>)
  /\ balance >= credits
  /\ Len(billingRecords) < MaxCharges
  /\ rateLimits' = [rateLimits EXCEPT ![<<user, service>>] = CountedWindow(<<user, service>>)]
  /\ billingRecords' = Append(billingRecords,
       [user |-> user, service |-> service, credits |-> credits, height |-> now])
  /\ userTotals' = [userTotals EXCEPT ![user] = @ + credits]
  /\ serviceTotals' = [serviceTotals EXCEPT
       ![service] = [credits |-> @.credits + credits, requests |-> @.requests + 1]]
  /\ UNCHANGED enabledServices

BillingNext ==
  \E service \in BilledService :
    \/ EnableService(service) \/ DisableService(service)
    \/ \E user \in BilledUser, credits \in Charges, balance \in BilledBalances :
         Charge(user, service, credits, balance)

----------------------------------------------------------------------------
(* Properties *)

\* Types of the engine's state.
BillingTypeOK ==
  /\ billingRecords \in
       Seq([user : BilledUser, service : BilledService, credits : Nat, height : Nat])
  /\ userTotals \in [BilledUser -> Nat]
  /\ serviceTotals \in [BilledService -> [credits : Nat, requests : Nat]]
  /\ enabledServices \subseteq BilledService
  /\ rateLimits \in [Usage -> RateWindow \cup {NoWindow}]

\* Both totals are those of the records, and a user's requests to a service within any
\* stretch as long as the period, which overlaps with two windows, are at most twice the
\* maximum, the first of a window being free (credit_billing/engine.rs:125, 240).
BillingAccounted ==
  LET credits(R) == SumOver(LAMBDA i : billingRecords[i].credits, R)
      of(u, s) == {i \in DOMAIN billingRecords :
                     billingRecords[i].user \in u /\ billingRecords[i].service \in s}
  IN
  /\ \A u \in BilledUser : userTotals[u] = credits(of({u}, BilledService))
  /\ \A s \in BilledService :
       serviceTotals[s] = [credits |-> credits(of(BilledUser, {s})),
                           requests |-> Cardinality(of(BilledUser, {s}))]
  /\ \A u \in BilledUser, s \in BilledService, h \in 0 .. MaxNow :
       Cardinality({i \in of({u}, {s}) : billingRecords[i].height \in h .. h + BillingPeriod - 1})
         <= 2 * (IF MaxRequests = 0 THEN 1 ELSE MaxRequests)
=============================================================================
