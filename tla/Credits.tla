------------------------------ MODULE Credits ------------------------------
(***************************************************************************)
(* The credit system (credits/system.rs): accounts, purchases, spending    *)
(* and grants.  Each operation is one &mut self call.                      *)
(*                                                                         *)
(* Amounts are u128.  A purchase whose product overflows yields the        *)
(* largest amount, and adding credits is unchecked, so in the release      *)
(* build it wraps.  CreditModulus stands for 2^128.  Left out: the height  *)
(* of the last top-up, which decides nothing.                              *)
(***************************************************************************)
EXTENDS Common, Sequences

CONSTANTS
  CreditHolder, CreditAdmin,    \* addresses, and the one that is the admin
  NoAccount,                    \* a missing map entry
  IsaAmounts, CreditIsaPrices,  \* what callers of purchase_credits pass
  InitialCreditPrice,           \* credit_price_usd of new
  CreditPrices,                 \* credit prices that the admin sets
  CreditAmounts,                \* what is spent and granted
  MinPurchase, CreditModulus,
  MaxCreditCalls                \* bound of the exploration: purchases and grants

CreditAccount == [balance : Nat, purchased : Nat, spent : Nat]

ASSUME CreditsTyped ==
  /\ IsFiniteSet(CreditHolder)
  /\ CreditAdmin \in CreditHolder /\ NoAccount \notin CreditAccount
  /\ CreditModulus \in Nat \ {0}
  /\ MinPurchase \in Nat /\ InitialCreditPrice \in Nat /\ CreditPrices \subseteq Nat
  /\ IsaAmounts \cup CreditIsaPrices \cup CreditAmounts \subseteq 0 .. CreditModulus - 1

VARIABLES
  creditAccounts,       \* accounts
  creditPrice,          \* credit_price_usd
  creditsIssued,        \* total_credits_issued
  creditsBurned,        \* total_credits_burned
  creditCalls           \* history: purchases and grants

creditVars == <<creditAccounts, creditPrice, creditsIssued, creditsBurned, creditCalls>>

CreditsInit ==
  /\ creditAccounts = [a \in CreditHolder |-> NoAccount]
  /\ creditPrice = InitialCreditPrice
  /\ creditsIssued = 0 /\ creditsBurned = 0 /\ creditCalls = 0

Wrap(n) == n % CreditModulus

CreditBalance(a) == IF creditAccounts[a] = NoAccount THEN 0 ELSE creditAccounts[a].balance

\* get_credits_for_isa; the initial price may be 0.
CreditsForIsa(isa, price) ==
  IF creditPrice = 0 THEN 0
  ELSE IF isa * price >= CreditModulus THEN CreditModulus - 1
  ELSE (isa * price) \div creditPrice

\* What purchase_credits and grant_credits share.
TopUpAccount(a, credits) ==
  /\ creditAccounts' = [creditAccounts EXCEPT ![a] =
       LET old == IF @ = NoAccount THEN [balance |-> 0, purchased |-> 0, spent |-> 0] ELSE @
       IN [old EXCEPT !.balance = Wrap(@ + credits), !.purchased = Wrap(@ + credits)]]
  /\ creditsIssued' = Wrap(creditsIssued + credits)

PurchaseCredits(a, isa, price) ==
  /\ isa > 0 /\ creditCalls < MaxCreditCalls
  /\ CreditsForIsa(isa, price) >= MinPurchase
  /\ TopUpAccount(a, CreditsForIsa(isa, price))
  /\ creditCalls' = creditCalls + 1
  /\ UNCHANGED <<creditPrice, creditsBurned>>

SpendCredits(a, credits) ==
  /\ creditAccounts[a] # NoAccount /\ creditAccounts[a].balance >= credits
  /\ creditAccounts' = [creditAccounts EXCEPT
       ![a].balance = @ - credits, ![a].spent = Wrap(@ + credits)]
  /\ creditsBurned' = Wrap(creditsBurned + credits)
  /\ UNCHANGED <<creditPrice, creditsIssued, creditCalls>>

SetCreditPrice(price, caller) ==
  /\ caller = CreditAdmin /\ price > 0
  /\ creditPrice' = price
  /\ UNCHANGED <<creditAccounts, creditsIssued, creditsBurned, creditCalls>>

GrantCredits(a, credits, caller) ==
  /\ caller = CreditAdmin /\ credits > 0 /\ creditCalls < MaxCreditCalls
  /\ TopUpAccount(a, credits)
  /\ creditCalls' = creditCalls + 1
  /\ UNCHANGED <<creditPrice, creditsBurned>>

CreditsNext ==
  \/ \E a \in CreditHolder, isa \in IsaAmounts, price \in CreditIsaPrices :
       PurchaseCredits(a, isa, price)
  \/ \E a, caller \in CreditHolder, credits \in CreditAmounts :
       SpendCredits(a, credits) \/ GrantCredits(a, credits, caller)
  \/ \E price \in CreditPrices, caller \in CreditHolder : SetCreditPrice(price, caller)

----------------------------------------------------------------------------
(* Properties *)

\* Types of the credit system's state.
CreditsTypeOK ==
  /\ creditAccounts \in [CreditHolder -> CreditAccount \cup {NoAccount}]
  /\ creditPrice \in Nat /\ creditCalls \in Nat
  /\ {creditsIssued, creditsBurned} \subseteq 0 .. CreditModulus - 1

\* What was issued and not burned is in the accounts, and in each of them what was
\* purchased and not spent: up to multiples of 2^128 also after an overflow
\* (credits/system.rs:103, 127).
CreditsAccounted ==
  /\ Wrap(SumOver(CreditBalance, CreditHolder) + creditsBurned) = creditsIssued
  /\ \A a \in CreditHolder : creditAccounts[a] # NoAccount =>
       Wrap(creditAccounts[a].balance + creditAccounts[a].spent) = creditAccounts[a].purchased

----------------------------------------------------------------------------
(***************************************************************************)
(* Events between the chain and the credits outside it                     *)
(* (credit_bridge/bridge.rs).  An event's id takes in the number of        *)
(* events, so an event is its place in the list.  Left out: users,         *)
(* directions and the index by user, which decide nothing.                 *)
(***************************************************************************)

CONSTANTS
  EventAmounts,      \* amounts that callers pass
  MaxBridgeEvents    \* bound of the exploration

BridgeEventType == {"CreditPurchase", "CreditRedemption"}   \* the others are never created

BridgeEventStatus == {"Initiated", "Completed", "Failed"}   \* the others are never set

CreditBridgeEvent ==
  [type : BridgeEventType, credit : Nat, isa : Nat, status : BridgeEventStatus]

ASSUME CreditBridgeTyped == EventAmounts \subseteq Nat

VARIABLES
  bridgeEvents,          \* events
  pendingCount,          \* pending_count
  creditsBridged,        \* total_credits_bridged
  isaBridged             \* total_isa_bridged

creditBridgeVars == <<bridgeEvents, pendingCount, creditsBridged, isaBridged>>

CreditBridgeInit ==
  bridgeEvents = <<>> /\ pendingCount = 0 /\ creditsBridged = 0 /\ isaBridged = 0

\* initiate_purchase and initiate_redemption, which both call initiate_event.
InitiateEvent(type, credit, isa) ==
  /\ credit > 0 /\ isa > 0 /\ Len(bridgeEvents) < MaxBridgeEvents
  /\ bridgeEvents' = Append(bridgeEvents,
       [type |-> type, credit |-> credit, isa |-> isa, status |-> "Initiated"])
  /\ pendingCount' = pendingCount + 1
  /\ UNCHANGED <<creditsBridged, isaBridged>>

\* Ends an event that has not ended.
EndEvent(i, status) ==
  /\ bridgeEvents[i].status = "Initiated"
  /\ bridgeEvents' = [bridgeEvents EXCEPT ![i].status = status]
  /\ pendingCount' = Monus(pendingCount, 1)

CompleteEvent(i) ==
  /\ EndEvent(i, "Completed")
  /\ creditsBridged' = creditsBridged + bridgeEvents[i].credit
  /\ isaBridged' = isaBridged + bridgeEvents[i].isa

FailEvent(i) == EndEvent(i, "Failed") /\ UNCHANGED <<creditsBridged, isaBridged>>

CreditBridgeNext ==
  \/ \E type \in BridgeEventType, credit, isa \in EventAmounts : InitiateEvent(type, credit, isa)
  \/ \E i \in DOMAIN bridgeEvents : CompleteEvent(i) \/ FailEvent(i)

----------------------------------------------------------------------------
(* Properties *)

\* Types of the credit bridge's state.
CreditBridgeTypeOK ==
  /\ bridgeEvents \in Seq(CreditBridgeEvent)
  /\ pendingCount \in Nat /\ creditsBridged \in Nat /\ isaBridged \in Nat

EventsIn(status) == {i \in DOMAIN bridgeEvents : bridgeEvents[i].status = status}

\* The count and the totals are those of the events (credit_bridge/bridge.rs:141).
EventsAccounted ==
  /\ pendingCount = Cardinality(EventsIn("Initiated"))
  /\ creditsBridged = SumOver(LAMBDA i : bridgeEvents[i].credit, EventsIn("Completed"))
  /\ isaBridged = SumOver(LAMBDA i : bridgeEvents[i].isa, EventsIn("Completed"))
=============================================================================
