------------------------------ MODULE MCChain ------------------------------
(* Instances of Chain for TLC. *)
EXTENDS Chain

CONSTANTS a, b    \* two wallets

MCAddress == {a, b, Zero, Faucet}

Tx(from, nonce, kind, to, amount, gasPrice) ==
  [from |-> from, nonce |-> nonce, kind |-> kind, user |-> from, to |-> to,
   amount |-> amount, charge |-> IF kind = "Settlement" THEN 1 ELSE 0,
   gasLimit |-> 1, gasPrice |-> gasPrice]

\* Transactions of every kind that moves tokens.  The stake costs more than its fee, a
\* transfer whose cost wraps to 1 competes for the nonce of b's first one, a settlement is signed
\* by the user it charges, and the unstake is not above its fee: no balance wraps below zero.
WalletTransactions ==
  {Tx(a, 0, "Transfer", b, 4, 1), Tx(a, 1, "Settlement", b, 2, 2), Tx(a, 2, "Stake", a, 3, 1),
   Tx(b, 0, "CreditPurchase", b, 1, 1), Tx(b, 0, "Transfer", a, 63, 2),
   Tx(b, 1, "Unstake", b, 1, 2)}

\* Two transfers that compete for one nonce and one balance, and a credit spend.
CompetingTransactions ==
  {Tx(a, 0, "Transfer", b, 3, 1), Tx(a, 0, "Transfer", b, 2, 2), Tx(a, 1, "CreditSpend", a, 0, 1),
   Tx(b, 0, "Transfer", a, 1, 1)}

FaucetOnly == {Faucet}
=============================================================================
