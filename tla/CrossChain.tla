----------------------------- MODULE CrossChain -----------------------------
(***************************************************************************)
(* Transfers to other chains (cross_chain/bridge.rs).  A transfer is       *)
(* locked until a relayer confirms or refunds it.  An id takes in the      *)
(* number of transfers, so a transfer is its place in the list.            *)
(*                                                                         *)
(* Left out: the form of the recipient's address, and the index by sender. *)
(***************************************************************************)
EXTENDS Common, Sequences

CONSTANTS
  BridgeUser,                  \* addresses
  BridgeAdmin,                 \* the one among them
  DestChain,                   \* chains that callers name
  HomeChain,                   \* ISAChain, supported from the start
  BridgeAmounts,               \* amounts that callers pass
  BridgeFee(_),                \* calculate_fee
  MinTransfer, MaxTransfer,    \* parameters of the bridge
  MaxTransfers                 \* bound of the exploration

TransferStatus == {"Locked", "Completed", "Refunded"}   \* Pending and Minting are never set

CrossChainTransfer == [amount : BridgeAmounts, status : TransferStatus]

ASSUME BridgeTyped ==
  /\ \A n \in BridgeAmounts : n \in Nat /\ BridgeFee(n) \in 0 .. n
  /\ BridgeAdmin \in BridgeUser /\ HomeChain \in DestChain
  /\ MinTransfer \in Nat \ {0} /\ MaxTransfer \in Nat

VARIABLES
  transfers,           \* CrossChainTransfer by place
  supportedChains,     \* supported_chains
  relayers,            \* relayers
  totalLocked,         \* total_locked
  totalTransferred     \* total_transferred

\* History: what refund_transfer returned, and the fees that stayed with the bridge.
VARIABLES bridgeRefunded, bridgeFees

bridgeHistory == <<bridgeRefunded, bridgeFees>>
bridgeVars ==
  <<transfers, supportedChains, relayers, totalLocked, totalTransferred, bridgeHistory>>

CrossChainInit ==
  /\ transfers = <<>>
  /\ supportedChains = {HomeChain} /\ relayers = {}
  /\ totalLocked = 0 /\ totalTransferred = 0
  /\ bridgeRefunded = 0 /\ bridgeFees = 0

AddSupportedChain(chain) ==
  /\ supportedChains' = supportedChains \cup {chain}
  /\ UNCHANGED <<transfers, relayers, totalLocked, totalTransferred, bridgeHistory>>

AddRelayer(address, caller) ==
  /\ caller = BridgeAdmin
  /\ relayers' = relayers \cup {address}
  /\ UNCHANGED <<transfers, supportedChains, totalLocked, totalTransferred, bridgeHistory>>

InitiateTransfer(amount, chain) ==
  /\ Len(transfers) < MaxTransfers
  /\ chain \in supportedChains
  /\ MinTransfer <= amount /\ amount <= MaxTransfer
  /\ transfers' = Append(transfers, [amount |-> amount, status |-> "Locked"])
  /\ totalLocked' = totalLocked + amount
  /\ UNCHANGED <<supportedChains, relayers, totalTransferred, bridgeHistory>>

\* Mutant: a confirmation releases only what arrives on the other chain.
ConfirmNet(i, relayer) ==
  /\ relayer \in relayers /\ transfers[i].status = "Locked"
  /\ LET gross == transfers[i].amount  fee == BridgeFee(gross) IN
       /\ transfers' = [transfers EXCEPT ![i].status = "Completed"]
       /\ totalLocked' = Monus(totalLocked, gross - fee)
       /\ totalTransferred' = totalTransferred + (gross - fee)
       /\ bridgeFees' = bridgeFees + fee
  /\ UNCHANGED <<supportedChains, relayers, bridgeRefunded>>

ConfirmTransfer(i, relayer) ==
  /\ relayer \in relayers /\ transfers[i].status = "Locked"
  /\ LET gross == transfers[i].amount  fee == BridgeFee(gross) IN
       /\ transfers' = [transfers EXCEPT ![i].status = "Completed"]
       /\ totalLocked' = Monus(totalLocked, gross)
       /\ totalTransferred' = totalTransferred + (gross - fee)
       /\ bridgeFees' = bridgeFees + fee
  /\ UNCHANGED <<supportedChains, relayers, bridgeRefunded>>

RefundTransfer(i, relayer) ==
  /\ relayer \in relayers /\ transfers[i].status = "Locked"
  /\ LET gross == transfers[i].amount  fee == BridgeFee(gross) IN
       /\ transfers' = [transfers EXCEPT ![i].status = "Refunded"]
       /\ totalLocked' = Monus(totalLocked, gross)
       /\ bridgeRefunded' = bridgeRefunded + (gross - fee)
       /\ bridgeFees' = bridgeFees + fee
  /\ UNCHANGED <<supportedChains, relayers, totalTransferred>>

CrossChainNext ==
  \/ \E chain \in DestChain :
       AddSupportedChain(chain) \/ \E n \in BridgeAmounts : InitiateTransfer(n, chain)
  \/ \E u, v \in BridgeUser : AddRelayer(u, v)
  \/ \E i \in DOMAIN transfers, u \in BridgeUser : ConfirmTransfer(i, u) \/ RefundTransfer(i, u)

----------------------------------------------------------------------------
(* Properties *)

\* Types of the bridge's state.
CrossChainTypeOK ==
  /\ transfers \in Seq(CrossChainTransfer)
  /\ supportedChains \subseteq DestChain /\ relayers \subseteq BridgeUser
  /\ totalLocked \in Nat /\ totalTransferred \in Nat
  /\ bridgeRefunded \in Nat /\ bridgeFees \in Nat

TransferLocked(i) == IF transfers[i].status = "Locked" THEN transfers[i].amount ELSE 0

\* The bridge has locked what the open transfers hold, and what went in is locked, on
\* the other chain, refunded or a fee (cross_chain/bridge.rs:162, 202, 236).
BridgeAccounted ==
  /\ totalLocked = SumOver(TransferLocked, DOMAIN transfers)
  /\ SumOver(LAMBDA i : transfers[i].amount, DOMAIN transfers)
       = totalLocked + totalTransferred + bridgeRefunded + bridgeFees
=============================================================================
