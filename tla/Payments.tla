------------------------------ MODULE Payments ------------------------------
(***************************************************************************)
(* Payment channels and the batches that settle them.  The two managers    *)
(* share the ids of channels and no state: the processor takes what its    *)
(* caller says about a channel.  As they share no state, each behavior     *)
(* moves one of them, which part picks at the start.                       *)
(***************************************************************************)
EXTENDS PaymentChannels

CONSTANTS Amounts, MaxBatchSize, MaxBatches, MaxProcessed

VARIABLES batches, settledChannels, totalSettled, totalBatchesProcessed, overlap, repeat

VARIABLE part    \* the manager that moves

ASSUME BatchInputsTyped == Amounts \subseteq Nat /\ MaxBatchSize \in Nat

Settlement == INSTANCE BatchSettlement WITH Channel <- ChannelId

settlementVars ==
  <<batches, settledChannels, totalSettled, totalBatchesProcessed, overlap, repeat>>

PaymentsInit == Init /\ Settlement!Init /\ part \in {"channels", "settlement"}

PaymentsNext ==
  \/ part = "channels" /\ Next /\ UNCHANGED <<settlementVars, part>>
  \/ part = "settlement" /\ Settlement!Next /\ UNCHANGED <<vars, part>>

PaymentsSpec == PaymentsInit /\ [][PaymentsNext]_<<vars, settlementVars, part>>

\* Types of both managers' state.
PaymentsTypeOK == TypeOK /\ Settlement!TypeOK

\* Without repeated processing and overlapping pending batches, a channel is settled once
\* (batch_settlement/processor.rs:114).
SettledOnceInOrder == Settlement!SettledOnceInOrder

\* "Double-settlement is prevented via settled_channels" (batch_settlement/processor.rs:13).
DoubleSettlementPrevented == Settlement!DoubleSettlementPrevented
=============================================================================
