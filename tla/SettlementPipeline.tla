------------------------- MODULE SettlementPipeline -------------------------
(***************************************************************************)
(* From billing events to settlement proofs: SettlementBridge deduplicates *)
(* and queues events and settles them in batches through a                 *)
(* SettlementEngine made for the batch; the caller records a proof for     *)
(* each settlement in the ProofStore.                                      *)
(*                                                                         *)
(* A settlement's id is a hash of its parties, amount, height, timestamp   *)
(* and place in the engine, so here it is these.  The engine refuses what  *)
(* ingest_event has refused already, so no event of a batch fails: the     *)
(* list of failed events stays empty and retry_failed finds nothing.       *)
(* should_batch is a query that create_batch does not ask.                 *)
(***************************************************************************)
EXTENDS Common, Sequences, Functions

CONSTANTS
  BillingEvent,            \* [id, user, provider, amount]
  Timestamps,              \* timestamps that callers pass
  DedupWindow,             \* dedup_window
  SettlementFee(_),        \* calculate_split: the fee, by the gross amount
  ConfirmationsRequired, FinalizationDepth,   \* parameters of ProofStore
  MaxIngested              \* bounds of the exploration

ProofStatus == {"Pending", "Confirmed", "Finalized"}   \* Failed is never set

ASSUME SettlementTyped ==
  /\ \A e \in BillingEvent : e.amount \in Nat /\ SettlementFee(e.amount) \in 0 .. e.amount
  /\ DedupWindow \in Nat
  /\ ConfirmationsRequired \in Nat /\ FinalizationDepth \in Nat

VARIABLES
  eventQueue,          \* event_queue
  dedupOrder,          \* dedup_order; processed_events is its range
  totalSettled,        \* total_settled of the bridge
  totalFees,           \* total_fees, of all engines together
  eventsProcessed,     \* events_processed
  batchesCreated,      \* batches_created
  lastBatchHeight,     \* last_batch_height
  proofs               \* ProofStore.proofs, with both indexes: one entry per proof

\* History.
VARIABLES
  ingested,            \* events that ingest_event took, in order
  settlements,         \* records that create_batch returned, with their events and batches
  flushed              \* events that flush_queue took out

pipelineTotals == <<totalSettled, totalFees, eventsProcessed, batchesCreated, lastBatchHeight>>
pipelineVars == <<eventQueue, dedupOrder, pipelineTotals, proofs, ingested, settlements, flushed>>

PipelineInit ==
  /\ eventQueue = <<>> /\ dedupOrder = <<>>
  /\ totalSettled = 0 /\ totalFees = 0
  /\ eventsProcessed = 0 /\ batchesCreated = 0 /\ lastBatchHeight = 0
  /\ proofs = {}
  /\ ingested = <<>> /\ settlements = {} /\ flushed = <<>>

\* The newest ids, as many as the window has room for.
LastIds(ids) ==
  IF Len(ids) > DedupWindow THEN SubSeq(ids, Len(ids) - DedupWindow + 1, Len(ids)) ELSE ids

IngestEvent(e) ==
  /\ Len(ingested) < MaxIngested
  /\ e.amount > 0 /\ e.user # e.provider
  /\ e.id \notin Range(dedupOrder)
  /\ dedupOrder' = LastIds(Append(dedupOrder, e.id))
  /\ eventQueue' = Append(eventQueue, e)
  /\ ingested' = Append(ingested, e.id)
  /\ UNCHANGED <<pipelineTotals, proofs, settlements, flushed>>

\* The id of the settlement at a place of the engine that settle gives it.
SettlementId(e, timestamp, index) ==
  [user |-> e.user, provider |-> e.provider, amount |-> e.amount,
   height |-> now, timestamp |-> timestamp, index |-> index]

\* What settle of the batch's engine returns for an event.
Settled(e, timestamp, index) ==
  [batch |-> batchesCreated, event |-> e.id, id |-> SettlementId(e, timestamp, index)]

CreateBatch(timestamp) ==
  /\ eventQueue # <<>>
  /\ settlements' = settlements \cup
       {Settled(eventQueue[i], timestamp, i) : i \in DOMAIN eventQueue}
  /\ LET Sum(f(_)) == SumOver(LAMBDA i : f(eventQueue[i].amount), DOMAIN eventQueue) IN
       /\ totalSettled' = totalSettled + Sum(LAMBDA n : n)
       /\ totalFees' = totalFees + Sum(SettlementFee)
  /\ eventsProcessed' = eventsProcessed + Len(eventQueue)
  /\ batchesCreated' = batchesCreated + 1
  /\ lastBatchHeight' = now
  /\ eventQueue' = <<>>
  /\ UNCHANGED <<dedupOrder, proofs, ingested, flushed>>

FlushQueue ==
  /\ eventQueue # <<>>
  /\ flushed' = flushed \o eventQueue
  /\ eventQueue' = <<>>
  /\ UNCHANGED <<dedupOrder, pipelineTotals, proofs, ingested, settlements>>

RecordProof(s) ==
  /\ \A p \in proofs : p.settlement # s.id /\ p.event # s.event
  /\ proofs' = proofs \cup
       {[settlement |-> s.id, event |-> s.event, at |-> now, status |-> "Pending"]}
  /\ UNCHANGED <<eventQueue, dedupOrder, pipelineTotals, ingested, settlements, flushed>>

ProofStatusAt(confirmations) ==
  IF confirmations >= FinalizationDepth THEN "Finalized"
  ELSE IF confirmations >= ConfirmationsRequired THEN "Confirmed" ELSE "Pending"

UpdateConfirmations(p) ==
  /\ proofs' = (proofs \ {p}) \cup {[p EXCEPT !.status = ProofStatusAt(now - p.at)]}
  /\ UNCHANGED <<eventQueue, dedupOrder, pipelineTotals, ingested, settlements, flushed>>

PipelineNext ==
  \/ \E e \in BillingEvent : IngestEvent(e)
  \/ \E timestamp \in Timestamps : CreateBatch(timestamp)
  \/ FlushQueue
  \/ \E s \in settlements : RecordProof(s)
  \/ \E p \in proofs : UpdateConfirmations(p)

----------------------------------------------------------------------------
(* Properties *)

EventId == {e.id : e \in BillingEvent}

\* Types of the pipeline's state.
PipelineTypeOK ==
  /\ eventQueue \in Seq(BillingEvent) /\ flushed \in Seq(BillingEvent)
  /\ dedupOrder \in Seq(EventId) /\ ingested \in Seq(EventId)
  /\ {totalSettled, totalFees, eventsProcessed, batchesCreated, lastBatchHeight} \subseteq Nat
  /\ \A p \in proofs : p.event \in EventId /\ p.at \in 0 .. now /\ p.status \in ProofStatus

\* Every event taken in is queued, was flushed or is settled, and the totals are those of the
\* settled ones (settlement_bridge/bridge.rs:157).
EventsAccountedFor ==
  /\ Len(ingested) = Len(eventQueue) + Len(flushed) + eventsProcessed
  /\ eventsProcessed = Cardinality({<<s.batch, s.id>> : s \in settlements})
  /\ totalSettled = SumOver(LAMBDA s : s.id.amount, settlements)
  /\ totalFees = SumOver(LAMBDA s : SettlementFee(s.id.amount), settlements)

\* An event is taken in again only after as many others as the window remembers
\* (settlement_bridge/bridge.rs:94).
DuplicatesOutsideWindow ==
  \A i, j \in DOMAIN ingested : i < j /\ ingested[i] = ingested[j] => j - i > DedupWindow

\* A settlement is found by its id unless a batch of the same height and timestamp took the
\* id (settlement_bridge/bridge.rs:144: each batch has a fresh engine), and what the proofs
\* say was settled, at most once per event (settlement_proof/store.rs:82).
ProofsOfSettlements ==
  /\ \A s, t \in settlements : s.id = t.id => s = t \/ s.batch # t.batch
  /\ \A p \in proofs : \E s \in settlements : s.id = p.settlement /\ s.event = p.event
  /\ \A p, q \in proofs : p.event = q.event \/ p.settlement = q.settlement => p = q
=============================================================================
