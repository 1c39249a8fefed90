-------------------------- MODULE BatchSettlement --------------------------
(***************************************************************************)
(* Batches of channel settlements (batch_settlement/processor.rs): a batch *)
(* is created from a list of channels and amounts and processed later.     *)
(*                                                                         *)
(* Every operation is one &mut self call on BatchProcessor, so it is one   *)
(* action.  A batch's id hashes its place in the list of batches, so it is *)
(* that place.  Fees, parties, nonces and heights are carried along and    *)
(* decide nothing; they are left out.                                      *)
(***************************************************************************)
EXTENDS Integers, Sequences, FiniteSets, Functions

CONSTANTS
  Channel,         \* channel ids
  Amounts,         \* amounts that an entry may state
  MaxBatchSize,    \* max_batch_size
  AmountModulus    \* amounts are u128: 2^128

\* Bounds of the exploration, which the code does not have.
CONSTANTS
  MaxBatches,      \* batches that are created
  MaxProcessed     \* calls of process_batch

Entry == [channel : Channel, amount : Amounts]

BatchStatus == {"Pending", "Completed"}   \* the only statuses that are ever set

VARIABLES
  batches,                \* the batches, in order of creation
  settledChannels,        \* settled_channels
  totalSettled,           \* total_settled
  totalBatchesProcessed   \* total_batches_processed

\* History, which the code does not keep.
VARIABLES
  overlap,                \* a batch was created with a channel of a pending one
  repeat                  \* a completed batch was processed again

history == <<overlap, repeat>>
vars == <<batches, settledChannels, totalSettled, totalBatchesProcessed, history>>

Init ==
  /\ batches = <<>>
  /\ settledChannels = {}
  /\ totalSettled = 0 /\ totalBatchesProcessed = 0
  /\ overlap = FALSE /\ repeat = FALSE

ChannelsOf(entries) == {e.channel : e \in Range(entries)}

\* saturating_add
Saturated(n) == IF n < AmountModulus THEN n ELSE AmountModulus - 1

TotalOf(entries) == Saturated(SumFunction([k \in DOMAIN entries |-> entries[k].amount]))

\* Mutant: a channel may come twice in a batch.
AcceptableTwice(entries) ==
  /\ entries # <<>> /\ Len(entries) <= MaxBatchSize
  /\ \A e \in Range(entries) : e.amount # 0 /\ e.channel \notin settledChannels

\* A list that create_batch takes.
Acceptable(entries) ==
  /\ entries # <<>> /\ Len(entries) <= MaxBatchSize
  /\ \A i \in DOMAIN entries :
       /\ entries[i].amount # 0
       /\ \A k \in 1 .. i - 1 : entries[k].channel # entries[i].channel
       /\ entries[i].channel \notin settledChannels

CreateBatch(entries) ==
  /\ Len(batches) < MaxBatches
  /\ Acceptable(entries)
  /\ batches' = Append(batches, [settlements |-> entries, status |-> "Pending"])
  /\ overlap' = (overlap \/ \E b \in Range(batches) :
       b.status = "Pending" /\ ChannelsOf(b.settlements) \cap ChannelsOf(entries) # {})
  /\ UNCHANGED <<settledChannels, totalSettled, totalBatchesProcessed, repeat>>

\* process_batch looks at neither the batch's status nor the settled channels.
ProcessBatch(i) ==
  /\ i \in DOMAIN batches /\ totalBatchesProcessed < MaxProcessed
  /\ batches' = [batches EXCEPT ![i].status = "Completed"]
  /\ settledChannels' = settledChannels \cup ChannelsOf(batches[i].settlements)
  /\ totalSettled' = Saturated(totalSettled + TotalOf(batches[i].settlements))
  /\ totalBatchesProcessed' = totalBatchesProcessed + 1
  /\ repeat' = (repeat \/ batches[i].status = "Completed")
  /\ UNCHANGED overlap

Next ==
  \/ \E entries \in UNION {[1 .. n -> Entry] : n \in 0 .. MaxBatchSize + 1} : CreateBatch(entries)
  \/ \E i \in 1 .. MaxBatches : ProcessBatch(i)

Spec == Init /\ [][Next]_vars

----------------------------------------------------------------------------
(* Properties *)

\* Types of the processor's state.
TypeOK ==
  /\ batches \in Seq([settlements : Seq(Entry), status : BatchStatus])
  /\ settledChannels \subseteq Channel
  /\ totalSettled \in Nat /\ totalBatchesProcessed \in Nat
  /\ overlap \in BOOLEAN /\ repeat \in BOOLEAN

Completed == {i \in DOMAIN batches : batches[i].status = "Completed"}

\* The settlements of channel c in the completed batches.
SettlementsOf(c) ==
  {place \in Completed \X (1 .. MaxBatchSize) :
     /\ place[2] \in DOMAIN batches[place[1]].settlements
     /\ batches[place[1]].settlements[place[2]].channel = c}

\* As long as no batch is processed twice and no two batches hold one channel while both are
\* pending, a channel is settled once, whatever lists are offered and in whatever order
\* batches are processed, and the total is that of the completed batches, or the largest
\* amount when theirs is larger (processor.rs:114, 194).
SettledOnceInOrder ==
  ~overlap /\ ~repeat =>
    /\ \A c \in Channel : Cardinality(SettlementsOf(c)) = IF c \in settledChannels THEN 1 ELSE 0
    /\ totalSettled =
         Saturated(SumFunction([i \in Completed |-> TotalOf(batches[i].settlements)]))

\* "Double-settlement is prevented via settled_channels: any channel ID that appears in a
\* successfully processed batch is permanently recorded and rejected if submitted again"
\* (processor.rs:13): what was settled is what one settlement of each settled channel says.
DoubleSettlementPrevented == \A c \in Channel : Cardinality(SettlementsOf(c)) <= 1
=============================================================================
