----------------------------- MODULE BlockSync -----------------------------
(***************************************************************************)
(* Block sync (network/sync.rs): which blocks to ask peers for, and which  *)
(* requests are in flight.                                                 *)
(*                                                                         *)
(* Every operation is one &mut self call on SyncManager.  status repeats   *)
(* the two heights and is left out.  The repository has no transport: here *)
(* a request stays under way until its blocks were marked as received, one *)
(* by one and in order, or its answer is lost; a block is received only    *)
(* when the chain has those below it.                                      *)
(***************************************************************************)
EXTENDS Integers, FiniteSets, FiniteSetsExt

CONSTANTS
  BatchSizes,              \* batch sizes that callers ask for
  MaxConcurrentRequests    \* max_concurrent_requests

\* Bounds of the exploration, which the code does not have.
CONSTANTS
  MaxPeerHeight,           \* the highest block of any peer
  MaxLost                  \* answers that are lost

\* With a batch of 0 the walk to a free slot might not end.
ASSUME BatchesTyped == BatchSizes \subseteq Nat \ {0} /\ MaxPeerHeight \in Nat

VARIABLES
  localHeight,             \* local_height
  bestPeerHeight,          \* best_peer_height
  pendingRequests          \* the heights that pending_requests maps to a time

\* The network, which is not part of the manager.
VARIABLES
  underWay,                \* requests: the next block to come and the last one
  lost                     \* answers that were lost

syncVars == <<localHeight, bestPeerHeight, pendingRequests, underWay, lost>>

SyncInit ==
  /\ localHeight = 0 /\ bestPeerHeight = 0
  /\ pendingRequests = {}
  /\ underWay = {} /\ lost = 0

UpdatePeerHeight(h) ==
  /\ bestPeerHeight' = IF h > bestPeerHeight THEN h ELSE bestPeerHeight
  /\ UNCHANGED <<localHeight, pendingRequests, underWay, lost>>

\* The first height, by whole batches from the next one, that no pending request starts at.
Candidate(batch) ==
  LET Starts == {localHeight + 1 + k * batch : k \in 0 .. Cardinality(pendingRequests)}
  IN  CHOOSE h \in Starts \ pendingRequests :
        \A g \in Starts \ pendingRequests : h <= g

GetBlocksToRequest(batch) ==
  /\ localHeight < bestPeerHeight
  /\ Cardinality(pendingRequests) < MaxConcurrentRequests
  /\ LET start == Candidate(batch)
         count == Min({batch, bestPeerHeight - start + 1})
     IN  /\ start <= bestPeerHeight
         /\ pendingRequests' = pendingRequests \cup {start}
         /\ underWay' = underWay \cup {[next |-> start, last |-> start + count - 1]}
  /\ UNCHANGED <<localHeight, bestPeerHeight, lost>>

\* Mutant: a block that the chain has already is ignored.
MarkNewReceived(h) ==
  /\ pendingRequests' = IF h > localHeight THEN pendingRequests \ {h} ELSE pendingRequests
  /\ localHeight' = IF h > localHeight THEN h ELSE localHeight
  /\ UNCHANGED bestPeerHeight

\* mark_received; only the first block of a request clears it.
MarkReceived(h) ==
  /\ pendingRequests' = pendingRequests \ {h}
  /\ localHeight' = IF h > localHeight THEN h ELSE localHeight
  /\ UNCHANGED bestPeerHeight

\* The next block of an answer comes and is applied, or is in the chain already.
ReceiveBlock(r) ==
  /\ r \in underWay /\ r.next <= localHeight + 1
  /\ MarkReceived(r.next)
  /\ underWay' = (underWay \ {r}) \cup
       (IF r.next = r.last THEN {} ELSE {[r EXCEPT !.next = r.next + 1]})
  /\ UNCHANGED lost

\* The rest of an answer never comes; nobody tells the manager.
LoseAnswer(r) ==
  /\ r \in underWay /\ lost < MaxLost
  /\ underWay' = underWay \ {r}
  /\ lost' = lost + 1
  /\ UNCHANGED <<localHeight, bestPeerHeight, pendingRequests>>

\* update_local_height, after a block that came in some other way.
UpdateLocalHeight ==
  /\ localHeight < MaxPeerHeight
  /\ localHeight' = localHeight + 1
  /\ UNCHANGED <<bestPeerHeight, pendingRequests, underWay, lost>>

SyncNext ==
  \/ \E h \in 1 .. MaxPeerHeight : UpdatePeerHeight(h)
  \/ \E batch \in BatchSizes : GetBlocksToRequest(batch)
  \/ \E r \in underWay : ReceiveBlock(r) \/ LoseAnswer(r)
  \/ UpdateLocalHeight

\* The caller asks again and again, and answers under way come in.
SyncFairness ==
  /\ WF_syncVars(\E batch \in BatchSizes : GetBlocksToRequest(batch))
  /\ WF_syncVars(\E r \in underWay : ReceiveBlock(r))

SyncSpec == SyncInit /\ [][SyncNext]_syncVars /\ SyncFairness

----------------------------------------------------------------------------
(* Properties *)

\* Types of the manager's state and of the network's.
SyncTypeOK ==
  /\ localHeight \in Nat /\ bestPeerHeight \in Nat /\ lost \in Nat
  /\ pendingRequests \subseteq 1 .. MaxPeerHeight
  /\ underWay \subseteq [next : 1 .. MaxPeerHeight, last : 1 .. MaxPeerHeight]

\* As long as no answer is lost, the manager catches up with the best peer again and again,
\* whatever batch sizes overlap, and whichever blocks come in by another way while they are
\* under way: no slot of pending_requests stays taken (sync.rs:62, 71, 91).
CatchesUp == []<>(lost > 0 \/ localHeight >= bestPeerHeight)
=============================================================================
