--------------------------- MODULE ManagersProofs ---------------------------
(***************************************************************************)
(* Theorems about the managers around the ledger, for every value of their *)
(* constants.                                                              *)
(***************************************************************************)
EXTENDS Managers, CustodyProofs, EconomyProofs

----------------------------------------------------------------------------
(* The managers implement the escrows *)

\* What the escrows rest on: the height is a number and the records have their types.
EscrowInv == now \in Nat /\ DepositsTypeOK /\ WithdrawalsTypeOK

LEMMA InitEscrows ==
  ASSUME ManagersInit
  PROVE  EscrowInv /\ DepositEscrow!EscrowInit /\ WithdrawalEscrow!EscrowInit
  <1>1. ClockInit /\ DepositsInit /\ WithdrawalsInit
    BY DEF ManagersInit
  <1>2. EscrowInv
    BY <1>1 DEF EscrowInv, ClockInit, DepositsInit, DepositsTypeOK, depositHistory,
                WithdrawalsInit, WithdrawalsTypeOK, withdrawalHistory
  <1>3. DepositEscrow!EscrowInit
    BY <1>1 DEF DepositsInit, DepositHeld, DepositEscrow!EscrowInit
  <1>4. WithdrawalEscrow!EscrowInit
    BY <1>1 DEF WithdrawalsInit, WithdrawalHeld, InCooldown, WithdrawalEscrow!EscrowInit
  <1> QED BY <1>2, <1>3, <1>4

\* A step of any manager is a call of the deposits or leaves them alone, and so for the
\* withdrawals.
LEMMA StepsOfManagers ==
  ASSUME now \in Nat, [ManagersNext]_managersVars
  PROVE  now' \in Nat /\ [DepositsNext]_depositVars /\ [WithdrawalsNext]_withdrawalVars
  <1>1. CASE CallNext /\ UNCHANGED <<now, part>>
    BY <1>1 DEF CallNext, CustodyNext, custodyVars
  <1>2. CASE Tick /\ UNCHANGED custodyVars
    BY <1>2 DEF Tick, custodyVars
  <1>3. CASE UNCHANGED managersVars
    BY <1>3 DEF managersVars, custodyVars
  <1> QED BY <1>1, <1>2, <1>3 DEF ManagersNext

LEMMA StepKeepsEscrows ==
  ASSUME EscrowInv, [ManagersNext]_managersVars
  PROVE  /\ EscrowInv'
         /\ [DepositEscrow!EscrowNext]_(DepositEscrow!escrowVars)
         /\ [WithdrawalEscrow!EscrowNext]_(WithdrawalEscrow!escrowVars)
  <1>1. /\ now \in Nat /\ DepositsTypeOK /\ WithdrawalsTypeOK
        /\ now' \in Nat /\ [DepositsNext]_depositVars /\ [WithdrawalsNext]_withdrawalVars
    BY StepsOfManagers DEF EscrowInv
  <1>2. DepositsTypeOK' /\ [DepositEscrow!EscrowNext]_(DepositEscrow!escrowVars)
    <2>1. CASE DepositsNext
      BY <1>1, <2>1, CallsAreSteps, StepKeepsDepositTypes, StepKeepsDepositEscrow
    <2>2. CASE UNCHANGED depositVars
      BY <1>1, <2>2
         DEF depositVars, depositHistory, DepositsTypeOK, DepositHeld, DepositEscrow!escrowVars
    <2> QED BY <1>1, <2>1, <2>2
  <1>3. WithdrawalsTypeOK' /\ [WithdrawalEscrow!EscrowNext]_(WithdrawalEscrow!escrowVars)
    <2>1. CASE WithdrawalsNext
      BY <1>1, <2>1, RequestsAreSteps, StepKeepsWithdrawalTypes, StepKeepsWithdrawalEscrow
    <2>2. CASE UNCHANGED withdrawalVars
      BY <1>1, <2>2
         DEF withdrawalVars, withdrawalHistory, WithdrawalsTypeOK, WithdrawalHeld, InCooldown,
             WithdrawalEscrow!escrowVars
    <2> QED BY <1>1, <2>1, <2>2
  <1> QED BY <1>1, <1>2, <1>3 DEF EscrowInv

\* Whatever the other managers do, deposits and withdrawals are escrows: each amount that was
\* put in is held until it leaves, once (deposit/manager.rs:120, withdrawal/manager.rs:164).
THEOREM EscrowsImplemented == ManagersSpec => EscrowsKept
  <1>1. ManagersInit => EscrowInv /\ DepositEscrow!EscrowInit /\ WithdrawalEscrow!EscrowInit
    BY InitEscrows
  <1>2. EscrowInv /\ [ManagersNext]_managersVars =>
          /\ EscrowInv'
          /\ [DepositEscrow!EscrowNext]_(DepositEscrow!escrowVars)
          /\ [WithdrawalEscrow!EscrowNext]_(WithdrawalEscrow!escrowVars)
    BY StepKeepsEscrows
  <1> QED BY <1>1, <1>2, PTL
          DEF ManagersSpec, EscrowsKept, DepositEscrow!EscrowSpec, WithdrawalEscrow!EscrowSpec

----------------------------------------------------------------------------
(* Bans and duplicates *)

\* A step of any manager is a call of the peer table or leaves it alone, and so for the
\* settlement pipeline.
LEMMA OtherSteps ==
  ASSUME [ManagersNext]_managersVars
  PROVE  [PeersNext]_peerVars /\ [PipelineNext]_pipelineVars
  <1>1. CASE CallNext
    BY <1>1 DEF CallNext, NetworkNext, SettlementNext, networkVars, settlementVars
  <1>2. CASE UNCHANGED <<settlementVars, networkVars>>
    BY <1>2 DEF settlementVars, networkVars
  <1> QED BY <1>1, <1>2 DEF ManagersNext, managersVars

\* Who is out of the table or in it is well-typed, and then a ban and a connection exclude each
\* other and the table's size is a number.
PeersInv == PeersTypeOK /\ BannedStayOut

LEMMA PeersStep ==
  ASSUME PeersInv, PeersNext
  PROVE  PeersInv'
  <1> USE DEF PeersInv, PeersTypeOK, BannedStayOut, InTable
  <1>1. IsFiniteSet(InTable) /\ Cardinality(InTable) \in Nat
    BY PeersTyped, FS_Subset, FS_CardinalityType DEF PeersTyped
  <1>2. NoPeer \notin PeerInfo /\ MaxPeers \in Nat
    BY PeersTyped DEF PeersTyped
  <1>3. PICK p \in Peer :
          \/ \E peer \in [status : PeerStatus, height : PeerHeights], sameChain \in BOOLEAN,
                stamp \in Stamps : ConnectPeer(p, peer, sameChain, stamp)
          \/ DisconnectPeer(p)
          \/ \E duration \in BanDurations, stamp \in Stamps : BanPeer(p, duration, stamp)
          \/ \E height \in PeerHeights : UpdatePeerHeight(p, height)
    BY DEF PeersNext
  <1>4. ASSUME NEW peer \in [status : PeerStatus, height : PeerHeights],
               NEW sameChain \in BOOLEAN, NEW stamp \in Stamps,
               ConnectPeer(p, peer, sameChain, stamp)
        PROVE  PeersInv'
    <2>1. CASE p \notin InTable /\ Cardinality(InTable) < MaxPeers
      <3>0. peer \in PeerInfo
        BY PeersTyped DEF PeersTyped, PeerInfo
      <3>1. peerTable' = [peerTable EXCEPT ![p] = peer]
        BY <1>4, <2>1 DEF ConnectPeer
      <3>2. InTable' = InTable \cup {p}
        BY <1>2, <3>0, <3>1
      <3>3. Cardinality(InTable') <= MaxPeers
        <4> HIDE DEF InTable, PeersInv
        <4>1. Cardinality(InTable \cup {p}) = Cardinality(InTable) + 1
          BY <1>1, <2>1, FS_AddElement
        <4> QED BY <1>1, <1>2, <2>1, <3>2, <4>1
      <3>4. bannedPeers' = [bannedPeers EXCEPT ![p] = -1] /\ everBanned' = everBanned \ {p}
        BY <1>4, <2>1 DEF ConnectPeer
      <3> QED BY <1>2, <3>0, <3>1, <3>2, <3>3, <3>4
    <2>2. CASE ~(p \notin InTable /\ Cardinality(InTable) < MaxPeers)
      BY <1>4, <2>2 DEF ConnectPeer
    <2> QED BY <2>1, <2>2
  <1>5. CASE DisconnectPeer(p)
    <2>1. InTable' = InTable
      BY <1>2, <1>5 DEF DisconnectPeer, PeerInfo, PeerStatus
    <2> QED BY <1>2, <1>5, <2>1 DEF DisconnectPeer, PeerInfo, PeerStatus
  <1>6. ASSUME NEW duration \in BanDurations, NEW stamp \in Stamps, BanPeer(p, duration, stamp)
        PROVE  PeersInv'
    <2>1. InTable' = InTable
      BY <1>2, <1>6 DEF BanPeer, PeerInfo, PeerStatus
    <2>2. PICK n, end : n = stamp + duration /\ end = n % HeightModulus
      OBVIOUS
    <2>3. n \in Int /\ HeightModulus \in Nat \ {0}
      <3>1. stamp \in Nat /\ duration \in Nat /\ MaxNow \in Nat /\ HeightModulus \in Nat
            /\ MaxNow < HeightModulus
        BY PeersTyped, HeightsTyped DEF PeersTyped, HeightsTyped
      <3> QED BY <2>2, <3>1
    <2>4. end \in Nat
      <3>1. n % HeightModulus \in 0 .. HeightModulus - 1
        BY <2>3, DivMod
      <3> QED BY <2>2, <2>3, <3>1
    <2>5. bannedPeers' = [bannedPeers EXCEPT ![p] = end]
      BY <1>6, <2>2 DEF BanPeer
    <2>6. everBanned' = everBanned \cup {p}
      BY <1>6 DEF BanPeer
    <2>7. /\ peerTable' \in [Peer -> PeerInfo \cup {NoPeer}]
          /\ \A q \in Peer : q # p => peerTable'[q] = peerTable[q]
          /\ p \in InTable => peerTable'[p].status = "Banned"
      <3>1. CASE p \in InTable
        <4>1. peerTable' = [peerTable EXCEPT ![p].status = "Banned"]
          BY <1>6, <3>1 DEF BanPeer
        <4> QED BY <1>2, <3>1, <4>1 DEF PeerInfo, PeerStatus
      <3>2. CASE p \notin InTable
        <4>1. peerTable' = peerTable
          BY <1>6, <3>2 DEF BanPeer
        <4> QED BY <3>2, <4>1
      <3> QED BY <3>1, <3>2
    <2>8. bannedPeers' \in [Peer -> Nat \cup {-1}] /\ everBanned' \subseteq Peer
      BY <2>4, <2>5, <2>6
    <2>9. ASSUME NEW q \in InTable, peerTable'[q].status \in {"Connected", "Syncing"}
          PROVE  q \notin everBanned' /\ bannedPeers'[q] = -1
      <3>1. q # p
        BY <2>7, <2>9
      <3>2. q \notin everBanned /\ bannedPeers[q] = -1
        BY <2>7, <2>9, <3>1
      <3> QED BY <2>5, <2>6, <3>1, <3>2
    <2>10. PeersTypeOK'
      BY <2>7, <2>8
    <2>11. BannedStayOut'
      BY <2>1, <2>9
    <2> QED BY <2>10, <2>11
  <1>7. ASSUME NEW height \in PeerHeights, UpdatePeerHeight(p, height)
        PROVE  PeersInv'
    <2>1. height \in Nat
      BY PeersTyped DEF PeersTyped
    <2>2. InTable' = InTable
      BY <1>2, <1>7, <2>1 DEF UpdatePeerHeight, PeerInfo
    <2> QED BY <1>2, <1>7, <2>1, <2>2 DEF UpdatePeerHeight, PeerInfo
  <1> QED BY <1>3, <1>4, <1>5, <1>6, <1>7

LEMMA PeersHold == ManagersSpec => []PeersInv
  <1>1. ManagersInit => PeersInv
    <2> SUFFICES ASSUME PeersInit PROVE PeersInv
      BY DEF ManagersInit
    <2>1. InTable = {}
      BY DEF PeersInit, InTable
    <2>2. Cardinality(InTable) <= MaxPeers
      BY <2>1, FS_EmptySet, PeersTyped DEF PeersTyped
    <2> QED BY <2>1, <2>2 DEF PeersInit, PeersInv, PeersTypeOK, BannedStayOut
  <1>2. PeersInv /\ [ManagersNext]_managersVars => PeersInv'
    <2> SUFFICES ASSUME PeersInv, [PeersNext]_peerVars PROVE PeersInv'
      BY OtherSteps
    <2>1. CASE UNCHANGED peerVars
      BY <2>1 DEF peerVars, PeersInv, PeersTypeOK, BannedStayOut, InTable
    <2> QED BY <2>1, PeersStep
  <1> QED BY <1>1, <1>2, PTL DEF ManagersSpec

\* In no order of connections, bans and their ends is a peer connected that was banned since
\* it connected, and the table never outgrows its maximum (p2p/network.rs:65, 79, 116).
THEOREM BannedNeverConnected == ManagersSpec => []BannedStayOut
  <1> QED BY PeersHold, PTL DEF PeersInv

\* window is the end of ids: as many of them as it has room for.
EndOf(window, ids) ==
  /\ Len(window) = IF Len(ids) > DedupWindow THEN DedupWindow ELSE Len(ids)
  /\ \A k \in 1 .. Len(window) : window[k] = ids[k + (Len(ids) - Len(window))]

\* What makes the property inductive: the window is the end of what was taken in.
WindowInv ==
  /\ ingested \in Seq(EventId) /\ dedupOrder \in Seq(EventId)
  /\ EndOf(dedupOrder, ingested)
  /\ DuplicatesOutsideWindow

\* An id put into the window and the oldest dropped beyond its size: still the end.
LEMMA WindowMovesOn ==
  ASSUME NEW T, NEW ids \in Seq(T), NEW window \in Seq(T), NEW x \in T, EndOf(window, ids)
  PROVE  /\ LastIds(Append(window, x)) \in Seq(T)
         /\ EndOf(LastIds(Append(window, x)), Append(ids, x))
  <1> DEFINE longer == Append(window, x)
             all == Append(ids, x)
             w == DedupWindow
             n == Len(ids)
  <1>1. w \in Nat /\ n \in Nat /\ Len(window) \in Nat
    BY SettlementTyped DEF SettlementTyped
  <1>2. /\ longer \in Seq(T) /\ Len(longer) = Len(window) + 1
        /\ \A k \in 1 .. Len(window) : longer[k] = window[k]
        /\ longer[Len(window) + 1] = x
    BY AppendProperties
  <1>3. /\ all \in Seq(T) /\ Len(all) = n + 1
        /\ \A k \in 1 .. n : all[k] = ids[k]
        /\ all[n + 1] = x
    BY AppendProperties
  <1>4. /\ Len(window) = IF n > w THEN w ELSE n
        /\ \A k \in 1 .. Len(window) : window[k] = ids[k + (n - Len(window))]
    BY DEF EndOf
  <1> HIDE DEF longer, all, n, w
  <1>5. ASSUME NEW k \in 1 .. Len(longer)
        PROVE  longer[k] = all[k + (n - Len(window))]
    <2>1. CASE k = Len(window) + 1
      BY <1>1, <1>2, <1>3, <1>4, <2>1
    <2>2. CASE k \in 1 .. Len(window)
      <3>1. longer[k] = ids[k + (n - Len(window))]
        BY <1>2, <1>4, <2>2
      <3>2. k + (n - Len(window)) \in 1 .. n
        BY <1>1, <1>4, <2>2
      <3> QED BY <1>3, <3>1, <3>2
    <2> QED BY <1>1, <1>2, <2>1, <2>2
  <1>6. CASE n >= w
    <2>1. Len(window) = w /\ Len(longer) = w + 1
      BY <1>1, <1>2, <1>4, <1>6
    <2>2. LastIds(longer) = SubSeq(longer, 2, w + 1)
      BY <1>1, <2>1 DEF LastIds, w
    <2>3. \A k \in 2 .. w + 1 : longer[k] \in T
      BY <1>1, <1>2, <2>1
    <2>4. /\ SubSeq(longer, 2, w + 1) \in Seq(T)
          /\ Len(SubSeq(longer, 2, w + 1)) = IF 2 <= w + 1 THEN w + 1 - 2 + 1 ELSE 0
          /\ \A k \in 1 .. w + 1 - 2 + 1 : SubSeq(longer, 2, w + 1)[k] = longer[2 + k - 1]
      BY <1>1, <2>3, SubSeqProperties
    <2> DEFINE last == SubSeq(longer, 2, w + 1)
    <2>5. Len(last) = w /\ \A k \in 1 .. w : last[k] = longer[k + 1]
      BY <1>1, <2>4
    <2> HIDE DEF last
    <2>6. ASSUME NEW k \in 1 .. w
          PROVE  last[k] = all[k + (n + 1 - w)]
      <3>1. k + 1 \in 1 .. Len(longer) /\ k + 1 + (n - w) = k + (n + 1 - w)
        BY <1>1, <2>1
      <3>2. longer[k + 1] = all[k + 1 + (n - w)]
        BY <1>5, <2>1, <3>1
      <3> QED BY <2>5, <3>1, <3>2
    <2>7. EndOf(last, all)
      BY <1>1, <1>3, <1>6, <2>5, <2>6 DEF EndOf, w
    <2> QED BY <2>2, <2>4, <2>7 DEF last, longer, all
  <1>7. CASE n < w
    <2>1. Len(window) = n /\ Len(longer) = n + 1 /\ n + 1 <= w
      BY <1>1, <1>2, <1>4, <1>7
    <2>2. LastIds(longer) = longer
      BY <1>1, <2>1 DEF LastIds, w
    <2>3. ASSUME NEW k \in 1 .. n + 1
          PROVE  longer[k] = all[k + (n + 1 - (n + 1))]
      BY <1>1, <1>5, <2>1
    <2>4. EndOf(longer, all)
      BY <1>1, <1>3, <2>1, <2>3 DEF EndOf, w
    <2> QED BY <1>2, <2>2, <2>4 DEF longer, all
  <1> QED BY <1>1, <1>6, <1>7

\* What is in the last places of what was taken in is in the window.
LEMMA LastOnesInWindow ==
  ASSUME NEW T, NEW ids \in Seq(T), NEW window \in Seq(T), EndOf(window, ids),
         NEW i \in 1 .. Len(ids), Len(ids) + 1 - i <= DedupWindow
  PROVE  ids[i] \in Range(window)
  <1> DEFINE n == Len(ids)
             m == Len(window)
             k == i - (n - m)
  <1>1. DedupWindow \in Nat /\ n \in Nat /\ m \in Nat /\ DOMAIN window = 1 .. m
    BY SettlementTyped DEF SettlementTyped
  <1>2. m = IF n > DedupWindow THEN DedupWindow ELSE n
    BY DEF EndOf
  <1>3. \A l \in 1 .. m : window[l] = ids[l + (n - m)]
    BY DEF EndOf
  <1> HIDE DEF n, m
  <1>4. i \in 1 .. n /\ n + 1 - i <= DedupWindow
    BY DEF n
  <1>5. k \in 1 .. m /\ k + (n - m) = i
    BY <1>1, <1>2, <1>4
  <1>6. window[k] = ids[i]
    BY <1>3, <1>5
  <1> QED BY <1>1, <1>5, <1>6 DEF Range

\* Taking an event in keeps the window, and its id was not within reach of it.
LEMMA IngestKeepsWindow ==
  ASSUME WindowInv, NEW e \in BillingEvent, IngestEvent(e)
  PROVE  WindowInv'
  <1> DEFINE n == Len(ingested)
  <1>1. /\ e.id \in EventId /\ e.id \notin Range(dedupOrder)
        /\ ingested' = Append(ingested, e.id) /\ dedupOrder' = LastIds(Append(dedupOrder, e.id))
    BY DEF IngestEvent, EventId
  <1>2. /\ ingested \in Seq(EventId) /\ dedupOrder \in Seq(EventId) /\ n \in Nat
        /\ DOMAIN ingested = 1 .. n /\ EndOf(dedupOrder, ingested) /\ DedupWindow \in Nat
    BY SettlementTyped DEF WindowInv, SettlementTyped
  <1>3. /\ ingested' \in Seq(EventId) /\ DOMAIN ingested' = 1 .. n + 1
        /\ \A i \in 1 .. n : ingested'[i] = ingested[i]
        /\ ingested'[n + 1] = e.id
    BY <1>1, <1>2
  <1>4. dedupOrder' \in Seq(EventId) /\ EndOf(dedupOrder', ingested')
    BY <1>1, <1>2, WindowMovesOn
  <1>5. ASSUME NEW i \in 1 .. n + 1, NEW j \in 1 .. n + 1, i < j, ingested'[i] = ingested'[j]
        PROVE  j - i > DedupWindow
    <2>1. i \in 1 .. n /\ ingested'[i] = ingested[i]
      BY <1>2, <1>3, <1>5
    <2>2. CASE j \in 1 .. n
      <3>1. ingested[i] = ingested[j]
        BY <1>3, <1>5, <2>1, <2>2
      <3> QED BY <1>2, <1>5, <2>1, <2>2, <3>1 DEF WindowInv, DuplicatesOutsideWindow
    <2>3. CASE j = n + 1
      <3>1. ingested[i] \notin Range(dedupOrder)
        BY <1>1, <1>3, <1>5, <2>1, <2>3
      <3>2. ~(n + 1 - i <= DedupWindow)
        BY <1>2, <2>1, <3>1, LastOnesInWindow
      <3> QED BY <1>2, <2>1, <2>3, <3>2
    <2> QED BY <1>2, <2>2, <2>3
  <1> QED BY <1>3, <1>4, <1>5 DEF WindowInv, DuplicatesOutsideWindow, EndOf

LEMMA PipelineStep ==
  ASSUME WindowInv, [PipelineNext]_pipelineVars
  PROVE  WindowInv'
  <1>1. ASSUME UNCHANGED <<ingested, dedupOrder>>
        PROVE  WindowInv'
    BY <1>1 DEF WindowInv, EndOf, DuplicatesOutsideWindow
  <1>2. ASSUME NEW e \in BillingEvent, IngestEvent(e)
        PROVE  WindowInv'
    BY <1>2, IngestKeepsWindow
  <1>3. ASSUME NEW timestamp \in Timestamps, CreateBatch(timestamp)
        PROVE  WindowInv'
    BY <1>1, <1>3 DEF CreateBatch
  <1>4. CASE FlushQueue
    BY <1>1, <1>4 DEF FlushQueue
  <1>5. ASSUME NEW s \in settlements, RecordProof(s)
        PROVE  WindowInv'
    BY <1>1, <1>5 DEF RecordProof
  <1>6. ASSUME NEW p \in proofs, UpdateConfirmations(p)
        PROVE  WindowInv'
    BY <1>1, <1>6 DEF UpdateConfirmations
  <1>7. CASE UNCHANGED pipelineVars
    BY <1>1, <1>7 DEF pipelineVars
  <1> QED BY <1>2, <1>3, <1>4, <1>5, <1>6, <1>7 DEF PipelineNext

\* For a window of any size: an event is charged again only after as many others as the window
\* remembers, whatever batches and flushes do to the queue (settlement_bridge/bridge.rs:94).
THEOREM DuplicatesAreLate == ManagersSpec => []DuplicatesOutsideWindow
  <1>1. ManagersInit => WindowInv
    BY SettlementTyped
       DEF ManagersInit, PipelineInit, WindowInv, EndOf, DuplicatesOutsideWindow, SettlementTyped
  <1>2. WindowInv /\ [ManagersNext]_managersVars => WindowInv'
    BY OtherSteps, PipelineStep
  <1> QED BY <1>1, <1>2, PTL DEF ManagersSpec, WindowInv

----------------------------------------------------------------------------
(* Billing events are accounted for *)

\* As many images as there are elements that none of them shares.
LEMMA CountOfImage ==
  ASSUME NEW S, IsFiniteSet(S), NEW e, NEW T, T = {e[x] : x \in S},
         \A x \in S, y \in S : e[x] = e[y] => x = y
  PROVE  IsFiniteSet(T) /\ Cardinality(T) = Cardinality(S)
  <1> DEFINE f == [x \in S |-> 1]
             g == [y \in T |-> 1]
  <1>1. IsFiniteSet(T)
    BY FiniteImage
  <1>2. f \in [S -> Int] /\ g \in [T -> Int] /\ \A x \in S : g[e[x]] = f[x]
    OBVIOUS
  <1>3. DOMAIN f = S /\ \A x \in S : f[x] = IF x \in S THEN 1 ELSE 0
    OBVIOUS
  <1>4. DOMAIN g = T /\ \A y \in T : g[y] = IF y \in T THEN 1 ELSE 0
    OBVIOUS
  <1>5. S \in SUBSET S /\ T \in SUBSET T /\ 1 \in Nat
    OBVIOUS
  <1> HIDE DEF f, g
  <1>6. SumFunction(g) = SumFunction(f)
    BY <1>2, SumOfImage
  <1>7. SumFunction(f) = 1 * Cardinality(S)
    BY <1>3, <1>5, SumConstant
  <1>8. SumFunction(g) = 1 * Cardinality(T)
    BY <1>1, <1>4, <1>5, SumConstant
  <1>9. Cardinality(S) \in Nat /\ Cardinality(T) \in Nat
    BY <1>1, FS_CardinalityType
  <1> QED BY <1>1, <1>6, <1>7, <1>8, <1>9

\* A sum over two sets that share nothing.
Halves(S, T, f, g, h) ==
  /\ S \cap T = {}
  /\ f \in [S \cup T -> Int] /\ g \in [S -> Int] /\ h \in [T -> Int]
  /\ \A x \in S : f[x] = g[x]
  /\ \A x \in T : f[x] = h[x]

LEMMA SumSplits ==
  ASSUME NEW S, NEW T, IsFiniteSet(S), IsFiniteSet(T), NEW f, NEW g, NEW h,
         Halves(S, T, f, g, h)
  PROVE  SumFunction(f) = SumFunction(g) + SumFunction(h)
  <1>1. S \cap T = {} /\ \A x \in S \cup T : f[x] \in Int
    BY DEF Halves
  <1>2. SumFunctionOnSet(f, S \cup T) = SumFunctionOnSet(f, S) + SumFunctionOnSet(f, T)
    BY <1>1, SumOnDisjoint
  <1>3. SumFunctionOnSet(f, S) = SumFunctionOnSet(g, S)
    BY SumOnAgree DEF Halves
  <1>4. SumFunctionOnSet(f, T) = SumFunctionOnSet(h, T)
    BY SumOnAgree DEF Halves
  <1>5. DOMAIN f = S \cup T /\ DOMAIN g = S /\ DOMAIN h = T
    BY DEF Halves
  <1> QED BY <1>2, <1>3, <1>4, <1>5 DEF SumFunction

\* A settlement is of a batch that was made, and its amount, of an event, covers its fee.
SettlementKept(s) ==
  /\ s.batch \in Nat /\ s.batch < batchesCreated
  /\ s.event \in EventId /\ s.id.amount \in Nat /\ SettlementFee(s.id.amount) \in Nat

AmountsOf(S) == [s \in S |-> s.id.amount]
FeesOf(S) == [s \in S |-> SettlementFee(s.id.amount)]
KeysOf(S) == {<<s.batch, s.id>> : s \in S}

ProofKept(p) ==
  \E s \in settlements, n \in 0 .. now, status \in ProofStatus :
    p = [settlement |-> s.id, event |-> s.event, at |-> n, status |-> status]

PipelineInv ==
  /\ eventQueue \in Seq(BillingEvent) /\ flushed \in Seq(BillingEvent)
  /\ ingested \in Seq(EventId)
  /\ totalSettled \in Nat /\ totalFees \in Nat /\ eventsProcessed \in Nat
  /\ batchesCreated \in Nat /\ lastBatchHeight \in Nat
  /\ IsFiniteSet(settlements) /\ \A s \in settlements : SettlementKept(s)
  /\ Len(ingested) = Len(eventQueue) + Len(flushed) + eventsProcessed
  /\ eventsProcessed = Cardinality(KeysOf(settlements))
  /\ totalSettled = SumFunction(AmountsOf(settlements))
  /\ totalFees = SumFunction(FeesOf(settlements))
  /\ \A s, t \in settlements : s.id = t.id => s = t \/ s.batch # t.batch
  /\ \A p \in proofs : ProofKept(p)
  /\ \A p, q \in proofs : p.event = q.event \/ p.settlement = q.settlement => p = q

\* The events of a queue: their amounts and fees are numbers.
LEMMA EventFields ==
  ASSUME NEW e \in BillingEvent
  PROVE  /\ e.amount \in Nat /\ SettlementFee(e.amount) \in Nat /\ e.id \in EventId
  BY SettlementTyped DEF SettlementTyped, EventId

\* A settled batch: one settlement for each place of the queue, of this batch.
BatchOf(timestamp) == [i \in DOMAIN eventQueue |-> Settled(eventQueue[i], timestamp, i)]

LEMMA BatchSettles ==
  ASSUME eventQueue \in Seq(BillingEvent), batchesCreated \in Nat, NEW timestamp,
         NEW i \in DOMAIN eventQueue
  PROVE  /\ BatchOf(timestamp)[i].batch = batchesCreated
         /\ BatchOf(timestamp)[i].event = eventQueue[i].id
         /\ BatchOf(timestamp)[i].id.amount = eventQueue[i].amount
         /\ BatchOf(timestamp)[i].id.index = i
         /\ eventQueue[i] \in BillingEvent
  <1>1. BatchOf(timestamp)[i] = Settled(eventQueue[i], timestamp, i)
    BY DEF BatchOf
  <1>2. eventQueue[i] \in BillingEvent
    OBVIOUS
  <1> QED BY <1>1, <1>2 DEF Settled, SettlementId

\* What a batch adds to a sum over the settlements.
OneEach(T, e, S) == T = {e[x] : x \in S} /\ \A x \in S, y \in S : e[x] = e[y] => x = y

AsMuchEach(D, settle, h, q) == q \in [D -> Int] /\ \A i \in D : h[settle[i]] = q[i]

LEMMA BatchAdds ==
  ASSUME NEW S, IsFiniteSet(S), NEW D, IsFiniteSet(D), NEW settle, NEW T,
         OneEach(T, settle, D), NEW f, NEW q, NEW h, NEW g,
         Halves(S, T, g, f, h), AsMuchEach(D, settle, h, q)
  PROVE  SumFunction(g) = SumFunction(f) + SumFunction(q)
  <1>1. IsFiniteSet(T)
    BY FiniteImage DEF OneEach
  <1>2. SumFunction(g) = SumFunction(f) + SumFunction(h)
    BY <1>1, SumSplits
  <1>3. SumFunction(h) = SumFunction(q)
    <2>1. T = {settle[x] : x \in D}
      BY DEF OneEach
    <2>2. \A x \in D, y \in D : settle[x] = settle[y] => x = y
      BY DEF OneEach
    <2>3. h \in [T -> Int]
      BY DEF Halves
    <2>4. q \in [D -> Int] /\ \A i \in D : h[settle[i]] = q[i]
      BY DEF AsMuchEach
    <2> QED BY <2>1, <2>2, <2>3, <2>4, SumOfImage
  <1> QED BY <1>2, <1>3

LEMMA CreateBatchKeepsPipeline ==
  ASSUME PipelineInv, now \in Nat, now' = now, NEW timestamp \in Timestamps,
         CreateBatch(timestamp)
  PROVE  PipelineInv'
  <1>1. PICK D, settle, S, T, U, b : /\ D = DOMAIN eventQueue /\ settle = BatchOf(timestamp)
                                     /\ S = settlements /\ T = {settle[i] : i \in D}
                                     /\ U = S \cup T /\ b = batchesCreated
    OBVIOUS
  <1>2. /\ eventQueue \in Seq(BillingEvent) /\ D = 1 .. Len(eventQueue)
        /\ Len(eventQueue) \in Nat /\ b \in Nat /\ IsFiniteSet(S)
        /\ \A s \in S : SettlementKept(s)
    BY <1>1 DEF PipelineInv
  <1>3. /\ settlements' = U
        /\ totalSettled' = totalSettled + SumFunction([i \in D |-> eventQueue[i].amount])
        /\ totalFees' = totalFees
                          + SumFunction([i \in D |-> SettlementFee(eventQueue[i].amount)])
        /\ eventsProcessed' = eventsProcessed + Len(eventQueue)
        /\ batchesCreated' = b + 1 /\ lastBatchHeight' = now /\ eventQueue' = <<>>
        /\ UNCHANGED <<proofs, ingested, flushed>>
    <2>1. \A i \in D : settle[i] = Settled(eventQueue[i], timestamp, i)
      BY <1>1 DEF BatchOf
    <2>2. settlements' = U
      BY <1>1, <2>1 DEF CreateBatch
    <2>3. totalSettled' = totalSettled + SumFunction([i \in D |-> eventQueue[i].amount])
      BY <1>1 DEF CreateBatch, SumOver
    <2>4. totalFees' = totalFees
                          + SumFunction([i \in D |-> SettlementFee(eventQueue[i].amount)])
      BY <1>1 DEF CreateBatch, SumOver
    <2> QED BY <1>1, <2>2, <2>3, <2>4 DEF CreateBatch
  <1>4. \A i \in D : /\ settle[i].batch = b /\ settle[i].event = eventQueue[i].id
                     /\ settle[i].id.amount = eventQueue[i].amount
                     /\ settle[i].id.index = i /\ eventQueue[i] \in BillingEvent
    BY <1>1, <1>2, BatchSettles
  <1>5. \A s \in T : \E i \in D : s = settle[i]
    BY <1>1
  <1>6. OneEach(T, settle, D)
    BY <1>1, <1>4 DEF OneEach
  <1>7. IsFiniteSet(D) /\ Cardinality(D) = Len(eventQueue)
    BY <1>2, FS_Interval
  <1>8. IsFiniteSet(T)
    BY <1>6, <1>7, FiniteImage DEF OneEach
  <1>9. S \cap T = {}
    <2> SUFFICES ASSUME NEW s \in S, s \in T PROVE FALSE
      OBVIOUS
    <2>1. s.batch = b
      BY <1>4, <1>5
    <2>2. s.batch \in Nat /\ s.batch < b
      BY <1>1, <1>2 DEF SettlementKept
    <2> QED BY <1>2, <2>1, <2>2
  <1>10. IsFiniteSet(U)
    BY <1>1, <1>2, <1>8, FS_Union
  <1>11. \A s \in U : SettlementKept(s)'
    <2>1. ASSUME NEW s \in S
          PROVE  SettlementKept(s)'
      BY <1>1, <1>2, <1>3, <2>1 DEF SettlementKept
    <2>2. ASSUME NEW i \in D
          PROVE  SettlementKept(settle[i])'
      <3>1. PICK s : s = settle[i]
        OBVIOUS
      <3>2. /\ s.batch = b /\ s.event \in EventId /\ s.id.amount \in Nat
            /\ SettlementFee(s.id.amount) \in Nat
        BY <1>4, <3>1, EventFields
      <3>3. b \in Nat /\ b < b + 1 /\ batchesCreated' = b + 1
        BY <1>2, <1>3
      <3>4. EventId' = EventId
        BY DEF EventId
      <3> QED BY <3>1, <3>2, <3>3, <3>4 DEF SettlementKept
    <2> QED BY <1>1, <1>5, <2>1, <2>2
  <1>12. totalSettled' = SumFunction(AmountsOf(U)) /\ totalSettled' \in Nat
    <2>1. PICK f, q, h, g : /\ f = AmountsOf(S) /\ q = [i \in D |-> eventQueue[i].amount]
                            /\ h = AmountsOf(T) /\ g = AmountsOf(U)
      OBVIOUS
    <2>2. \A s \in U : s.id.amount \in Nat
      BY <1>11 DEF SettlementKept
    <2>3. f \in [S -> Nat] /\ h \in [T -> Nat] /\ g \in [U -> Nat]
      BY <1>1, <2>1, <2>2 DEF AmountsOf
    <2>4. q \in [D -> Nat]
      BY <1>4, <2>1, EventFields
    <2>5. f \in [S -> Int] /\ h \in [T -> Int] /\ g \in [S \cup T -> Int] /\ q \in [D -> Int]
      BY <1>1, <2>3, <2>4
    <2>6. (\A s \in S : g[s] = f[s]) /\ (\A s \in T : g[s] = h[s])
      BY <1>1, <2>1 DEF AmountsOf
    <2>7. \A i \in D : h[settle[i]] = q[i]
      BY <1>1, <1>4, <2>1 DEF AmountsOf
    <2>8. Halves(S, T, g, f, h)
      BY <1>9, <2>5, <2>6 DEF Halves
    <2>9. SumFunction(g) = SumFunction(f) + SumFunction(q)
      <3>1. IsFiniteSet(S) /\ IsFiniteSet(D)
        BY <1>2, <1>7
      <3>2. AsMuchEach(D, settle, h, q)
        BY <2>5, <2>7 DEF AsMuchEach
      <3> QED BY <1>6, <2>8, <3>1, <3>2, BatchAdds
    <2>10. SumFunction(f) \in Nat /\ SumFunction(q) \in Nat
      BY <1>2, <1>7, <2>3, <2>4, SumNat
    <2> QED BY <1>1, <1>3, <2>1, <2>9, <2>10 DEF PipelineInv
  <1>13. totalFees' = SumFunction(FeesOf(U)) /\ totalFees' \in Nat
    <2>1. PICK f, q, h, g : /\ f = FeesOf(S)
                            /\ q = [i \in D |-> SettlementFee(eventQueue[i].amount)]
                            /\ h = FeesOf(T) /\ g = FeesOf(U)
      OBVIOUS
    <2>2. \A s \in U : SettlementFee(s.id.amount) \in Nat
      BY <1>11 DEF SettlementKept
    <2>3. f \in [S -> Nat] /\ h \in [T -> Nat] /\ g \in [U -> Nat]
      BY <1>1, <2>1, <2>2 DEF FeesOf
    <2>4. q \in [D -> Nat]
      BY <1>4, <2>1, EventFields
    <2>5. f \in [S -> Int] /\ h \in [T -> Int] /\ g \in [S \cup T -> Int] /\ q \in [D -> Int]
      BY <1>1, <2>3, <2>4
    <2>6. (\A s \in S : g[s] = f[s]) /\ (\A s \in T : g[s] = h[s])
      BY <1>1, <2>1 DEF FeesOf
    <2>7. \A i \in D : h[settle[i]] = q[i]
      BY <1>1, <1>4, <2>1 DEF FeesOf
    <2>8. Halves(S, T, g, f, h)
      BY <1>9, <2>5, <2>6 DEF Halves
    <2>9. SumFunction(g) = SumFunction(f) + SumFunction(q)
      <3>1. IsFiniteSet(S) /\ IsFiniteSet(D)
        BY <1>2, <1>7
      <3>2. AsMuchEach(D, settle, h, q)
        BY <2>5, <2>7 DEF AsMuchEach
      <3> QED BY <1>6, <2>8, <3>1, <3>2, BatchAdds
    <2>10. SumFunction(f) \in Nat /\ SumFunction(q) \in Nat
      BY <1>2, <1>7, <2>3, <2>4, SumNat
    <2> QED BY <1>1, <1>3, <2>1, <2>9, <2>10 DEF PipelineInv
  <1>14. eventsProcessed' = Cardinality(KeysOf(U)) /\ eventsProcessed' \in Nat
    <2> DEFINE key == [i \in D |-> <<settle[i].batch, settle[i].id>>]
               old == KeysOf(S)
               new == {key[i] : i \in D}
    <2>1. KeysOf(U) = old \cup new
      BY <1>1 DEF KeysOf
    <2>2. \A i \in D, j \in D : key[i] = key[j] => i = j
      BY <1>4
    <2>3. IsFiniteSet(new) /\ Cardinality(new) = Cardinality(D)
      <3> HIDE DEF key
      <3>1. PICK N : N = new
        OBVIOUS
      <3> QED BY <1>7, <2>2, <3>1, CountOfImage
    <2>4. IsFiniteSet(old)
      <3> DEFINE e == [s \in S |-> <<s.batch, s.id>>]
      <3>1. old = {e[s] : s \in S}
        BY DEF KeysOf
      <3> HIDE DEF e
      <3>2. IsFiniteSet({e[s] : s \in S})
        BY <1>2, FiniteImage
      <3> QED BY <3>1, <3>2
    <2>5. old \cap new = {}
      <3> SUFFICES ASSUME NEW s \in S, NEW i \in D, <<s.batch, s.id>> = key[i] PROVE FALSE
        BY DEF KeysOf
      <3>1. s.batch = b
        BY <1>4
      <3>2. s.batch \in Nat /\ s.batch < b
        BY <1>1, <1>2 DEF SettlementKept
      <3> QED BY <1>2, <3>1, <3>2
    <2> HIDE DEF key, old, new
    <2>6. Cardinality(old \cup new) = Cardinality(old) + Cardinality(new)
      <3>1. Cardinality(old \cup new)
              = Cardinality(old) + Cardinality(new) - Cardinality(old \cap new)
        BY <2>3, <2>4, FS_Union
      <3>2. Cardinality(old \cap new) = 0
        BY <2>5, FS_EmptySet
      <3>3. Cardinality(old) \in Nat /\ Cardinality(new) \in Nat
        BY <2>3, <2>4, FS_CardinalityType
      <3> QED BY <3>1, <3>2, <3>3
    <2>7. Cardinality(old) = eventsProcessed /\ eventsProcessed \in Nat
      BY <1>1 DEF PipelineInv, old
    <2> QED BY <1>2, <1>3, <1>7, <2>1, <2>3, <2>6, <2>7
  <1>15. ASSUME NEW s \in U, NEW t \in U, s.id = t.id
         PROVE  s = t \/ s.batch # t.batch
    <2>1. CASE s \in S /\ t \in S
      BY <1>1, <1>15, <2>1 DEF PipelineInv
    <2>2. CASE s \in T /\ t \in T
      BY <1>4, <1>5, <1>15, <2>2
    <2>3. ASSUME NEW x \in S, NEW y \in T
          PROVE  x.batch # y.batch
      <3>1. y.batch = b
        BY <1>4, <1>5
      <3>2. x.batch \in Nat /\ x.batch < b
        BY <1>1, <1>2 DEF SettlementKept
      <3> QED BY <1>2, <3>1, <3>2
    <2> QED BY <1>1, <2>1, <2>2, <2>3
  <1>16. \A p \in proofs : ProofKept(p)'
    <2> SUFFICES ASSUME NEW p \in proofs PROVE ProofKept(p)'
      OBVIOUS
    <2>1. PICK s \in settlements, n \in 0 .. now, status \in ProofStatus :
            p = [settlement |-> s.id, event |-> s.event, at |-> n, status |-> status]
      BY DEF PipelineInv, ProofKept
    <2>2. s \in settlements' /\ n \in 0 .. now'
      BY <1>1, <1>3
    <2> QED BY <2>1, <2>2 DEF ProofKept
  <1>17. Len(ingested') = Len(eventQueue') + Len(flushed') + eventsProcessed'
    <2>1. /\ Len(ingested) = Len(eventQueue) + Len(flushed) + eventsProcessed
          /\ Len(ingested) \in Nat /\ Len(flushed) \in Nat /\ eventsProcessed \in Nat
      BY DEF PipelineInv
    <2>2. PICK n, m, k, e : /\ n = Len(ingested) /\ m = Len(flushed) /\ k = Len(eventQueue)
                            /\ e = eventsProcessed
      OBVIOUS
    <2>3. /\ Len(ingested') = n /\ Len(flushed') = m /\ Len(eventQueue') = 0
          /\ eventsProcessed' = e + k
      BY <1>3, <2>2
    <2> QED BY <1>2, <2>1, <2>2, <2>3
  <1>18. /\ eventQueue' \in Seq(BillingEvent) /\ flushed' \in Seq(BillingEvent)
         /\ ingested' \in Seq(EventId) /\ batchesCreated' \in Nat /\ lastBatchHeight' \in Nat
    BY <1>2, <1>3 DEF PipelineInv
  <1>19. \A p, q \in proofs' : p.event = q.event \/ p.settlement = q.settlement => p = q
    BY <1>3 DEF PipelineInv
  <1>20. \A p \in proofs' : ProofKept(p)'
    BY <1>3, <1>16
  <1>21. EventId' = EventId
    BY DEF EventId
  <1> QED BY <1>3, <1>10, <1>11, <1>12, <1>13, <1>14, <1>15, <1>17, <1>18, <1>19, <1>20
          DEF PipelineInv


\* A proof stays one of a settlement, whatever is settled later.
LEMMA ProofsStayKept ==
  ASSUME now \in Nat, now' \in Nat, now' >= now, settlements \subseteq settlements',
         NEW p, ProofKept(p)
  PROVE  ProofKept(p)'
  <1>1. PICK s \in settlements, n \in 0 .. now, status \in ProofStatus :
          p = [settlement |-> s.id, event |-> s.event, at |-> n, status |-> status]
    BY DEF ProofKept
  <1>2. s \in settlements' /\ n \in 0 .. now'
    BY <1>1
  <1> QED BY <1>1, <1>2 DEF ProofKept

\* Neither the settlements nor the events change: what is left to show is the proofs.
LEMMA SettlementsStay ==
  ASSUME PipelineInv, UNCHANGED <<settlements, pipelineTotals>>
  PROVE  /\ {totalSettled', totalFees', eventsProcessed', batchesCreated', lastBatchHeight'}
              \subseteq Nat
         /\ IsFiniteSet(settlements') /\ \A s \in settlements' : SettlementKept(s)'
         /\ eventsProcessed' = Cardinality(KeysOf(settlements'))
         /\ totalSettled' = SumFunction(AmountsOf(settlements'))
         /\ totalFees' = SumFunction(FeesOf(settlements'))
         /\ \A s, t \in settlements' : s.id = t.id => s = t \/ s.batch # t.batch
  <1>1. /\ settlements' = settlements /\ totalSettled' = totalSettled /\ totalFees' = totalFees
        /\ eventsProcessed' = eventsProcessed /\ batchesCreated' = batchesCreated
        /\ lastBatchHeight' = lastBatchHeight
    BY DEF pipelineTotals
  <1>2. \A s \in settlements' : SettlementKept(s)'
    BY <1>1 DEF PipelineInv, SettlementKept, EventId
  <1> QED BY <1>1, <1>2 DEF PipelineInv

LEMMA IngestEventKeepsPipeline ==
  ASSUME PipelineInv, now \in Nat, now' = now, NEW e \in BillingEvent, IngestEvent(e)
  PROVE  PipelineInv'
  <1>1. /\ eventQueue' = Append(eventQueue, e) /\ ingested' = Append(ingested, e.id)
        /\ UNCHANGED <<pipelineTotals, proofs, settlements, flushed>>
    BY DEF IngestEvent
  <1>2. e.id \in EventId
    BY DEF EventId
  <1>3. /\ eventQueue' \in Seq(BillingEvent) /\ ingested' \in Seq(EventId)
        /\ flushed' \in Seq(BillingEvent)
        /\ Len(eventQueue') = Len(eventQueue) + 1 /\ Len(ingested') = Len(ingested) + 1
    BY <1>1, <1>2 DEF PipelineInv
  <1>4. Len(ingested') = Len(eventQueue') + Len(flushed') + eventsProcessed'
    <2>1. PICK i, q, f, n : /\ i = Len(ingested) /\ q = Len(eventQueue) /\ f = Len(flushed)
                            /\ n = eventsProcessed
      OBVIOUS
    <2>2. i \in Nat /\ q \in Nat /\ f \in Nat /\ n \in Nat /\ i = q + f + n
      BY <2>1 DEF PipelineInv
    <2>3. /\ Len(ingested') = i + 1 /\ Len(eventQueue') = q + 1 /\ Len(flushed') = f
          /\ eventsProcessed' = n
      BY <1>1, <1>3, <2>1 DEF pipelineTotals
    <2> QED BY <2>2, <2>3
  <1>5. \A p \in proofs' : ProofKept(p)'
    BY <1>1, ProofsStayKept DEF PipelineInv
  <1>6. EventId' = EventId
    BY DEF EventId
  <1>7. \A p, q \in proofs' : p.event = q.event \/ p.settlement = q.settlement => p = q
    BY <1>1 DEF PipelineInv
  <1>8. UNCHANGED <<settlements, pipelineTotals>>
    BY <1>1
  <1> QED BY <1>3, <1>4, <1>5, <1>6, <1>7, <1>8, SettlementsStay DEF PipelineInv

LEMMA FlushQueueKeepsPipeline ==
  ASSUME PipelineInv, now \in Nat, now' = now, FlushQueue
  PROVE  PipelineInv'
  <1>1. /\ eventQueue' = <<>> /\ flushed' = flushed \o eventQueue
        /\ UNCHANGED <<pipelineTotals, proofs, settlements, ingested>>
    BY DEF FlushQueue
  <1>2. eventQueue \in Seq(BillingEvent) /\ flushed \in Seq(BillingEvent)
    BY DEF PipelineInv
  <1>3. /\ flushed \o eventQueue \in Seq(BillingEvent)
        /\ Len(flushed \o eventQueue) = Len(flushed) + Len(eventQueue)
    BY <1>2, ConcatProperties
  <1>4. /\ eventQueue' \in Seq(BillingEvent) /\ ingested' \in Seq(EventId)
        /\ flushed' \in Seq(BillingEvent)
    BY <1>1, <1>3 DEF PipelineInv
  <1>5. Len(ingested') = Len(eventQueue') + Len(flushed') + eventsProcessed'
    <2>1. PICK i, q, f, n : /\ i = Len(ingested) /\ q = Len(eventQueue) /\ f = Len(flushed)
                            /\ n = eventsProcessed
      OBVIOUS
    <2>2. i \in Nat /\ q \in Nat /\ f \in Nat /\ n \in Nat /\ i = q + f + n
      BY <2>1 DEF PipelineInv
    <2>3. /\ Len(ingested') = i /\ Len(eventQueue') = 0 /\ Len(flushed') = f + q
          /\ eventsProcessed' = n
      BY <1>1, <1>3, <2>1 DEF pipelineTotals
    <2> QED BY <2>2, <2>3
  <1>6. \A p \in proofs' : ProofKept(p)'
    BY <1>1, ProofsStayKept DEF PipelineInv
  <1>7. EventId' = EventId
    BY DEF EventId
  <1>8. \A p, q \in proofs' : p.event = q.event \/ p.settlement = q.settlement => p = q
    BY <1>1 DEF PipelineInv
  <1>9. UNCHANGED <<settlements, pipelineTotals>>
    BY <1>1
  <1> QED BY <1>4, <1>5, <1>6, <1>7, <1>8, <1>9, SettlementsStay DEF PipelineInv

\* Only the proofs change.
LEMMA EventsStay ==
  ASSUME PipelineInv, now' \in Nat,
         UNCHANGED <<eventQueue, pipelineTotals, ingested, settlements, flushed>>,
         \A p \in proofs' : ProofKept(p)',
         \A p, q \in proofs' : p.event = q.event \/ p.settlement = q.settlement => p = q
  PROVE  PipelineInv'
  <1>1. /\ eventQueue' \in Seq(BillingEvent) /\ flushed' \in Seq(BillingEvent)
        /\ ingested' \in Seq(EventId)
        /\ Len(ingested') = Len(eventQueue') + Len(flushed') + eventsProcessed'
    BY DEF PipelineInv, pipelineTotals
  <1>2. EventId' = EventId
    BY DEF EventId
  <1> QED BY <1>1, <1>2, SettlementsStay DEF PipelineInv

LEMMA RecordProofKeepsPipeline ==
  ASSUME PipelineInv, now \in Nat, now' = now, NEW s \in settlements, RecordProof(s)
  PROVE  PipelineInv'
  <1>0. PICK new :
          new = [settlement |-> s.id, event |-> s.event, at |-> now, status |-> "Pending"]
    OBVIOUS
  <1>1. /\ proofs' = proofs \cup {new}
        /\ UNCHANGED <<eventQueue, pipelineTotals, ingested, settlements, flushed>>
        /\ \A p \in proofs : p.settlement # s.id /\ p.event # s.event
    BY <1>0 DEF RecordProof
  <1>2. new.settlement = s.id /\ new.event = s.event
    BY <1>0
  <1>3. ProofKept(new)'
    <2>1. s \in settlements' /\ now \in 0 .. now' /\ "Pending" \in ProofStatus
      BY <1>1 DEF ProofStatus
    <2> QED BY <1>0, <2>1 DEF ProofKept
  <1>4. \A p \in proofs' : ProofKept(p)'
    <2>1. ASSUME NEW p \in proofs
          PROVE  ProofKept(p)'
      <3>1. ProofKept(p) /\ settlements \subseteq settlements' /\ now' >= now
        BY <1>1 DEF PipelineInv
      <3> QED BY <3>1, ProofsStayKept
    <2> QED BY <1>1, <1>3, <2>1
  <1>5. \A p, q \in proofs' : p.event = q.event \/ p.settlement = q.settlement => p = q
    BY <1>1, <1>2 DEF PipelineInv
  <1> QED BY <1>1, <1>4, <1>5, EventsStay

LEMMA UpdateConfirmationsKeepsPipeline ==
  ASSUME PipelineInv, now \in Nat, now' = now, NEW p \in proofs, UpdateConfirmations(p)
  PROVE  PipelineInv'
  <1> DEFINE new == [p EXCEPT !.status = ProofStatusAt(now - p.at)]
  <1>1. /\ proofs' = (proofs \ {p}) \cup {new}
        /\ UNCHANGED <<eventQueue, pipelineTotals, ingested, settlements, flushed>>
    BY DEF UpdateConfirmations
  <1>2. ProofKept(new) /\ new.settlement = p.settlement /\ new.event = p.event
    <2>1. PICK s \in settlements, n \in 0 .. now, status \in ProofStatus :
            p = [settlement |-> s.id, event |-> s.event, at |-> n, status |-> status]
      BY DEF PipelineInv, ProofKept
    <2>2. PICK next : next = ProofStatusAt(now - p.at)
      OBVIOUS
    <2>3. next \in ProofStatus
      BY <2>2 DEF ProofStatusAt, ProofStatus
    <2>4. new = [settlement |-> s.id, event |-> s.event, at |-> n, status |-> next]
      BY <2>1, <2>2
    <2>5. p.settlement = s.id /\ p.event = s.event
      BY <2>1
    <2> HIDE DEF new
    <2>6. new.settlement = s.id /\ new.event = s.event
      BY <2>4
    <2> QED BY <2>3, <2>4, <2>5, <2>6 DEF ProofKept
  <1> HIDE DEF new
  <1>3. \A q \in proofs' : ProofKept(q)'
    BY <1>1, <1>2, ProofsStayKept DEF PipelineInv
  <1>4. \A q, r \in proofs' : q.event = r.event \/ q.settlement = r.settlement => q = r
    BY <1>1, <1>2 DEF PipelineInv
  <1> QED BY <1>1, <1>3, <1>4, EventsStay

LEMMA PipelineInvInit ==
  ASSUME PipelineInit
  PROVE  PipelineInv
  <1>1. /\ eventQueue = <<>> /\ totalSettled = 0 /\ totalFees = 0 /\ eventsProcessed = 0
        /\ batchesCreated = 0 /\ lastBatchHeight = 0 /\ proofs = {} /\ ingested = <<>>
        /\ settlements = {} /\ flushed = <<>>
    BY DEF PipelineInit
  <1>2. KeysOf({}) = {}
    BY DEF KeysOf
  <1>3. IsFiniteSet({}) /\ Cardinality({}) = 0
    BY FS_EmptySet
  <1>4. SumFunction(AmountsOf({})) = 0 /\ SumFunction(FeesOf({})) = 0
    <2>1. DOMAIN AmountsOf({}) = {} /\ DOMAIN FeesOf({}) = {}
      BY DEF AmountsOf, FeesOf
    <2> QED BY <2>1, SumOnEmpty DEF SumFunction
  <1> QED BY <1>1, <1>2, <1>3, <1>4 DEF PipelineInv

LEMMA PipelineInvStep ==
  ASSUME PipelineInv, now \in Nat, now' \in Nat, now' >= now,
         (PipelineNext /\ now' = now) \/ UNCHANGED pipelineVars
  PROVE  PipelineInv'
  <1>1. CASE PipelineNext /\ now' = now
    BY <1>1, IngestEventKeepsPipeline, CreateBatchKeepsPipeline, FlushQueueKeepsPipeline,
       RecordProofKeepsPipeline, UpdateConfirmationsKeepsPipeline DEF PipelineNext
  <1>2. CASE UNCHANGED pipelineVars
    <2>1. /\ UNCHANGED <<eventQueue, pipelineTotals, ingested, settlements, flushed>>
          /\ proofs' = proofs
      BY <1>2 DEF pipelineVars
    <2>2. \A p \in proofs' : ProofKept(p)'
      BY <2>1, ProofsStayKept DEF PipelineInv
    <2>3. \A p, q \in proofs' : p.event = q.event \/ p.settlement = q.settlement => p = q
      BY <2>1 DEF PipelineInv
    <2> QED BY <2>1, <2>2, <2>3, EventsStay
  <1> QED BY <1>1, <1>2

LEMMA PipelineInvImplies ==
  ASSUME PipelineInv
  PROVE  EventsAccountedFor /\ ProofsOfSettlements
  <1>1. EventsAccountedFor
    BY DEF PipelineInv, EventsAccountedFor, SumOver, AmountsOf, FeesOf, KeysOf
  <1>2. ASSUME NEW p \in proofs
        PROVE  \E s \in settlements : s.id = p.settlement /\ s.event = p.event
    <2>1. ProofKept(p)
      BY DEF PipelineInv
    <2>2. PICK s \in settlements, n \in 0 .. now, status \in ProofStatus :
            p = [settlement |-> s.id, event |-> s.event, at |-> n, status |-> status]
      BY <2>1 DEF ProofKept
    <2>3. p.settlement = s.id /\ p.event = s.event
      BY <2>2
    <2> QED BY <2>3
  <1> QED BY <1>1, <1>2 DEF PipelineInv, ProofsOfSettlements


----------------------------------------------------------------------------
(* Deferred charges are accounted for *)

\* The shortfalls of the records at some places.
ShortfallsOf(r, places) == [i \in places |-> r[i].shortfall]

Resolved(r) == {i \in DOMAIN r : r[i].resolved}
Deferring(r) == {i \in DOMAIN r : r[i].action = "DeferredSettlement"}

FallbackInv ==
  /\ FallbackTypeOK
  /\ Deferring(fallbackRecords) \ Resolved(fallbackRecords) = deferred \cup expiredCharges
  /\ deferred \cap expiredCharges = {}
  /\ expiredCharges \cap Resolved(fallbackRecords) = {}
  /\ \A i \in DOMAIN fallbackRecords : fallbackRecords[i].resolved /\ IsDeferred(i) =>
       fallbackRecords[i].resolvedAt <= fallbackRecords[i].deadline
  /\ \A i \in expiredCharges : fallbackRecords[i].deadline < now
  /\ totalShortfall = SumFunction(ShortfallsOf(fallbackRecords, DOMAIN fallbackRecords))
  /\ totalRecovered = SumFunction(ShortfallsOf(fallbackRecords, Resolved(fallbackRecords)))

LEMMA RecordsOf ==
  ASSUME NEW r \in Seq(FallbackRecord)
  PROVE  /\ DOMAIN r = 1 .. Len(r) /\ Len(r) \in Nat /\ IsFiniteSet(DOMAIN r)
         /\ IsFiniteSet(Resolved(r)) /\ Resolved(r) \subseteq DOMAIN r
         /\ \A i \in DOMAIN r : r[i] \in FallbackRecord /\ r[i].shortfall \in Nat
  <1>1. DOMAIN r = 1 .. Len(r) /\ Len(r) \in Nat
    OBVIOUS
  <1>2. IsFiniteSet(DOMAIN r)
    BY <1>1, FS_Interval
  <1>3. Resolved(r) \subseteq DOMAIN r
    BY DEF Resolved
  <1>4. IsFiniteSet(Resolved(r))
    BY <1>2, <1>3, FS_Subset
  <1>5. \A i \in DOMAIN r : r[i] \in FallbackRecord
    OBVIOUS
  <1> QED BY <1>1, <1>2, <1>3, <1>4, <1>5 DEF FallbackRecord

\* One more place adds its shortfall.
PlaceAdded(S, x, r, next) ==
  /\ x \notin S /\ next[x].shortfall \in Nat
  /\ \A i \in S : r[i].shortfall \in Nat /\ next[i].shortfall = r[i].shortfall

LEMMA OneMorePlace ==
  ASSUME NEW S, IsFiniteSet(S), NEW x, NEW r, NEW next, PlaceAdded(S, x, r, next)
  PROVE  /\ SumFunction(ShortfallsOf(next, S \cup {x}))
              = SumFunction(ShortfallsOf(r, S)) + next[x].shortfall
         /\ SumFunction(ShortfallsOf(r, S)) \in Nat
  <1>1. PICK f, g, T : f = ShortfallsOf(r, S) /\ g = ShortfallsOf(next, T) /\ T = S \cup {x}
    OBVIOUS
  <1>2. \A i \in S : f[i] \in Nat /\ g[i] = f[i]
    BY <1>1 DEF ShortfallsOf, PlaceAdded
  <1>3. g[x] = next[x].shortfall /\ g[x] \in Nat /\ x \notin S
    BY <1>1 DEF ShortfallsOf, PlaceAdded
  <1>4. f \in [S -> Nat] /\ DOMAIN g = T /\ \A i \in T : g[i] = next[i].shortfall
    BY <1>1, <1>2 DEF ShortfallsOf
  <1>5. \A i \in T : g[i] \in Nat
    BY <1>1, <1>2, <1>3
  <1>6. g \in [T -> Nat]
    BY <1>1, <1>5 DEF ShortfallsOf
  <1>7. f \in [S -> Int]
    BY <1>4
  <1>8. g \in [S \cup {x} -> Int]
    BY <1>1, <1>6
  <1>9. \A y \in S : g[y] = f[y]
    BY <1>2
  <1>10. x \notin S
    BY <1>3
  <1>11. SumFunction(g) = SumFunction(f) + g[x]
    BY <1>7, <1>8, <1>9, <1>10, SumExtend
  <1>12. SumFunction(f) \in Nat
    BY <1>4, SumNat
  <1> QED BY <1>1, <1>3, <1>11, <1>12

LEMMA HandleShortfallKeepsCharges ==
  ASSUME FallbackInv, now \in Nat, now' = now, NEW required \in FallbackAmounts,
         NEW available \in FallbackAmounts, NEW credit \in FallbackAmounts,
         HandleShortfall(required, available, credit)
  PROVE  FallbackInv'
  <1>1. PICK shortfall, action, deadline, r, n :
          /\ shortfall = Monus(required, available) /\ deadline = now + MaxDeferBlocks
          /\ action = ActionFor(Monus(required, available), available, credit)
          /\ r = fallbackRecords /\ n = Len(fallbackRecords)
    OBVIOUS
  <1> DEFINE new == [shortfall |-> shortfall, action |-> action, deadline |-> deadline,
                     resolved |-> FALSE, resolvedAt |-> 0]
  <1>2. /\ fallbackRecords' = Append(r, new) /\ totalShortfall' = totalShortfall + shortfall
        /\ deferred' = IF action = "DeferredSettlement" THEN deferred \cup {n + 1} ELSE deferred
        /\ totalRecovered' = totalRecovered /\ expiredCharges' = expiredCharges
    BY <1>1 DEF HandleShortfall
  <1>3. shortfall \in Nat /\ deadline \in Nat /\ action \in FallbackAction
    <2>1. required \in Nat /\ available \in Nat /\ MaxDeferBlocks \in Nat
      BY FallbackTyped DEF FallbackTyped
    <2>2. shortfall \in Nat
      BY <1>1, <2>1 DEF Monus
    <2> QED BY <1>1, <2>1, <2>2 DEF ActionFor, FallbackAction
  <1>4. /\ new \in FallbackRecord /\ new.shortfall = shortfall /\ new.action = action
        /\ new.resolved = FALSE
    BY <1>3 DEF FallbackRecord
  <1> HIDE DEF new
  <1>5. r \in Seq(FallbackRecord) /\ DOMAIN r = 1 .. n /\ n \in Nat
    BY <1>1 DEF FallbackInv, FallbackTypeOK
  <1> DEFINE next == Append(r, new)
  <1>6. /\ next \in Seq(FallbackRecord) /\ DOMAIN next = (1 .. n) \cup {n + 1}
        /\ n + 1 \notin 1 .. n /\ next[n + 1] = new /\ \A i \in 1 .. n : next[i] = r[i]
    BY <1>1, <1>4, <1>5
  <1>7. fallbackRecords' = next
    BY <1>2
  <1> HIDE DEF next
  <1>8. PICK D, x : D = 1 .. n /\ x = n + 1
    OBVIOUS
  <1>9. /\ DOMAIN r = D /\ DOMAIN next = D \cup {x} /\ x \notin D /\ next[x] = new
        /\ \A i \in D : next[i] = r[i]
    BY <1>5, <1>6, <1>8
  <1>10. Resolved(next) = Resolved(r) /\ Resolved(r) \subseteq D
    BY <1>4, <1>9 DEF Resolved
  <1>11. /\ Deferring(r) \subseteq D
         /\ Deferring(next) = IF action = "DeferredSettlement" THEN Deferring(r) \cup {x}
                              ELSE Deferring(r)
    BY <1>4, <1>9 DEF Deferring
  <1>12. /\ deferred \subseteq D /\ expiredCharges \subseteq D
         /\ deferred' = IF action = "DeferredSettlement" THEN deferred \cup {x} ELSE deferred
    BY <1>1, <1>2, <1>8, <1>9 DEF FallbackInv, FallbackTypeOK
  <1>13. /\ Deferring(r) \ Resolved(r) = deferred \cup expiredCharges
         /\ deferred \cap expiredCharges = {} /\ expiredCharges \cap Resolved(r) = {}
    BY <1>1 DEF FallbackInv
  <1>14. /\ Deferring(next) \ Resolved(next) = deferred' \cup expiredCharges'
         /\ deferred' \cap expiredCharges' = {} /\ expiredCharges' \cap Resolved(next) = {}
    BY <1>2, <1>9, <1>10, <1>11, <1>12, <1>13
  <1>15. \A i \in DOMAIN next : next[i].resolved /\ next[i].action = "DeferredSettlement" =>
           next[i].resolvedAt <= next[i].deadline
    BY <1>1, <1>4, <1>9 DEF FallbackInv, IsDeferred
  <1>16. \A i \in expiredCharges' : next[i].deadline < now
    BY <1>1, <1>2, <1>9, <1>12 DEF FallbackInv
  <1>17. /\ totalShortfall' = SumFunction(ShortfallsOf(next, DOMAIN next))
         /\ totalShortfall' \in Nat
    <2>1. IsFiniteSet(D) /\ \A i \in D : r[i].shortfall \in Nat
      BY <1>5, <1>9, RecordsOf
    <2>2. next[x].shortfall = shortfall /\ \A i \in D : next[i].shortfall = r[i].shortfall
      BY <1>4, <1>9
    <2>3. /\ SumFunction(ShortfallsOf(next, D \cup {x}))
               = SumFunction(ShortfallsOf(r, D)) + next[x].shortfall
          /\ SumFunction(ShortfallsOf(r, D)) \in Nat
      <3>1. PlaceAdded(D, x, r, next)
        BY <1>3, <1>9, <2>1, <2>2 DEF PlaceAdded
      <3> QED BY <2>1, <3>1, OneMorePlace
    <2>4. totalShortfall = SumFunction(ShortfallsOf(r, D))
      BY <1>1, <1>9 DEF FallbackInv
    <2> QED BY <1>2, <1>3, <1>9, <2>2, <2>3, <2>4
  <1>18. ShortfallsOf(next, Resolved(next)) = ShortfallsOf(r, Resolved(r))
    BY <1>9, <1>10 DEF ShortfallsOf
  <1>19. totalRecovered' = SumFunction(ShortfallsOf(next, Resolved(next)))
    BY <1>1, <1>2, <1>18 DEF FallbackInv
  <1>20. /\ deferred' \subseteq DOMAIN next /\ expiredCharges' \subseteq DOMAIN next
         /\ totalRecovered' \in Nat
    BY <1>2, <1>9, <1>12 DEF FallbackInv, FallbackTypeOK
  <1> QED BY <1>6, <1>7, <1>14, <1>15, <1>16, <1>17, <1>19, <1>20
          DEF FallbackInv, FallbackTypeOK, IsDeferred

LEMMA ResolveDeferredKeepsCharges ==
  ASSUME FallbackInv, now \in Nat, now' = now, NEW k \in DOMAIN fallbackRecords,
         ResolveDeferred(k)
  PROVE  FallbackInv'
  <1>1. PICK r, old : r = fallbackRecords /\ old = fallbackRecords[k]
    OBVIOUS
  <1> DEFINE new == [old EXCEPT !.resolved = TRUE, !.resolvedAt = now]
  <1>2. r \in Seq(FallbackRecord) /\ old \in FallbackRecord /\ old = r[k] /\ k \in DOMAIN r
    BY <1>1 DEF FallbackInv, FallbackTypeOK
  <1>3. /\ new \in FallbackRecord /\ new.shortfall = old.shortfall /\ new.action = old.action
        /\ new.deadline = old.deadline /\ new.resolved = TRUE /\ new.resolvedAt = now
        /\ old.shortfall \in Nat /\ old.deadline \in Nat
    BY <1>2 DEF FallbackRecord
  <1> DEFINE next == [r EXCEPT ![k] = new]
  <1>4. fallbackRecords' = next
    BY <1>1, <1>2 DEF ResolveDeferred, FallbackRecord
  <1>5. /\ old.resolved = FALSE /\ ~PastDeadline(k)
        /\ totalRecovered' = totalRecovered + old.shortfall
        /\ deferred' = deferred \ {k} /\ totalShortfall' = totalShortfall
        /\ expiredCharges' = expiredCharges
    BY <1>1, <1>2 DEF ResolveDeferred, FallbackRecord
  <1> HIDE DEF new
  <1>6. /\ next \in Seq(FallbackRecord) /\ DOMAIN next = DOMAIN r
        /\ next[k] = new /\ \A i \in DOMAIN r \ {k} : next[i] = r[i]
    BY <1>2, <1>3
  <1> HIDE DEF next
  <1>7. Resolved(next) = Resolved(r) \cup {k} /\ k \notin Resolved(r)
    BY <1>2, <1>3, <1>5, <1>6 DEF Resolved
  <1>8. Deferring(next) = Deferring(r) /\ (k \in Deferring(r) <=> old.action = "DeferredSettlement")
    BY <1>2, <1>3, <1>6 DEF Deferring
  <1>9. /\ Deferring(r) \ Resolved(r) = deferred \cup expiredCharges
        /\ deferred \cap expiredCharges = {} /\ expiredCharges \cap Resolved(r) = {}
    BY <1>1 DEF FallbackInv
  <1>10. old.action = "DeferredSettlement" => now <= old.deadline
    BY <1>1, <1>3, <1>5 DEF PastDeadline, IsDeferred
  <1>11. k \notin expiredCharges
    <2> SUFFICES ASSUME k \in expiredCharges PROVE FALSE
      OBVIOUS
    <2>1. old.deadline < now
      BY <1>1 DEF FallbackInv
    <2>2. old.action = "DeferredSettlement"
      BY <1>8, <1>9
    <2> QED BY <1>3, <1>10, <2>1, <2>2
  <1>12. /\ Deferring(next) \ Resolved(next) = deferred' \cup expiredCharges'
         /\ deferred' \cap expiredCharges' = {} /\ expiredCharges' \cap Resolved(next) = {}
    BY <1>5, <1>7, <1>8, <1>9, <1>11
  <1>13. \A i \in DOMAIN next : next[i].resolved /\ next[i].action = "DeferredSettlement" =>
           next[i].resolvedAt <= next[i].deadline
    <2> SUFFICES ASSUME NEW i \in DOMAIN next, next[i].resolved,
                        next[i].action = "DeferredSettlement"
                 PROVE  next[i].resolvedAt <= next[i].deadline
      OBVIOUS
    <2>1. CASE i = k
      BY <1>3, <1>6, <1>10, <2>1
    <2>2. CASE i # k
      BY <1>1, <1>6, <2>2 DEF FallbackInv, IsDeferred
    <2> QED BY <2>1, <2>2
  <1>14. \A i \in expiredCharges' : next[i].deadline < now
    <2>1. \A i \in expiredCharges : i \in DOMAIN r \ {k} /\ r[i].deadline < now
      BY <1>1, <1>11 DEF FallbackInv, FallbackTypeOK
    <2> QED BY <1>5, <1>6, <2>1
  <1>15. \A i \in DOMAIN r : next[i].shortfall = r[i].shortfall
    BY <1>2, <1>3, <1>6
  <1>16. ShortfallsOf(next, DOMAIN next) = ShortfallsOf(r, DOMAIN r)
    BY <1>6, <1>15 DEF ShortfallsOf
  <1>17. totalShortfall' = SumFunction(ShortfallsOf(next, DOMAIN next))
    BY <1>1, <1>5, <1>16 DEF FallbackInv
  <1>18. /\ totalRecovered' = SumFunction(ShortfallsOf(next, Resolved(next)))
         /\ totalRecovered' \in Nat
    <2>1. PICK D : D = Resolved(r)
      OBVIOUS
    <2>2. IsFiniteSet(D) /\ \A i \in D : r[i].shortfall \in Nat
      BY <1>2, <2>1, RecordsOf
    <2>3. next[k].shortfall = old.shortfall /\ \A i \in D : next[i].shortfall = r[i].shortfall
      BY <1>2, <1>15, <2>1, RecordsOf
    <2>4. /\ SumFunction(ShortfallsOf(next, D \cup {k}))
               = SumFunction(ShortfallsOf(r, D)) + next[k].shortfall
          /\ SumFunction(ShortfallsOf(r, D)) \in Nat
      <3>1. PlaceAdded(D, k, r, next)
        BY <1>3, <1>7, <2>1, <2>2, <2>3 DEF PlaceAdded
      <3> QED BY <2>2, <3>1, OneMorePlace
    <2>5. totalRecovered = SumFunction(ShortfallsOf(r, D))
      BY <1>1, <2>1 DEF FallbackInv
    <2> QED BY <1>3, <1>5, <1>7, <2>1, <2>3, <2>4, <2>5
  <1>19. /\ deferred' \subseteq DOMAIN next /\ expiredCharges' \subseteq DOMAIN next
         /\ totalShortfall' \in Nat
    BY <1>1, <1>5, <1>6 DEF FallbackInv, FallbackTypeOK
  <1> QED BY <1>4, <1>6, <1>12, <1>13, <1>14, <1>17, <1>18, <1>19
          DEF FallbackInv, FallbackTypeOK, IsDeferred

LEMMA ExpireDeferredKeepsCharges ==
  ASSUME FallbackInv, now \in Nat, now' = now, ExpireDeferred
  PROVE  FallbackInv'
  <1>1. PICK late : late = {i \in deferred : PastDeadline(i)}
    OBVIOUS
  <1>2. /\ deferred' = deferred \ late /\ expiredCharges' = expiredCharges \cup late
        /\ UNCHANGED <<fallbackRecords, totalShortfall, totalRecovered>>
    BY <1>1 DEF ExpireDeferred
  <1>3. late \subseteq deferred
    BY <1>1
  <1>4. \A i \in late : fallbackRecords[i].deadline < now
    <2> SUFFICES ASSUME NEW i \in late PROVE fallbackRecords[i].deadline < now
      OBVIOUS
    <2>1. i \in DOMAIN fallbackRecords /\ fallbackRecords \in Seq(FallbackRecord)
      BY <1>3 DEF FallbackInv, FallbackTypeOK
    <2>2. fallbackRecords[i] \in FallbackRecord
      BY <2>1
    <2>3. fallbackRecords[i].deadline \in Nat
      BY <2>2 DEF FallbackRecord
    <2>4. now > fallbackRecords[i].deadline
      BY <1>1 DEF PastDeadline
    <2> QED BY <2>3, <2>4
  <1> QED BY <1>2, <1>3, <1>4 DEF FallbackInv, FallbackTypeOK, IsDeferred

LEMMA FallbackInvInit ==
  ASSUME FallbackInit
  PROVE  FallbackInv
  <1>1. /\ fallbackRecords = <<>> /\ deferred = {} /\ totalShortfall = 0
        /\ totalRecovered = 0 /\ expiredCharges = {}
    BY DEF FallbackInit
  <1>2. DOMAIN fallbackRecords = {} /\ fallbackRecords \in Seq(FallbackRecord)
    BY <1>1
  <1>3. Resolved(fallbackRecords) = {} /\ Deferring(fallbackRecords) = {}
    BY <1>2 DEF Resolved, Deferring
  <1>4. SumFunction(ShortfallsOf(fallbackRecords, {})) = 0
    <2>1. DOMAIN ShortfallsOf(fallbackRecords, {}) = {}
      BY DEF ShortfallsOf
    <2> QED BY <2>1, SumOnEmpty DEF SumFunction
  <1> QED BY <1>1, <1>2, <1>3, <1>4 DEF FallbackInv, FallbackTypeOK

LEMMA FallbackInvStep ==
  ASSUME FallbackInv, now \in Nat, now' \in Nat, now' >= now,
         (FallbackNext /\ now' = now) \/ UNCHANGED fallbackVars
  PROVE  FallbackInv'
  <1>1. CASE FallbackNext /\ now' = now
    BY <1>1, HandleShortfallKeepsCharges, ResolveDeferredKeepsCharges,
       ExpireDeferredKeepsCharges DEF FallbackNext
  <1>2. CASE UNCHANGED fallbackVars
    <2>1. UNCHANGED <<fallbackRecords, deferred, totalShortfall, totalRecovered, expiredCharges>>
      BY <1>2 DEF fallbackVars
    <2>2. \A i \in expiredCharges' : fallbackRecords'[i].deadline < now'
      <3> SUFFICES ASSUME NEW i \in expiredCharges
                   PROVE  fallbackRecords[i].deadline < now'
        BY <2>1
      <3>1. i \in DOMAIN fallbackRecords /\ fallbackRecords \in Seq(FallbackRecord)
        BY DEF FallbackInv, FallbackTypeOK
      <3>2. fallbackRecords[i] \in FallbackRecord
        BY <3>1
      <3>3. fallbackRecords[i].deadline \in Nat
        BY <3>2 DEF FallbackRecord
      <3>4. fallbackRecords[i].deadline < now
        BY DEF FallbackInv
      <3> QED BY <3>3, <3>4
    <2> QED BY <2>1, <2>2 DEF FallbackInv, FallbackTypeOK, IsDeferred
  <1> QED BY <1>1, <1>2

LEMMA FallbackInvImplies ==
  ASSUME FallbackInv
  PROVE  ChargesAccounted
  BY DEF FallbackInv, ChargesAccounted, Shortfalls, SumOver, ShortfallsOf, Resolved, Deferring,
     IsDeferred


----------------------------------------------------------------------------
(* Discrepancies are known *)

\* What a pass leaves in the history.
PassRecord == UNION {[accounts -> BalanceRecord] : accounts \in SUBSET SyncAccount}

\* The passes since one in which an account differed, and what is known of it.
PassesOf(h, since, a) ==
  {i \in DOMAIN h : i > since /\ a \in DOMAIN h[i] /\ h[i][a].discrepancy # 0}

Latest(h, passes, a, known) ==
  \/ passes = {} /\ known = NoDiscrepancy
  \/ \E m \in passes : (\A i \in passes : i <= m) /\ known = h[m][a]

FixesOf(pass) == Cardinality({a \in DOMAIN pass : Fixable(pass[a].discrepancy)})
AllFixes(h) == [i \in DOMAIN h |-> FixesOf(h[i])]

BalanceSyncInv ==
  /\ BalanceSyncTypeOK
  /\ syncHistory \in Seq(PassRecord)
  /\ \A a \in SyncAccount : resolvedAt[a] <= Len(syncHistory)
  /\ \A a \in SyncAccount :
       Latest(syncHistory, PassesOf(syncHistory, resolvedAt[a], a), a, knownDiscrepancies[a])
  /\ totalSyncs = Len(syncHistory)
  /\ totalAutoFixes = SumFunction(AllFixes(syncHistory))

LEMMA FixesTyped ==
  ASSUME NEW pass \in PassRecord
  PROVE  FixesOf(pass) \in Nat
  <1>1. PICK accounts \in SUBSET SyncAccount : pass \in [accounts -> BalanceRecord]
    BY DEF PassRecord
  <1>2. {a \in DOMAIN pass : Fixable(pass[a].discrepancy)} \subseteq SyncAccount
    BY <1>1
  <1>3. IsFiniteSet({a \in DOMAIN pass : Fixable(pass[a].discrepancy)})
    BY <1>2, BalanceSyncTyped, FS_Subset DEF BalanceSyncTyped
  <1> QED BY <1>3, FS_CardinalityType DEF FixesOf

LEMMA DiscrepancyTyped ==
  ASSUME NEW isa \in Nat, NEW credits \in Nat, NEW isaPrice \in Nat, NEW unitPrice \in Nat
  PROVE  Discrepancy(isa, credits, isaPrice, unitPrice) \in Int
  <1>1. CASE isaPrice = 0 \/ unitPrice = 0
    BY <1>1 DEF Discrepancy
  <1>2. CASE ~(isaPrice = 0 \/ unitPrice = 0)
    <2>1. PICK n, m : n = isa * isaPrice /\ m = IsaUnit * unitPrice
      OBVIOUS
    <2>2. n \in Nat
      BY <2>1
    <2>3. IsaUnit \in Nat \ {0}
      BY BalanceSyncTyped DEF BalanceSyncTyped
    <2>4. m \in Nat \ {0}
      BY <1>2, <2>1, <2>3
    <2>5. n \div m \in Int
      BY <2>2, <2>4, DivMod
    <2> QED BY <1>2, <2>1, <2>5 DEF Discrepancy
  <1> QED BY <1>1, <1>2

\* A pass is added to the history.
LEMMA PassAdded ==
  ASSUME NEW h \in Seq(PassRecord), NEW pass \in PassRecord
  PROVE  /\ Append(h, pass) \in Seq(PassRecord) /\ Len(Append(h, pass)) = Len(h) + 1
         /\ DOMAIN h = 1 .. Len(h) /\ Len(h) \in Nat
         /\ DOMAIN Append(h, pass) = 1 .. Len(h) + 1 /\ Append(h, pass)[Len(h) + 1] = pass
         /\ \A i \in 1 .. Len(h) : Append(h, pass)[i] = h[i]
  OBVIOUS

\* An account that differs in the last pass is known from it.
LEMMA DiffersNow ==
  ASSUME NEW h, NEW n \in Nat, DOMAIN h = 1 .. n + 1, NEW since \in Nat, since <= n, NEW a,
         NEW known, a \in DOMAIN h[n + 1], h[n + 1][a].discrepancy # 0, known = h[n + 1][a]
  PROVE  Latest(h, PassesOf(h, since, a), a, known)
  <1>1. n + 1 \in PassesOf(h, since, a)
    BY DEF PassesOf
  <1>2. \A i \in PassesOf(h, since, a) : i <= n + 1
    BY DEF PassesOf
  <1> QED BY <1>1, <1>2 DEF Latest

\* One that does not is known from where it was.
LEMMA EqualNow ==
  ASSUME NEW h, NEW next, NEW n \in Nat, DOMAIN h = 1 .. n, DOMAIN next = 1 .. n + 1,
         \A i \in 1 .. n : next[i] = h[i], NEW since, NEW a, NEW known,
         ~(a \in DOMAIN next[n + 1] /\ next[n + 1][a].discrepancy # 0),
         Latest(h, PassesOf(h, since, a), a, known)
  PROVE  Latest(next, PassesOf(next, since, a), a, known)
  <1>1. 1 .. n + 1 = (1 .. n) \cup {n + 1}
    OBVIOUS
  <1>2. PassesOf(next, since, a) = PassesOf(h, since, a)
    BY <1>1 DEF PassesOf
  <1>3. \A m \in PassesOf(h, since, a) : next[m] = h[m]
    BY DEF PassesOf
  <1> QED BY <1>2, <1>3 DEF Latest

LEMMA FixesAdded ==
  ASSUME NEW h \in Seq(PassRecord), NEW pass \in PassRecord
  PROVE  /\ SumFunction(AllFixes(Append(h, pass))) = SumFunction(AllFixes(h)) + FixesOf(pass)
         /\ SumFunction(AllFixes(h)) \in Nat
  <1>1. PICK n, next : n = Len(h) /\ next = Append(h, pass)
    OBVIOUS
  <1>2. /\ next \in Seq(PassRecord) /\ n \in Nat
        /\ DOMAIN h = 1 .. n /\ DOMAIN next = 1 .. n + 1 /\ next[n + 1] = pass
        /\ \A i \in 1 .. n : next[i] = h[i]
    BY <1>1, PassAdded
  <1>3. \A i \in 1 .. n : FixesOf(h[i]) \in Nat
    BY <1>2, FixesTyped
  <1>4. \A i \in 1 .. n + 1 : FixesOf(next[i]) \in Nat
    BY <1>2, FixesTyped
  <1>5. PICK f, g : f = AllFixes(h) /\ g = AllFixes(next)
    OBVIOUS
  <1>6. f \in [1 .. n -> Nat] /\ Summands(f, n)
    BY <1>2, <1>3, <1>5 DEF AllFixes, Summands
  <1>7. Summands(g, n + 1) /\ g[n + 1] = FixesOf(pass)
    BY <1>2, <1>4, <1>5 DEF AllFixes, Summands
  <1>8. \A i \in 1 .. n : g[i] = f[i]
    BY <1>2, <1>5 DEF AllFixes
  <1>9. SumFunction(g) = SumFunction(f) + g[n + 1]
    BY <1>2, <1>6, <1>7, <1>8, SumAppend
  <1>10. SumFunction(f) \in Nat
    <2>1. IsFiniteSet(1 .. n)
      <3>1. n \in Nat /\ 1 \in Int
        BY <1>2
      <3> QED BY <3>1, FS_Interval
    <2>2. f \in [1 .. n -> Nat]
      BY <1>6
    <2> QED BY <2>1, <2>2, SumNat
  <1> QED BY <1>1, <1>5, <1>7, <1>9, <1>10

LEMMA RunSyncKeepsKnown ==
  ASSUME BalanceSyncInv, now \in Nat, NEW accounts \in SUBSET SyncAccount,
         NEW balances \in [accounts -> [isa : ChainBalances, credits : CreditBalances]],
         NEW isaPrice \in SyncPrices, NEW unitPrice \in SyncPrices,
         RunSync(balances, isaPrice, unitPrice)
  PROVE  BalanceSyncInv'
  <1>1. PICK d, differing, pass, h, n :
          /\ d = [a \in accounts |->
                    Discrepancy(balances[a].isa, balances[a].credits, isaPrice, unitPrice)]
          /\ differing = {a \in accounts : d[a] # 0}
          /\ pass = [a \in accounts |-> [discrepancy |-> d[a], lastSynced |-> now]]
          /\ h = syncHistory /\ n = Len(syncHistory)
    OBVIOUS
  <1>2. d \in [accounts -> Int]
    <2>1. ASSUME NEW a \in accounts
          PROVE  Discrepancy(balances[a].isa, balances[a].credits, isaPrice, unitPrice) \in Int
      <3>1. balances[a].isa \in Nat /\ balances[a].credits \in Nat
        BY BalanceSyncTyped DEF BalanceSyncTyped
      <3>2. isaPrice \in Nat /\ unitPrice \in Nat
        BY BalanceSyncTyped DEF BalanceSyncTyped
      <3> QED BY <3>1, <3>2, DiscrepancyTyped
    <2> QED BY <1>1, <2>1
  <1>3. /\ \A a \in accounts : [discrepancy |-> d[a], lastSynced |-> now] \in BalanceRecord
        /\ pass \in [accounts -> BalanceRecord] /\ pass \in PassRecord
    <2>1. \A a \in accounts : [discrepancy |-> d[a], lastSynced |-> now] \in BalanceRecord
      BY <1>2 DEF BalanceRecord
    <2>2. pass \in [accounts -> BalanceRecord]
      BY <1>1, <2>1
    <2> QED BY <2>1, <2>2 DEF PassRecord
  <1>4. /\ DOMAIN pass = accounts
        /\ \A a \in accounts : /\ pass[a] = [discrepancy |-> d[a], lastSynced |-> now]
                               /\ pass[a].discrepancy = d[a]
    BY <1>1
  <1>5. DOMAIN balances = accounts
    OBVIOUS
  <1>6. \A a \in accounts :
          d[a] = Discrepancy(balances[a].isa, balances[a].credits, isaPrice, unitPrice)
    BY <1>1
  <1>7. /\ knownDiscrepancies' = [a \in SyncAccount |->
             IF a \in differing THEN pass[a] ELSE knownDiscrepancies[a]]
        /\ syncHistory' = Append(h, pass)
        /\ totalAutoFixes' = totalAutoFixes + Cardinality({a \in differing : Fixable(d[a])})
        /\ lastSyncHeight' = now /\ totalSyncs' = totalSyncs + 1 /\ resolvedAt' = resolvedAt
    <2>1. differing = {a \in DOMAIN balances :
            Discrepancy(balances[a].isa, balances[a].credits, isaPrice, unitPrice) # 0}
      BY <1>1, <1>5, <1>6
    <2>2. differing \subseteq accounts
      BY <1>1
    <2>3. knownDiscrepancies' = [a \in SyncAccount |->
            IF a \in differing THEN pass[a] ELSE knownDiscrepancies[a]]
      BY <1>4, <1>6, <2>1, <2>2 DEF RunSync
    <2>4. syncHistory' = Append(h, pass)
      <3>1. pass = [a \in DOMAIN balances |->
              [discrepancy |->
                 Discrepancy(balances[a].isa, balances[a].credits, isaPrice, unitPrice),
               lastSynced |-> now]]
        BY <1>1, <1>5, <1>6
      <3> QED BY <1>1, <3>1 DEF RunSync
    <2>5. totalAutoFixes' = totalAutoFixes + Cardinality({a \in differing : Fixable(d[a])})
      <3>1. {a \in differing : Fixable(d[a])}
              = {a \in differing : Fixable(Discrepancy(balances[a].isa, balances[a].credits,
                                                       isaPrice, unitPrice))}
        BY <1>6, <2>2
      <3> QED BY <2>1, <3>1 DEF RunSync
    <2> QED BY <2>3, <2>4, <2>5 DEF RunSync
  <1> DEFINE next == Append(h, pass)
  <1>8. h \in Seq(PassRecord) /\ n = Len(h)
    BY <1>1 DEF BalanceSyncInv
  <1>9. /\ next \in Seq(PassRecord) /\ Len(next) = n + 1 /\ n \in Nat
        /\ DOMAIN h = 1 .. n /\ DOMAIN next = 1 .. n + 1 /\ next[n + 1] = pass
        /\ \A i \in 1 .. n : next[i] = h[i]
    BY <1>3, <1>8, PassAdded
  <1>10. totalAutoFixes' = SumFunction(AllFixes(next)) /\ totalAutoFixes' \in Nat
    <2>1. {a \in differing : Fixable(d[a])} = {a \in DOMAIN pass : Fixable(pass[a].discrepancy)}
      BY <1>1, <1>4 DEF Fixable
    <2>2. totalAutoFixes' = totalAutoFixes + FixesOf(pass)
      BY <1>7, <2>1 DEF FixesOf
    <2>3. totalAutoFixes = SumFunction(AllFixes(h))
      BY <1>1 DEF BalanceSyncInv
    <2>4. /\ SumFunction(AllFixes(next)) = SumFunction(AllFixes(h)) + FixesOf(pass)
          /\ SumFunction(AllFixes(h)) \in Nat
      BY <1>3, <1>8, FixesAdded
    <2>5. FixesOf(pass) \in Nat
      BY <1>3, FixesTyped
    <2> QED BY <2>2, <2>3, <2>4, <2>5
  <1> HIDE DEF next
  <1>11. syncHistory' = next
    BY <1>7 DEF next
  <1>12. ASSUME NEW a \in SyncAccount
         PROVE  /\ resolvedAt[a] \in Nat /\ resolvedAt[a] <= n
                /\ Latest(h, PassesOf(h, resolvedAt[a], a), a, knownDiscrepancies[a])
    BY <1>1 DEF BalanceSyncInv, BalanceSyncTypeOK
  <1>13. ASSUME NEW a \in SyncAccount
         PROVE  Latest(next, PassesOf(next, resolvedAt[a], a), a, knownDiscrepancies'[a])
    <2>0. PICK since : since = resolvedAt[a]
      OBVIOUS
    <2>1. CASE a \in differing
      <3>1. a \in DOMAIN next[n + 1] /\ next[n + 1][a].discrepancy # 0
        BY <1>1, <1>4, <1>9, <2>1
      <3>2. knownDiscrepancies'[a] = next[n + 1][a]
        BY <1>7, <1>9, <2>1
      <3>3. since \in Nat /\ since <= n
        BY <1>12, <2>0
      <3>4. n \in Nat /\ DOMAIN next = 1 .. n + 1
        BY <1>9
      <3>5. PICK known : known = knownDiscrepancies'[a]
        OBVIOUS
      <3>6. Latest(next, PassesOf(next, since, a), a, known)
        BY <3>1, <3>2, <3>3, <3>4, <3>5, DiffersNow
      <3> QED BY <2>0, <3>5, <3>6
    <2>2. CASE a \notin differing
      <3>1. ~(a \in DOMAIN next[n + 1] /\ next[n + 1][a].discrepancy # 0)
        BY <1>1, <1>4, <1>9, <2>2
      <3>2. PICK known : known = knownDiscrepancies[a]
        OBVIOUS
      <3>3. Latest(h, PassesOf(h, since, a), a, known)
        BY <1>12, <2>0, <3>2
      <3>4. Latest(next, PassesOf(next, since, a), a, known)
        BY <1>9, <3>1, <3>3, EqualNow
      <3>5. knownDiscrepancies'[a] = known
        BY <1>7, <2>2, <3>2
      <3> QED BY <2>0, <3>4, <3>5
    <2> QED BY <2>1, <2>2
  <1>14. /\ knownDiscrepancies' \in [SyncAccount -> BalanceRecord \cup {NoDiscrepancy}]
         /\ lastSyncHeight' \in Nat /\ totalSyncs' \in Nat /\ totalSyncs' = n + 1
         /\ resolvedAt' \in [SyncAccount -> Nat]
    <2>1. /\ knownDiscrepancies \in [SyncAccount -> BalanceRecord \cup {NoDiscrepancy}]
          /\ resolvedAt \in [SyncAccount -> Nat] /\ totalSyncs = n
      BY <1>1 DEF BalanceSyncInv, BalanceSyncTypeOK
    <2>2. \A a \in differing : pass[a] \in BalanceRecord
      BY <1>1, <1>3
    <2>3. knownDiscrepancies' \in [SyncAccount -> BalanceRecord \cup {NoDiscrepancy}]
      BY <1>7, <2>1, <2>2
    <2> QED BY <1>7, <1>9, <2>1, <2>3
  <1>15. \A a \in SyncAccount : resolvedAt[a] <= n + 1
    <2> SUFFICES ASSUME NEW a \in SyncAccount PROVE resolvedAt[a] <= n + 1
      OBVIOUS
    <2>1. resolvedAt[a] \in Nat /\ resolvedAt[a] <= n
      BY <1>12
    <2> QED BY <1>9, <2>1
  <1>16. resolvedAt' = resolvedAt
    BY <1>7
  <1> QED BY <1>9, <1>10, <1>11, <1>13, <1>14, <1>15, <1>16 DEF BalanceSyncInv, BalanceSyncTypeOK

LEMMA ResolveDiscrepancyKeepsKnown ==
  ASSUME BalanceSyncInv, NEW b \in SyncAccount, ResolveDiscrepancy(b)
  PROVE  BalanceSyncInv'
  <1>1. PICK h, n : h = syncHistory /\ n = Len(syncHistory)
    OBVIOUS
  <1>2. /\ knownDiscrepancies' = [knownDiscrepancies EXCEPT ![b] = NoDiscrepancy]
        /\ resolvedAt' = [resolvedAt EXCEPT ![b] = n]
        /\ UNCHANGED <<syncHistory, lastSyncHeight, totalSyncs, totalAutoFixes>>
    BY <1>1 DEF ResolveDiscrepancy
  <1>3. h \in Seq(PassRecord) /\ n = Len(h) /\ n \in Nat /\ DOMAIN h = 1 .. n
    BY <1>1 DEF BalanceSyncInv
  <1>4. BalanceSyncTypeOK
    BY DEF BalanceSyncInv
  <1>5. BalanceSyncTypeOK'
    BY <1>2, <1>3, <1>4 DEF BalanceSyncTypeOK
  <1>6. PassesOf(h, n, b) = {}
    BY <1>3 DEF PassesOf
  <1>7. ASSUME NEW a \in SyncAccount
        PROVE  /\ resolvedAt'[a] <= n
               /\ Latest(h, PassesOf(h, resolvedAt'[a], a), a, knownDiscrepancies'[a])
    <2>1. CASE a = b
      <3>1. resolvedAt'[a] = n /\ knownDiscrepancies'[a] = NoDiscrepancy
        BY <1>2, <1>4, <2>1 DEF BalanceSyncTypeOK
      <3> QED BY <1>3, <1>6, <2>1, <3>1 DEF Latest
    <2>2. CASE a # b
      <3>1. resolvedAt'[a] = resolvedAt[a] /\ knownDiscrepancies'[a] = knownDiscrepancies[a]
        BY <1>2, <1>4, <2>2 DEF BalanceSyncTypeOK
      <3> QED BY <1>1, <3>1 DEF BalanceSyncInv
    <2> QED BY <2>1, <2>2
  <1>8. syncHistory' = h /\ totalSyncs' = n /\ totalAutoFixes' = SumFunction(AllFixes(h))
    BY <1>1, <1>2 DEF BalanceSyncInv
  <1> QED BY <1>3, <1>5, <1>7, <1>8 DEF BalanceSyncInv

LEMMA BalanceSyncInvInit ==
  ASSUME BalanceSyncInit
  PROVE  BalanceSyncInv
  <1>1. /\ syncHistory = <<>> /\ knownDiscrepancies = [a \in SyncAccount |-> NoDiscrepancy]
        /\ lastSyncHeight = 0 /\ totalSyncs = 0 /\ totalAutoFixes = 0
        /\ resolvedAt = [a \in SyncAccount |-> 0]
    BY DEF BalanceSyncInit
  <1>2. /\ syncHistory \in Seq(PassRecord) /\ Len(syncHistory) = 0 /\ DOMAIN syncHistory = {}
    BY <1>1
  <1>3. BalanceSyncTypeOK
    BY <1>1 DEF BalanceSyncTypeOK
  <1>4. \A a \in SyncAccount : PassesOf(syncHistory, resolvedAt[a], a) = {}
    BY <1>2 DEF PassesOf
  <1>5. \A a \in SyncAccount : resolvedAt[a] = 0 /\ knownDiscrepancies[a] = NoDiscrepancy
    BY <1>1
  <1>6. SumFunction(AllFixes(syncHistory)) = 0
    <2>1. DOMAIN AllFixes(syncHistory) = {}
      BY <1>2 DEF AllFixes
    <2> QED BY <2>1, SumOnEmpty DEF SumFunction
  <1>7. totalSyncs = 0 /\ totalAutoFixes = 0
    BY <1>1
  <1>8. \A a \in SyncAccount :
          /\ resolvedAt[a] <= Len(syncHistory)
          /\ Latest(syncHistory, PassesOf(syncHistory, resolvedAt[a], a), a,
                    knownDiscrepancies[a])
    BY <1>2, <1>4, <1>5 DEF Latest
  <1> QED BY <1>2, <1>3, <1>6, <1>7, <1>8 DEF BalanceSyncInv

LEMMA BalanceSyncInvStep ==
  ASSUME BalanceSyncInv, now \in Nat, BalanceSyncNext \/ UNCHANGED syncVars
  PROVE  BalanceSyncInv'
  <1>1. CASE BalanceSyncNext
    BY <1>1, RunSyncKeepsKnown, ResolveDiscrepancyKeepsKnown DEF BalanceSyncNext
  <1>2. CASE UNCHANGED syncVars
    BY <1>2 DEF syncVars, BalanceSyncInv, BalanceSyncTypeOK
  <1> QED BY <1>1, <1>2

\* The largest of some numbers is what Max says.
LEMMA MaxIs ==
  ASSUME NEW S \in SUBSET Nat, NEW m \in S, \A x \in S : x <= m
  PROVE  Max(S) = m
  <1>1. \A y \in S : m >= y
    OBVIOUS
  <1>2. Max(S) \in S /\ \A y \in S : Max(S) >= y
    BY <1>1 DEF Max
  <1>3. PICK k : k = Max(S)
    OBVIOUS
  <1>4. k \in Nat /\ m \in Nat /\ k >= m /\ m >= k
    BY <1>1, <1>2, <1>3
  <1> QED BY <1>3, <1>4

LEMMA BalanceSyncInvImplies ==
  ASSUME BalanceSyncInv
  PROVE  DiscrepanciesKnown
  <1>1. ASSUME NEW a \in SyncAccount
        PROVE  LET passes == PassesOf(syncHistory, resolvedAt[a], a) IN
               knownDiscrepancies[a] =
                 IF passes = {} THEN NoDiscrepancy ELSE syncHistory[Max(passes)][a]
    <2>1. PICK P : P = PassesOf(syncHistory, resolvedAt[a], a)
      OBVIOUS
    <2>2. Latest(syncHistory, P, a, knownDiscrepancies[a])
      BY <2>1 DEF BalanceSyncInv
    <2>3. P \in SUBSET Nat
      <3>1. DOMAIN syncHistory = 1 .. Len(syncHistory)
        BY DEF BalanceSyncInv
      <3> QED BY <2>1, <3>1 DEF PassesOf
    <2>4. CASE P = {}
      BY <2>1, <2>2, <2>4 DEF Latest
    <2>5. CASE P # {}
      <3>1. PICK m \in P : (\A i \in P : i <= m) /\ knownDiscrepancies[a] = syncHistory[m][a]
        BY <2>2, <2>5 DEF Latest
      <3>2. Max(P) = m
        BY <2>3, <3>1, MaxIs
      <3> QED BY <2>1, <2>5, <3>1, <3>2
    <2> QED BY <2>4, <2>5
  <1>2. totalSyncs = Len(syncHistory) /\ totalAutoFixes = SumFunction(AllFixes(syncHistory))
    BY DEF BalanceSyncInv
  <1> QED BY <1>1, <1>2 DEF DiscrepanciesKnown, PassesOf, SumOver, AllFixes, FixesOf

----------------------------------------------------------------------------
(* Settlement as a whole *)

LEMMA SettlementSteps ==
  ASSUME now \in Nat, [ManagersNext]_managersVars
  PROVE  /\ now' \in Nat /\ now' >= now
         /\ (PipelineNext /\ now' = now) \/ UNCHANGED pipelineVars
         /\ (FallbackNext /\ now' = now) \/ UNCHANGED fallbackVars
         /\ BalanceSyncNext \/ UNCHANGED syncVars
  <1>1. CASE CallNext /\ UNCHANGED <<now, part>>
    <2>1. now' \in Nat /\ now' >= now /\ now' = now
      BY <1>1
    <2>2. SettlementNext \/ UNCHANGED settlementVars
      BY <1>1 DEF CallNext
    <2>3. CASE SettlementNext
      BY <2>1, <2>3 DEF SettlementNext
    <2>4. CASE UNCHANGED settlementVars
      BY <2>1, <2>4 DEF settlementVars
    <2> QED BY <2>2, <2>3, <2>4
  <1>2. CASE Tick /\ UNCHANGED settlementVars
    BY <1>2 DEF Tick, settlementVars
  <1>3. CASE UNCHANGED managersVars
    BY <1>3 DEF managersVars, settlementVars
  <1> QED BY <1>1, <1>2, <1>3 DEF ManagersNext

SettlementInv == now \in Nat /\ PipelineInv /\ WindowInv /\ FallbackInv /\ BalanceSyncInv

LEMMA SettlementHolds == ManagersSpec => []SettlementInv
  <1>1. ManagersInit => SettlementInv
    <2> SUFFICES ASSUME ManagersInit PROVE SettlementInv
      OBVIOUS
    <2>1. now \in Nat
      BY DEF ManagersInit, ClockInit
    <2>2. WindowInv
      BY SettlementTyped
         DEF ManagersInit, PipelineInit, WindowInv, EndOf, DuplicatesOutsideWindow,
             SettlementTyped
    <2> QED BY <2>1, <2>2, PipelineInvInit, FallbackInvInit, BalanceSyncInvInit
            DEF ManagersInit, SettlementInv
  <1>2. SettlementInv /\ [ManagersNext]_managersVars => SettlementInv'
    <2> SUFFICES ASSUME SettlementInv, [ManagersNext]_managersVars PROVE SettlementInv'
      OBVIOUS
    <2>1. now \in Nat /\ now' \in Nat
      BY SettlementSteps DEF SettlementInv
    <2>2. PipelineInv'
      BY SettlementSteps, PipelineInvStep DEF SettlementInv
    <2>3. FallbackInv'
      BY SettlementSteps, FallbackInvStep DEF SettlementInv
    <2>4. BalanceSyncInv'
      BY SettlementSteps, BalanceSyncInvStep DEF SettlementInv
    <2>5. WindowInv'
      BY OtherSteps, PipelineStep DEF SettlementInv
    <2> QED BY <2>1, <2>2, <2>3, <2>4, <2>5 DEF SettlementInv
  <1> QED BY <1>1, <1>2, PTL DEF ManagersSpec

\* Whatever events come in, in whatever batches they are settled and proved, and whenever
\* charges are deferred, resolved and expired and balances compared: every event is queued,
\* flushed or settled, and again only outside the window, the totals are those of the
\* settlements, what a proof says was settled, no charge is both resolved and expired, and no
\* discrepancy is forgotten (settlement_bridge/bridge.rs:94, settlement_proof/store.rs:82,
\* settlement_fallback/manager.rs:203, balance_sync/engine.rs:156).
THEOREM SettlementIsAccounted == ManagersSpec => []SettlementAccounted
  <1>1. SettlementInv => SettlementAccounted
    BY PipelineInvImplies, FallbackInvImplies, BalanceSyncInvImplies
       DEF SettlementInv, WindowInv, SettlementAccounted
  <1> QED BY <1>1, SettlementHolds, PTL

----------------------------------------------------------------------------
(* Custody *)

LEMMA CustodySteps ==
  ASSUME [ManagersNext]_managersVars
  PROVE  /\ [CreditsNext]_creditVars /\ [CreditBridgeNext]_creditBridgeVars
         /\ [CrossChainNext]_bridgeVars
  <1>1. CASE CallNext
    BY <1>1 DEF CallNext, CustodyNext, custodyVars
  <1>2. CASE UNCHANGED custodyVars
    BY <1>2 DEF custodyVars
  <1> QED BY <1>1, <1>2 DEF ManagersNext, managersVars

CustodyInv == now \in Nat /\ CreditsInv /\ CreditBridgeInv /\ BridgeInv /\ WithdrawalsInv

LEMMA CustodyHolds == ManagersSpec => []CustodyInv
  <1>1. ManagersInit => CustodyInv
    BY CreditsInvInit, CreditBridgeInvInit, BridgeInvInit, WithdrawalsInvInit
    DEF ManagersInit, ClockInit, CustodyInv
  <1>2. CustodyInv /\ [ManagersNext]_managersVars => CustodyInv'
    <2> SUFFICES ASSUME CustodyInv, [ManagersNext]_managersVars PROVE CustodyInv'
      OBVIOUS
    <2>1. now' \in Nat /\ [WithdrawalsNext]_withdrawalVars
      BY StepsOfManagers DEF CustodyInv
    <2>2. WithdrawalsInv'
      BY <2>1, WithdrawalsInvStep DEF CustodyInv
    <2>3. CreditsInv' /\ CreditBridgeInv' /\ BridgeInv'
      BY CustodySteps, CreditsInvStep, CreditBridgeInvStep, BridgeInvStep DEF CustodyInv
    <2> QED BY <2>1, <2>2, <2>3 DEF CustodyInv
  <1> QED BY <1>1, <1>2, PTL DEF ManagersSpec

\* Credits, bridged events and transfers add up to the totals beside them, and no user's open
\* withdrawals pass the limit, for any number of users and requests and any amounts
\* (credits/system.rs:103, credit_bridge/bridge.rs:141, cross_chain/bridge.rs:202,
\* withdrawal/manager.rs:107).
THEOREM CustodyIsAccounted == ManagersSpec => []CustodyAccounted
  <1>1. CustodyInv => CustodyAccounted
    BY DEF CustodyInv, CustodyAccounted, CreditsInv, CreditBridgeInv, BridgeInv, WithdrawalsInv
  <1> QED BY <1>1, CustodyHolds, PTL

----------------------------------------------------------------------------
(* Governance *)

\* The governor and the locks move at a height that stays, or the height moves on.
LEMMA GovernanceSteps ==
  ASSUME now \in Nat, [ManagersNext]_managersVars
  PROVE  /\ \/ GovernorNext /\ UNCHANGED now
            \/ UNCHANGED governorVars /\ now' >= now
         /\ \/ VoteEscrowNext /\ UNCHANGED now
            \/ UNCHANGED voteEscrowVars /\ now' >= now
  <1>1. CASE CallNext /\ UNCHANGED <<now, part>>
    <2>1. now' >= now
      BY <1>1
    <2>2. \/ GovernanceNext
          \/ UNCHANGED governorVars /\ UNCHANGED voteEscrowVars
      BY <1>1 DEF CallNext, governanceVars
    <2> QED BY <1>1, <2>1, <2>2 DEF GovernanceNext
  <1>2. CASE Tick /\ UNCHANGED governanceVars
    BY <1>2 DEF Tick, governanceVars
  <1>3. CASE UNCHANGED managersVars
    BY <1>3 DEF managersVars, governanceVars
  <1> QED BY <1>1, <1>2, <1>3 DEF ManagersNext

GovernanceInv == now \in Nat /\ GovernorInv /\ VoteEscrowInv

LEMMA GovernanceHolds == ManagersSpec => []GovernanceInv
  <1>1. ManagersInit => GovernanceInv
    BY GovernorInvInit, VoteEscrowInvInit DEF ManagersInit, ClockInit, GovernanceInv
  <1>2. GovernanceInv /\ [ManagersNext]_managersVars => GovernanceInv'
    BY GovernanceSteps, StepsOfManagers, GovernorInvStep, VoteEscrowInvStep DEF GovernanceInv
  <1> QED BY <1>1, <1>2, PTL DEF ManagersSpec

\* A tally counts votes that cannot change any more, so what is executed was passed by them;
\* and a lock counts in the total for what it was worth when it was last touched, which is no
\* less than it is worth now (governance/governor.rs:164, veisa/system.rs:152).
THEOREM GovernanceIsAccounted == ManagersSpec => []GovernanceAccounted
  <1>1. GovernanceInv => GovernanceAccounted
    BY VoteEscrowInvImplies DEF GovernanceInv, GovernanceAccounted, GovernorInv
  <1> QED BY <1>1, GovernanceHolds, PTL


----------------------------------------------------------------------------
(* The economy *)

\* Heights stay within their bound, and each manager of tokens moves at one that stays.
LEMMA EconomySteps ==
  ASSUME now \in 0 .. MaxNow, [ManagersNext]_managersVars
  PROVE  /\ now' \in 0 .. MaxNow /\ now' >= now
         /\ \/ /\ TokenNext \/ UNCHANGED tokenVars
               /\ VestingNext \/ UNCHANGED vestingVars
               /\ UNCHANGED now
            \/ UNCHANGED supplyVars /\ now' >= now
         /\ [EmissionNext]_emissionVars 
         /\ [TreasuryNext]_treasuryVars /\ [FeePoolsNext]_feePoolVars
         /\ [SubnetStakingNext]_subnetStakingVars
         /\ \/ [AccountsNext]_accountVars /\ UNCHANGED now
            \/ UNCHANGED accountVars /\ now' \in Nat /\ now' >= now
         /\ [ValidatorSetNext]_validatorSetVars
  <1>1. CASE CallNext /\ UNCHANGED <<now, part>>
    <2>1. now' \in 0 .. MaxNow /\ now' >= now
      BY <1>1
    <2>2. EconomyNext \/ UNCHANGED economyVars
      BY <1>1 DEF CallNext
    <2>3. CASE UNCHANGED economyVars
      BY <1>1, <2>1, <2>3 DEF economyVars, supplyVars, feeVars, delegationVars
    <2>4. CASE EconomyNext
      BY <1>1, <2>1, <2>4 DEF EconomyNext, supplyVars, feeVars, delegationVars
    <2> QED BY <2>2, <2>3, <2>4
  <1>2. CASE Tick /\ UNCHANGED economyVars
    <2>1. now' \in 0 .. MaxNow /\ now' >= now
      BY <1>2, HeightsTyped DEF Tick
    <2> QED BY <1>2, <2>1 DEF economyVars, supplyVars, feeVars, delegationVars
  <1>3. CASE UNCHANGED managersVars
    BY <1>3 DEF managersVars, economyVars, supplyVars, feeVars, delegationVars
  <1> QED BY <1>1, <1>2, <1>3 DEF ManagersNext

EconomyInv ==
  /\ now \in 0 .. MaxNow
  /\ SupplyInv /\ EmissionInv /\ FeesInv /\ SubnetStakingInv /\ AccountsInv /\ ValidatorSetInv

LEMMA EconomyHolds == ManagersSpec => []EconomyInv
  <1>1. ManagersInit => EconomyInv
    <2> SUFFICES ASSUME ManagersInit PROVE EconomyInv
      OBVIOUS
    <2>1. now = 0 /\ now \in Nat /\ now \in 0 .. MaxNow
      BY HeightsTyped DEF ManagersInit, ClockInit
    <2> QED BY <2>1, SupplyInvInit, EmissionInvInit, FeesInvInit, SubnetStakingInvInit,
               DelegationsInvInit DEF ManagersInit, EconomyInv
  <1>2. EconomyInv /\ [ManagersNext]_managersVars => EconomyInv'
    <2> SUFFICES ASSUME EconomyInv, [ManagersNext]_managersVars PROVE EconomyInv'
      OBVIOUS
    <2>1. now \in 0 .. MaxNow /\ now \in Nat /\ now' \in 0 .. MaxNow /\ now' \in Nat
      BY EconomySteps DEF EconomyInv
    <2>2. SupplyInv'
      BY <2>1, EconomySteps, SupplyInvStep DEF EconomyInv
    <2>3. EmissionInv' /\ FeesInv' /\ SubnetStakingInv'
      BY <2>1, EconomySteps, EmissionInvStep, FeesInvStep, SubnetStakingInvStep DEF EconomyInv
    <2>4. AccountsInv' /\ ValidatorSetInv'
      BY <2>1, EconomySteps, AccountsInvStep, ValidatorSetInvStep DEF EconomyInv
    <2> QED BY <2>1, <2>2, <2>3, <2>4 DEF EconomyInv
  <1> QED BY <1>1, <1>2, PTL DEF ManagersSpec

\* Supply, vesting, block rewards, fees, stakes and delegations add up to the records beside
\* them, for any number of parties and any rates, weights and heights: exactly where the sums
\* fit into u128, modulo its width where they do not; and no share of a fee, a reward or a
\* vesting exceeds what is shared, also when its product wraps or saturates (token.rs:176,
\* emission/controller.rs:211, treasury/treasury.rs:172, fee_routing.rs:155,
\* subnet_staking/manager.rs:206, account/account.rs:256).
THEOREM EconomyIsAccounted == ManagersSpec => []EconomyAccounted
  <1>1. EconomyInv => EconomyAccounted
    BY SupplyInvImplies, EmissionInvImplies, FeesInvImplies, SubnetStakingInvImplies,
       DelegationsInvImplies DEF EconomyInv, EconomyAccounted
  <1> QED BY <1>1, EconomyHolds, PTL


----------------------------------------------------------------------------
(* What agents may spend *)

\* A step of any manager is a call of the wallets or leaves them alone, and so for budgets,
\* billing and incentives.
LEMMA SpendingSteps ==
  ASSUME now \in 0 .. MaxNow, [ManagersNext]_managersVars
  PROVE  /\ now' \in 0 .. MaxNow /\ now' \in Nat /\ now' >= now
         /\ \/ WalletsNext /\ UNCHANGED now
            \/ UNCHANGED walletVars /\ now' \in Nat /\ now' >= now
         /\ [BudgetsNext]_budgetVars
         /\ \/ BillingNext /\ UNCHANGED now
            \/ UNCHANGED billingVars /\ now' \in Nat /\ now' >= now
         /\ [IncentivesNext]_incentiveVars
  <1>1. CASE CallNext /\ UNCHANGED <<now, part>>
    <2>1. now' \in 0 .. MaxNow /\ now' \in Nat /\ now' >= now
      BY <1>1, HeightsTyped DEF HeightsTyped
    <2>2. AgentsNext \/ UNCHANGED agentVars
      BY <1>1 DEF CallNext
    <2>3. CASE UNCHANGED agentVars
      BY <1>1, <2>1, <2>3 DEF agentVars, spendingVars
    <2>4. CASE AgentsNext
      BY <1>1, <2>1, <2>4 DEF AgentsNext, spendingVars
    <2> QED BY <2>2, <2>3, <2>4
  <1>2. CASE Tick /\ UNCHANGED agentVars
    <2>1. now' \in 0 .. MaxNow /\ now' \in Nat /\ now' >= now
      BY <1>2, HeightsTyped DEF Tick, HeightsTyped
    <2> QED BY <1>2, <2>1 DEF agentVars, spendingVars
  <1>3. CASE UNCHANGED managersVars
    BY <1>3, HeightsTyped DEF managersVars, agentVars, spendingVars, HeightsTyped
  <1> QED BY <1>1, <1>2, <1>3 DEF ManagersNext

SpendingInv ==
  /\ now \in 0 .. MaxNow
  /\ WalletsInv /\ WalletsBegun /\ BudgetsInv /\ BillingInv /\ WindowsBegun /\ IncentivesInv

LEMMA SpendingHolds == ManagersSpec => []SpendingInv
  <1>1. ManagersInit => SpendingInv
    <2> SUFFICES ASSUME ManagersInit PROVE SpendingInv
      OBVIOUS
    <2>1. now \in 0 .. MaxNow
      BY HeightsTyped DEF ManagersInit, ClockInit, HeightsTyped
    <2> QED BY <2>1, WalletsInvInit, BudgetsInvInit, BillingInvInit, IncentivesInvInit
            DEF ManagersInit, SpendingInv
  <1>2. SpendingInv /\ [ManagersNext]_managersVars => SpendingInv'
    <2> SUFFICES ASSUME SpendingInv, [ManagersNext]_managersVars PROVE SpendingInv'
      OBVIOUS
    <2>1. now \in 0 .. MaxNow /\ now' \in 0 .. MaxNow
      BY SpendingSteps DEF SpendingInv
    <2>2. WalletsInv' /\ WalletsBegun'
      BY <2>1, SpendingSteps, WalletsInvStep DEF SpendingInv
    <2>3. BillingInv' /\ WindowsBegun'
      BY <2>1, SpendingSteps, BillingInvStep DEF SpendingInv
    <2>4. BudgetsInv' /\ IncentivesInv'
      BY <2>1, SpendingSteps, BudgetsInvStep, IncentivesInvStep DEF SpendingInv
    <2> QED BY <2>1, <2>2, <2>3, <2>4 DEF SpendingInv
  <1> QED BY <1>1, <1>2, PTL DEF ManagersSpec

\* Whatever the limits, budgets, rates and heights are, and however often windows are reset
\* and limits changed: an agent's wallet accounts for what was put in, no stretch of blocks as
\* long as a window whose end is a height has more than two windows allow, and no delegation,
\* rate or program gives more than its owner allowed.  Nothing is said of a window whose end
\* wraps: it is over at once (agent_wallet/factory.rs:172, budget/manager.rs:95,
\* credit_billing/engine.rs:240, incentives/manager.rs:106).
THEOREM SpendingIsLimited == ManagersSpec => []SpendingWithinLimits
  <1>1. SpendingInv => SpendingWithinLimits
    BY WalletsInvImplies, BudgetsInvImplies, BillingInvImplies, IncentivesInvImplies
       DEF SpendingInv, SpendingWithinLimits
  <1> QED BY <1>1, SpendingHolds, PTL



----------------------------------------------------------------------------
(* The index of subnets *)

\* A finite set of numbers can be written in its order.
InOrder(p, S) ==
  /\ p \in [1 .. Cardinality(S) -> S]
  /\ \A i, j \in DOMAIN p : i < j => p[i] < p[j]

LEMMA LargestOf ==
  ASSUME NEW S \in SUBSET Nat, IsFiniteSet(S), S # {}
  PROVE  \E m \in S : \A x \in S : x <= m
  <1> DEFINE Bad == {s \in SUBSET S : s # {} /\ ~\E m \in s : \A x \in s : x <= m}
  <1>1. ASSUME Bad # {}
        PROVE  FALSE
    <2>1. Bad \in SUBSET SUBSET S
      OBVIOUS
    <2>2. PICK s \in Bad : \A x \in s : s \ {x} \notin Bad
      <3> HIDE DEF Bad
      <3> QED BY <1>1, <2>1, MinimalSubset
    <2>3. s \in SUBSET Nat /\ s # {} /\ ~\E m \in s : \A x \in s : x <= m
      OBVIOUS
    <2>4. PICK y \in s : TRUE
      BY <2>3
    <2>5. s \ {y} \in SUBSET S /\ s \ {y} \notin Bad
      BY <2>2, <2>4
    <2>6. CASE s \ {y} = {}
      BY <2>3, <2>4, <2>6
    <2>7. CASE s \ {y} # {}
      <3>1. PICK m \in s \ {y} : \A x \in s \ {y} : x <= m
        BY <2>5, <2>7
      <3>2. m \in Nat /\ y \in Nat
        BY <2>3
      <3>3. CASE y <= m
        BY <2>3, <3>1, <3>3
      <3>4. CASE m < y
        BY <2>3, <2>4, <3>1, <3>2, <3>4
      <3> QED BY <3>2, <3>3, <3>4
    <2> QED BY <2>6, <2>7
  <1>2. S \notin Bad
    BY <1>1
  <1> QED BY <1>2

LEMMA OrderExists ==
  ASSUME NEW S \in SUBSET Nat, IsFiniteSet(S)
  PROVE  \E p : InOrder(p, S)
  <1> DEFINE Bad == {s \in SUBSET S : ~\E p : InOrder(p, s)}
  <1>1. ASSUME Bad # {}
        PROVE  FALSE
    <2>1. Bad \in SUBSET SUBSET S
      OBVIOUS
    <2>2. PICK s \in Bad : \A x \in s : s \ {x} \notin Bad
      <3> HIDE DEF Bad
      <3> QED BY <1>1, <2>1, MinimalSubset
    <2>3. s \in SUBSET Nat /\ s \in SUBSET S /\ ~\E p : InOrder(p, s)
      OBVIOUS
    <2>4. IsFiniteSet(s)
      BY <2>3, FS_Subset
    <2>5. s # {}
      <3> SUFFICES ASSUME s = {} PROVE FALSE
        OBVIOUS
      <3>1. 1 .. Cardinality(s) = {}
        BY FS_EmptySet
      <3>2. InOrder([i \in {} |-> i], s)
        BY <3>1 DEF InOrder
      <3> QED BY <2>3, <3>2
    <2>6. PICK m \in s : \A x \in s : x <= m
      BY <2>3, <2>4, <2>5, LargestOf
    <2>7. PICK r : r = s \ {m}
      OBVIOUS
    <2>8. PICK p : InOrder(p, r)
      BY <2>2, <2>3, <2>6, <2>7
    <2>9. PICK n : n = Cardinality(r)
      OBVIOUS
    <2>10. n \in Nat /\ Cardinality(s) = n + 1
      <3>1. IsFiniteSet(r) /\ Cardinality(r) = Cardinality(s) - 1
        BY <2>4, <2>6, <2>7, FS_RemoveElement
      <3>2. Cardinality(r) \in Nat /\ Cardinality(s) \in Nat
        BY <2>4, <3>1, FS_CardinalityType
      <3> QED BY <2>9, <3>1, <3>2
    <2>11. PICK q : q = [i \in 1 .. n + 1 |-> IF i = n + 1 THEN m ELSE p[i]]
      OBVIOUS
    <2>12. p \in [1 .. n -> r] /\ \A i, j \in 1 .. n : i < j => p[i] < p[j]
      BY <2>8, <2>9 DEF InOrder
    <2>13. (\A i \in 1 .. n : q[i] = p[i] /\ p[i] \in r) /\ q[n + 1] = m
      BY <2>10, <2>11, <2>12
    <2>14. \A x \in r : x < m
      <3> TAKE x \in r
      <3>1. x \in Nat /\ m \in Nat /\ x <= m /\ x # m
        BY <2>3, <2>6, <2>7
      <3> QED BY <3>1
    <2>15. q \in [1 .. n + 1 -> s]
      BY <2>6, <2>7, <2>10, <2>11, <2>12
    <2>16. ASSUME NEW i \in 1 .. n + 1, NEW j \in 1 .. n + 1, i < j
           PROVE  q[i] < q[j]
      <3>1. i \in 1 .. n
        BY <2>10, <2>16
      <3>2. CASE j \in 1 .. n
        BY <2>12, <2>13, <2>16, <3>1, <3>2
      <3>3. CASE j = n + 1
        BY <2>13, <2>14, <3>1, <3>3
      <3>4. j \in 1 .. n \/ j = n + 1
        BY <2>10
      <3> QED BY <3>2, <3>3, <3>4
    <2>17. InOrder(q, s)
      BY <2>10, <2>15, <2>16 DEF InOrder
    <2> QED BY <2>3, <2>17
  <1>2. S \notin Bad
    BY <1>1
  <1> QED BY <1>2

\* Such an enumeration names each number once.
LEMMA OrderIsOnce ==
  ASSUME NEW S \in SUBSET Nat, IsFiniteSet(S), NEW p, InOrder(p, S)
  PROVE  /\ \A i, j \in DOMAIN p : p[i] = p[j] => i = j
         /\ \A x \in S : \E i \in DOMAIN p : p[i] = x
  <1>1. PICK n : n = Cardinality(S)
    OBVIOUS
  <1>2. n \in Nat
    BY <1>1, FS_CardinalityType
  <1>3. DOMAIN p = 1 .. n /\ p \in [1 .. n -> S]
    BY <1>1 DEF InOrder
  <1>4. ASSUME NEW i \in 1 .. n, NEW j \in 1 .. n, p[i] = p[j]
        PROVE  i = j
    <2>1. PICK y, z : y = p[i] /\ z = p[j]
      OBVIOUS
    <2>2. y \in S /\ z \in S
      BY <1>3, <2>1
    <2>3. y \in Nat /\ z \in Nat
      BY <2>2
    <2>4. i \in Int /\ j \in Int
      BY <1>2
    <2>5. (i < j => p[i] < p[j]) /\ (j < i => p[j] < p[i])
      BY <1>3 DEF InOrder
    <2> QED BY <1>4, <2>1, <2>3, <2>4, <2>5
  <1>5. p \in Injection(1 .. n, S)
    BY <1>3, <1>4 DEF Injection, IsInjective
  <1>6. IsFiniteSet(1 .. n) /\ Cardinality(1 .. n) = n
    BY <1>2, FS_Interval
  <1>7. p \in Surjection(1 .. n, S)
    BY <1>1, <1>5, <1>6, FS_Injection
  <1> QED BY <1>3, <1>4, <1>7 DEF Surjection

\* What retain leaves.
LEMMA WithoutIs ==
  ASSUME NEW D, NEW q \in Seq(D), NEW x
  PROVE  /\ Without(q, x) \in Seq(D)
         /\ Range(Without(q, x)) = Range(q) \ {x}
         /\ IsInjective(q) => IsInjective(Without(q, x))
  <1>1. PICK kept : kept = {i \in DOMAIN q : q[i] # x}
    OBVIOUS
  <1>2. PICK place : place = CHOOSE p \in [1 .. Cardinality(kept) -> kept] :
                               \A i, j \in DOMAIN p : i < j => p[i] < p[j]
    OBVIOUS
  <1>3. DOMAIN q = 1 .. Len(q) /\ Len(q) \in Nat
    OBVIOUS
  <1>4. kept \subseteq 1 .. Len(q) /\ kept \in SUBSET Nat
    BY <1>1, <1>3
  <1>5. IsFiniteSet(kept)
    <2>1. IsFiniteSet(1 .. Len(q))
      BY <1>3, FS_Interval
    <2> QED BY <1>4, <2>1, FS_Subset
  <1>6. InOrder(place, kept)
    <2>1. PICK p : InOrder(p, kept)
      BY <1>4, <1>5, OrderExists
    <2> QED BY <1>2, <2>1 DEF InOrder
  <1>7. PICK n : n = Cardinality(kept) /\ n \in Nat
    BY <1>5, FS_CardinalityType
  <1>8. place \in [1 .. n -> kept] /\ DOMAIN place = 1 .. n
    BY <1>6, <1>7 DEF InOrder
  <1>9. PICK w : w = [i \in DOMAIN place |-> q[place[i]]]
    OBVIOUS
  <1>10. Without(q, x) = w
    BY <1>1, <1>2, <1>9 DEF Without
  <1>11. /\ DOMAIN w = 1 .. n
         /\ \A i \in 1 .. n : w[i] = q[place[i]] /\ place[i] \in DOMAIN q /\ w[i] # x
    BY <1>1, <1>8, <1>9
  <1>12. w \in Seq(D)
    <2>1. \A i \in 1 .. n : w[i] \in D
      BY <1>3, <1>11
    <2>2. w = [i \in 1 .. n |-> w[i]]
      BY <1>8, <1>9
    <2>3. w \in [1 .. n -> D]
      BY <2>1, <2>2
    <2> QED BY <1>7, <2>3
  <1>13. /\ \A i, j \in DOMAIN place : place[i] = place[j] => i = j
         /\ \A y \in kept : \E i \in DOMAIN place : place[i] = y
    BY <1>4, <1>5, <1>6, OrderIsOnce
  <1>14. Range(w) = Range(q) \ {x}
    <2>1. ASSUME NEW v \in Range(w)
          PROVE  v \in Range(q) \ {x}
      BY <1>11 DEF Range
    <2>2. ASSUME NEW v \in Range(q), v # x
          PROVE  v \in Range(w)
      <3>1. PICK k \in DOMAIN q : q[k] = v
        BY DEF Range
      <3>2. k \in kept
        BY <1>1, <2>2, <3>1
      <3>3. PICK i \in DOMAIN place : place[i] = k
        BY <1>13, <3>2
      <3>4. i \in DOMAIN w /\ w[i] = v
        BY <1>8, <1>11, <3>1, <3>3
      <3> QED BY <3>4 DEF Range
    <2> QED BY <2>1, <2>2
  <1>15. ASSUME IsInjective(q)
         PROVE  IsInjective(w)
    BY <1>8, <1>11, <1>13, <1>15 DEF IsInjective
  <1> QED BY <1>10, <1>12, <1>14, <1>15

SubnetsInv == SubnetsTypeOK /\ SubnetsIndexed

LEMMA JoinSubnetKeepsIndex ==
  ASSUME SubnetsInv, NEW s \in SubnetId, NEW a \in SubnetProvider, NEW stake \in JoinStakes,
         JoinSubnet(s, a, stake)
  PROVE  SubnetsInv'
  <1>1. PICK new, k : new = [stake |-> stake, quality |-> InitialQuality] /\ k = <<s, a>>
    OBVIOUS
  <1>2. /\ subnetProviders' = [subnetProviders EXCEPT ![k] = new]
        /\ providerSubnets' = [providerSubnets EXCEPT ![a] = Append(providerSubnets[a], s)]
        /\ subnets' = subnets /\ InRegistry(s) /\ ~Joined(s, a) /\ stake >= subnets[s].minStake
        /\ Cardinality(ProvidersOf(s)) < subnets[s].maxProviders
    BY <1>1 DEF JoinSubnet
  <1>3. /\ new \in [stake : Nat, quality : 0 .. MaxQuality] /\ new # NoProvider
        /\ new.stake = stake
    <2>1. stake \in Nat /\ InitialQuality \in 0 .. MaxQuality
      BY SubnetsTyped DEF SubnetsTyped
    <2>2. new \in [stake : Nat, quality : 0 .. MaxQuality] /\ new \in [stake : Nat, quality : Nat]
      BY <1>1, <2>1
    <2> QED BY <1>1, <2>2, SubnetsTyped DEF SubnetsTyped
  <1>4. /\ subnetProviders \in [SubnetId \X SubnetProvider ->
                                  [stake : Nat, quality : 0 .. MaxQuality] \cup {NoProvider}]
        /\ providerSubnets \in [SubnetProvider -> Seq(SubnetId)]
        /\ subnets \in [SubnetId -> SubnetConfig \cup {NoSubnet}]
    BY DEF SubnetsInv, SubnetsTypeOK
  <1>5. k \in SubnetId \X SubnetProvider
    BY <1>1
  <1>6. subnetProviders' \in [SubnetId \X SubnetProvider ->
                                [stake : Nat, quality : 0 .. MaxQuality] \cup {NoProvider}]
    BY <1>2, <1>3, <1>4
  <1>7. \A t \in SubnetId, b \in SubnetProvider :
          /\ (<<t, b>> = k) <=> (t = s /\ b = a)
          /\ subnetProviders'[<<t, b>>] = IF t = s /\ b = a THEN new
                                          ELSE subnetProviders[<<t, b>>]
    BY <1>1, <1>2, <1>4, <1>5
  <1>8. \A t \in SubnetId, b \in SubnetProvider : Joined(t, b)' <=> Joined(t, b) \/ (t = s /\ b = a)
    BY <1>3, <1>7 DEF Joined
  <1>9. PICK q, w : q = providerSubnets[a] /\ w = Append(q, s)
    OBVIOUS
  <1>10. /\ q \in Seq(SubnetId) /\ w \in Seq(SubnetId)
         /\ Range(q) = {t \in SubnetId : Joined(t, a)} /\ IsInjective(q)
    <2>1. q \in Seq(SubnetId)
      BY <1>4, <1>9
    <2> QED BY <1>9, <2>1 DEF SubnetsInv, SubnetsIndexed
  <1>11. /\ DOMAIN q = 1 .. Len(q) /\ Len(q) \in Nat /\ DOMAIN w = 1 .. Len(q) + 1
         /\ w[Len(q) + 1] = s /\ \A i \in 1 .. Len(q) : w[i] = q[i]
    BY <1>9, <1>10
  <1>12. PICK n : n = Len(q)
    OBVIOUS
  <1>13. /\ DOMAIN w = DOMAIN q \cup {n + 1} /\ n + 1 \notin DOMAIN q
         /\ w[n + 1] = s /\ \A i \in DOMAIN q : w[i] = q[i]
    BY <1>11, <1>12
  <1>14. s \notin Range(q)
    BY <1>2, <1>10
  <1>15. Range(w) = Range(q) \cup {s}
    BY <1>13 DEF Range
  <1>16. IsInjective(w)
    BY <1>10, <1>13, <1>14 DEF IsInjective, Range
  <1>17. ASSUME NEW b \in SubnetProvider
         PROVE  /\ Range(providerSubnets'[b]) = {t \in SubnetId : Joined(t, b)'}
                /\ IsInjective(providerSubnets'[b])
    <2>1. CASE b = a
      <3>1. providerSubnets'[b] = w
        BY <1>2, <1>4, <1>9, <2>1
      <3> QED BY <1>8, <1>10, <1>15, <1>16, <2>1, <3>1
    <2>2. CASE b # a
      <3>1. providerSubnets'[b] = providerSubnets[b]
        BY <1>2, <1>4, <2>2
      <3> QED BY <1>8, <2>2, <3>1 DEF SubnetsInv, SubnetsIndexed
    <2> QED BY <2>1, <2>2
  <1>18. ASSUME NEW t \in SubnetId, ProvidersOf(t)' # {}
         PROVE  /\ InRegistry(t)' /\ Cardinality(ProvidersOf(t)') <= subnets'[t].maxProviders
                /\ \A b \in ProvidersOf(t)' :
                     subnetProviders'[<<t, b>>].stake >= subnets'[t].minStake
    <2>1. CASE t = s
      <3>1. ProvidersOf(t)' = ProvidersOf(s) \cup {a} /\ a \notin ProvidersOf(s)
        BY <1>2, <1>8, <2>1 DEF ProvidersOf
      <3>2. IsFiniteSet(ProvidersOf(s))
        BY SubnetsTyped, FS_Subset DEF SubnetsTyped, ProvidersOf
      <3>3. Cardinality(ProvidersOf(t)') = Cardinality(ProvidersOf(s)) + 1
        <4>1. PICK P : P = ProvidersOf(s)
          OBVIOUS
        <4>2. Cardinality(P \cup {a}) = Cardinality(P) + 1
          BY <3>1, <3>2, <4>1, FS_AddElement
        <4> QED BY <3>1, <4>1, <4>2
      <3>4. PICK c, m : c = Cardinality(ProvidersOf(s)) /\ m = subnets[s].maxProviders
        OBVIOUS
      <3>5. c \in Nat /\ m \in Nat /\ c < m
        <4>1. subnets[s] \in SubnetConfig
          BY <1>2, <1>4 DEF InRegistry
        <4>2. m \in Nat
          BY <3>4, <4>1 DEF SubnetConfig
        <4> QED BY <1>2, <3>2, <3>4, <4>2, FS_CardinalityType
      <3>6. Cardinality(ProvidersOf(t)') <= subnets'[t].maxProviders
        BY <1>2, <2>1, <3>3, <3>4, <3>5
      <3>7. ASSUME NEW b \in ProvidersOf(t)'
            PROVE  subnetProviders'[<<t, b>>].stake >= subnets'[t].minStake
        <4>1. b \in SubnetProvider
          BY DEF ProvidersOf
        <4>2. CASE b = a
          BY <1>2, <1>3, <1>7, <2>1, <4>1, <4>2
        <4>3. CASE b # a
          <5>1. b \in ProvidersOf(s)
            BY <3>1, <4>3
          <5>2. subnetProviders[<<s, b>>].stake >= subnets[s].minStake
            BY <5>1 DEF SubnetsInv, SubnetsIndexed
          <5> QED BY <1>2, <1>7, <2>1, <4>1, <4>3, <5>2
        <4> QED BY <4>2, <4>3
      <3>8. InRegistry(t)'
        BY <1>2, <2>1 DEF InRegistry
      <3> QED BY <3>6, <3>7, <3>8
    <2>2. CASE t # s
      <3>1. ProvidersOf(t)' = ProvidersOf(t)
        BY <1>8, <2>2 DEF ProvidersOf
      <3>2. \A b \in ProvidersOf(t) : subnetProviders'[<<t, b>>] = subnetProviders[<<t, b>>]
        BY <1>7, <2>2 DEF ProvidersOf
      <3> QED BY <1>2, <1>18, <3>1, <3>2 DEF SubnetsInv, SubnetsIndexed, InRegistry
    <2> QED BY <2>1, <2>2
  <1>19. SubnetsTypeOK'
    BY <1>2, <1>4, <1>6, <1>9, <1>10 DEF SubnetsTypeOK
  <1>20. SubnetsIndexed'
    BY <1>17, <1>18 DEF SubnetsIndexed
  <1> QED BY <1>19, <1>20 DEF SubnetsInv

LEMMA LeaveSubnetKeepsIndex ==
  ASSUME SubnetsInv, NEW s \in SubnetId, NEW a \in SubnetProvider, LeaveSubnet(s, a)
  PROVE  SubnetsInv'
  <1>1. PICK q, w, k : q = providerSubnets[a] /\ w = Without(q, s) /\ k = <<s, a>>
    OBVIOUS
  <1>2. /\ subnetProviders' = [subnetProviders EXCEPT ![k] = NoProvider]
        /\ providerSubnets' = [providerSubnets EXCEPT ![a] = w]
        /\ subnets' = subnets
    BY <1>1 DEF LeaveSubnet
  <1>3. /\ subnetProviders \in [SubnetId \X SubnetProvider ->
                                  [stake : Nat, quality : 0 .. MaxQuality] \cup {NoProvider}]
        /\ providerSubnets \in [SubnetProvider -> Seq(SubnetId)]
        /\ subnets \in [SubnetId -> SubnetConfig \cup {NoSubnet}]
    BY DEF SubnetsInv, SubnetsTypeOK
  <1>4. k \in SubnetId \X SubnetProvider
    BY <1>1
  <1>5. \A t \in SubnetId, b \in SubnetProvider :
          subnetProviders'[<<t, b>>] = IF t = s /\ b = a THEN NoProvider
                                       ELSE subnetProviders[<<t, b>>]
    BY <1>1, <1>2, <1>3, <1>4
  <1>6. \A t \in SubnetId, b \in SubnetProvider :
          Joined(t, b)' <=> Joined(t, b) /\ ~(t = s /\ b = a)
    BY <1>5 DEF Joined
  <1>7. q \in Seq(SubnetId) /\ Range(q) = {t \in SubnetId : Joined(t, a)} /\ IsInjective(q)
    <2>1. q \in Seq(SubnetId)
      BY <1>1, <1>3
    <2> QED BY <1>1, <2>1 DEF SubnetsInv, SubnetsIndexed
  <1>8. w \in Seq(SubnetId) /\ Range(w) = Range(q) \ {s} /\ IsInjective(w)
    BY <1>1, <1>7, WithoutIs
  <1>9. ASSUME NEW b \in SubnetProvider
        PROVE  /\ Range(providerSubnets'[b]) = {t \in SubnetId : Joined(t, b)'}
               /\ IsInjective(providerSubnets'[b])
    <2>1. CASE b = a
      <3>1. providerSubnets'[b] = w
        BY <1>2, <1>3, <2>1
      <3> QED BY <1>6, <1>7, <1>8, <2>1, <3>1
    <2>2. CASE b # a
      <3>1. providerSubnets'[b] = providerSubnets[b]
        BY <1>2, <1>3, <2>2
      <3> QED BY <1>6, <2>2, <3>1 DEF SubnetsInv, SubnetsIndexed
    <2> QED BY <2>1, <2>2
  <1>10. ASSUME NEW t \in SubnetId, ProvidersOf(t)' # {}
         PROVE  /\ InRegistry(t)' /\ Cardinality(ProvidersOf(t)') <= subnets'[t].maxProviders
                /\ \A b \in ProvidersOf(t)' :
                     subnetProviders'[<<t, b>>].stake >= subnets'[t].minStake
    <2>1. PICK P, Q : P = ProvidersOf(t) /\ Q = ProvidersOf(t)'
      OBVIOUS
    <2>2. Q \subseteq P
      BY <1>6, <2>1 DEF ProvidersOf
    <2>3. IsFiniteSet(P)
      BY <2>1, SubnetsTyped, FS_Subset DEF SubnetsTyped, ProvidersOf
    <2>4. IsFiniteSet(Q) /\ Cardinality(Q) <= Cardinality(P)
      BY <2>2, <2>3, FS_Subset
    <2>5. /\ subnets[t] # NoSubnet /\ Cardinality(P) <= subnets[t].maxProviders
          /\ \A b \in P : subnetProviders[<<t, b>>].stake >= subnets[t].minStake
      BY <1>10, <2>1, <2>2 DEF SubnetsInv, SubnetsIndexed, InRegistry
    <2>6. Cardinality(Q) <= subnets[t].maxProviders
      <3>1. subnets[t] \in SubnetConfig
        BY <1>3, <2>5
      <3>2. PICK c, d, m : /\ c = Cardinality(Q) /\ d = Cardinality(P)
                           /\ m = subnets[t].maxProviders
        OBVIOUS
      <3>3. m \in Nat
        BY <3>1, <3>2 DEF SubnetConfig
      <3>4. c \in Nat /\ d \in Nat
        BY <2>3, <2>4, <3>2, FS_CardinalityType
      <3> QED BY <2>4, <2>5, <3>2, <3>3, <3>4
    <2>7. \A b \in Q : subnetProviders'[<<t, b>>] = subnetProviders[<<t, b>>]
      <3>1. ASSUME NEW b \in SubnetProvider, Joined(t, b)'
            PROVE  subnetProviders'[<<t, b>>] = subnetProviders[<<t, b>>]
        BY <1>5, <1>6, <3>1
      <3> QED BY <2>1, <3>1 DEF ProvidersOf
    <2> QED BY <1>2, <2>1, <2>2, <2>5, <2>6, <2>7 DEF InRegistry
  <1>11. subnetProviders' \in [SubnetId \X SubnetProvider ->
                                 [stake : Nat, quality : 0 .. MaxQuality] \cup {NoProvider}]
    BY <1>2, <1>3
  <1>12. SubnetsTypeOK'
    BY <1>2, <1>3, <1>8, <1>11 DEF SubnetsTypeOK
  <1>13. SubnetsIndexed'
    BY <1>9, <1>10 DEF SubnetsIndexed
  <1> QED BY <1>12, <1>13 DEF SubnetsInv

LEMMA UpdateQualityKeepsIndex ==
  ASSUME SubnetsInv, NEW s \in SubnetId, NEW a \in SubnetProvider, NEW score \in QualityScores,
         UpdateQuality(s, a, score)
  PROVE  SubnetsInv'
  <1>1. PICK old, k, new : /\ old = subnetProviders[<<s, a>>] /\ k = <<s, a>>
                           /\ new = [old EXCEPT !.quality = Min({score, MaxQuality})]
    OBVIOUS
  <1>2. /\ subnetProviders \in [SubnetId \X SubnetProvider ->
                                  [stake : Nat, quality : 0 .. MaxQuality] \cup {NoProvider}]
        /\ k \in SubnetId \X SubnetProvider /\ old # NoProvider
    BY <1>1 DEF SubnetsInv, SubnetsTypeOK, UpdateQuality, Joined
  <1>3. old \in [stake : Nat, quality : 0 .. MaxQuality] /\ old = subnetProviders[k]
    BY <1>1, <1>2
  <1>4. Min({score, MaxQuality}) \in 0 .. MaxQuality
    <2>1. score \in Nat /\ MaxQuality \in Nat
      BY SubnetsTyped DEF SubnetsTyped
    <2> QED BY <2>1, MinOfTwo
  <1>5. /\ new \in [stake : Nat, quality : 0 .. MaxQuality] /\ new.stake = old.stake
        /\ new # NoProvider
    <2>1. new \in [stake : Nat, quality : 0 .. MaxQuality] /\ new.stake = old.stake
      BY <1>1, <1>3, <1>4
    <2>2. new \in [stake : Nat, quality : Nat]
      BY <2>1
    <2> QED BY <2>1, <2>2, SubnetsTyped DEF SubnetsTyped
  <1>6. subnetProviders' = [subnetProviders EXCEPT ![k] = new]
    BY <1>1, <1>2, <1>3 DEF UpdateQuality
  <1>7. subnets' = subnets /\ providerSubnets' = providerSubnets
    BY DEF UpdateQuality
  <1>8. \A t \in SubnetId, b \in SubnetProvider :
          subnetProviders'[<<t, b>>] = IF t = s /\ b = a THEN new
                                       ELSE subnetProviders[<<t, b>>]
    BY <1>1, <1>2, <1>6
  <1>9. \A t \in SubnetId, b \in SubnetProvider : Joined(t, b)' <=> Joined(t, b)
    BY <1>1, <1>2, <1>5, <1>8 DEF Joined
  <1>10. \A t \in SubnetId, b \in SubnetProvider :
           subnetProviders'[<<t, b>>].stake = subnetProviders[<<t, b>>].stake
    BY <1>1, <1>5, <1>8
  <1>11. \A t \in SubnetId : ProvidersOf(t)' = ProvidersOf(t)
    BY <1>9 DEF ProvidersOf
  <1>12. SubnetsTypeOK'
    BY <1>2, <1>5, <1>6, <1>7 DEF SubnetsInv, SubnetsTypeOK
  <1>13. \A b \in SubnetProvider :
           {t \in SubnetId : Joined(t, b)'} = {t \in SubnetId : Joined(t, b)}
    BY <1>9
  <1>14. \A t \in SubnetId : \A b \in ProvidersOf(t) : b \in SubnetProvider
    BY DEF ProvidersOf
  <1>15. SubnetsIndexed'
    BY <1>7, <1>10, <1>11, <1>13, <1>14 DEF SubnetsInv, SubnetsIndexed, InRegistry
  <1> QED BY <1>12, <1>15 DEF SubnetsInv

\* A registration leaves those alone that subnets are registered with already.
LEMMA RegistrationKeepsIndex ==
  ASSUME SubnetsInv, UNCHANGED <<subnetProviders, providerSubnets>>,
         subnets' \in [SubnetId -> SubnetConfig \cup {NoSubnet}],
         \A s \in SubnetId : InRegistry(s) =>
           /\ InRegistry(s)' /\ subnets'[s].maxProviders = subnets[s].maxProviders
           /\ subnets'[s].minStake = subnets[s].minStake
  PROVE  SubnetsInv'
  <1>1. \A s \in SubnetId, a \in SubnetProvider : Joined(s, a)' <=> Joined(s, a)
    BY DEF Joined
  <1>2. \A s \in SubnetId : ProvidersOf(s)' = ProvidersOf(s)
    BY <1>1 DEF ProvidersOf
  <1>3. \A a \in SubnetProvider : {t \in SubnetId : Joined(t, a)'} = {t \in SubnetId : Joined(t, a)}
    BY <1>1
  <1>4. SubnetsIndexed'
    BY <1>2, <1>3 DEF SubnetsInv, SubnetsIndexed
  <1> QED BY <1>4 DEF SubnetsInv, SubnetsTypeOK

LEMMA PlacesOf ==
  ASSUME NEW D, NEW q \in Seq(D)
  PROVE  \A i \in DOMAIN q : q[i] \in D /\ i \in Int
  <1>1. DOMAIN q = 1 .. Len(q) /\ Len(q) \in Nat
    OBVIOUS
  <1>2. \A i \in DOMAIN q : q[i] \in D
    OBVIOUS
  <1> QED BY <1>1, <1>2

LEMMA InitializeKeepsIndex ==
  ASSUME SubnetsInv, InitializeDefaultSubnets
  PROVE  SubnetsInv'
  <1>1. PICK known, new : /\ known = {i \in DOMAIN DefaultSubnets :
                                        InRegistry(DefaultSubnets[i].id)}
                          /\ new = {i \in DOMAIN DefaultSubnets : \A k \in known : i < k}
    OBVIOUS
  <1>2. /\ subnets' = [s \in SubnetId |->
             IF \E i \in new : DefaultSubnets[i].id = s
             THEN (CHOOSE d \in {DefaultSubnets[i] : i \in new} : d.id = s).config
             ELSE subnets[s]]
        /\ UNCHANGED <<subnetProviders, providerSubnets>>
    BY <1>1 DEF InitializeDefaultSubnets
  <1>3. DefaultSubnets \in Seq([id : SubnetId, config : SubnetConfig])
    BY SubnetsTyped DEF SubnetsTyped
  <1>4. \A i \in DOMAIN DefaultSubnets :
          /\ DefaultSubnets[i] \in [id : SubnetId, config : SubnetConfig] /\ i \in Int
    BY <1>3, PlacesOf
  <1>5. ASSUME NEW s \in SubnetId, NEW i \in new, DefaultSubnets[i].id = s
        PROVE  /\ (CHOOSE d \in {DefaultSubnets[j] : j \in new} : d.id = s).config \in SubnetConfig
               /\ ~InRegistry(s)
    <2>1. PICK d : d = CHOOSE e \in {DefaultSubnets[j] : j \in new} : e.id = s
      OBVIOUS
    <2>2. d \in {DefaultSubnets[j] : j \in new}
      BY <1>5, <2>1
    <2>3. d \in [id : SubnetId, config : SubnetConfig]
      BY <1>1, <1>4, <2>2
    <2>4. ~InRegistry(s)
      <3> SUFFICES ASSUME InRegistry(s) PROVE FALSE
        OBVIOUS
      <3>1. i \in DOMAIN DefaultSubnets /\ i \in known /\ i \in Int
        BY <1>1, <1>4, <1>5
      <3>2. i < i
        BY <1>1, <3>1
      <3> QED BY <3>1, <3>2
    <2>5. d.config \in SubnetConfig
      BY <2>3
    <2> QED BY <2>1, <2>4, <2>5
  <1>6. subnets \in [SubnetId -> SubnetConfig \cup {NoSubnet}]
    BY DEF SubnetsInv, SubnetsTypeOK
  <1>7. \A s \in SubnetId : /\ subnets'[s] \in SubnetConfig \cup {NoSubnet}
                            /\ InRegistry(s) => subnets'[s] = subnets[s]
    <2> TAKE s \in SubnetId
    <2>1. CASE \E i \in new : DefaultSubnets[i].id = s
      BY <1>2, <1>5, <2>1
    <2>2. CASE ~\E i \in new : DefaultSubnets[i].id = s
      BY <1>2, <1>6, <2>2
    <2> QED BY <2>1, <2>2
  <1>8. subnets' \in [SubnetId -> SubnetConfig \cup {NoSubnet}]
    BY <1>2, <1>7
  <1>9. \A s \in SubnetId : InRegistry(s) =>
          /\ InRegistry(s)' /\ subnets'[s].maxProviders = subnets[s].maxProviders
          /\ subnets'[s].minStake = subnets[s].minStake
    BY <1>7 DEF InRegistry
  <1> QED BY <1>2, <1>8, <1>9, RegistrationKeepsIndex

LEMMA SubnetsInvStep ==
  ASSUME SubnetsInv, SubnetsNext \/ UNCHANGED subnetsVars
  PROVE  SubnetsInv'
  <1>0. /\ NoSubnet \notin SubnetConfig /\ SubnetConfigs \subseteq SubnetConfig
        /\ EmissionWeights \subseteq Nat
    BY SubnetsTyped DEF SubnetsTyped
  <1>1. subnets \in [SubnetId -> SubnetConfig \cup {NoSubnet}]
    BY DEF SubnetsInv, SubnetsTypeOK
  <1>2. ASSUME NEW s \in SubnetId, NEW caller \in SubnetCaller, NEW config \in SubnetConfigs,
               RegisterSubnet(s, config, caller)
        PROVE  SubnetsInv'
    <2>1. /\ subnets' = [subnets EXCEPT ![s] = config] /\ ~InRegistry(s)
          /\ UNCHANGED <<subnetProviders, providerSubnets>>
      BY <1>2 DEF RegisterSubnet
    <2>2. subnets' \in [SubnetId -> SubnetConfig \cup {NoSubnet}]
      BY <1>0, <1>1, <2>1
    <2>3. \A t \in SubnetId : InRegistry(t) => subnets'[t] = subnets[t]
      BY <1>1, <2>1
    <2>4. \A t \in SubnetId : InRegistry(t) =>
            /\ InRegistry(t)' /\ subnets'[t].maxProviders = subnets[t].maxProviders
            /\ subnets'[t].minStake = subnets[t].minStake
      BY <2>3 DEF InRegistry
    <2> QED BY <2>1, <2>2, <2>4, RegistrationKeepsIndex
  <1>3. ASSUME NEW s \in SubnetId, NEW caller \in SubnetCaller,
               \/ \E weight \in EmissionWeights : SetEmissionWeight(s, weight, caller)
               \/ \E status \in {"Active", "Paused"} : SetSubnetStatus(s, status, caller)
        PROVE  SubnetsInv'
    <2>1. PICK old : old = subnets[s]
      OBVIOUS
    <2>2. old \in SubnetConfig /\ UNCHANGED <<subnetProviders, providerSubnets>>
      BY <1>1, <1>3, <2>1 DEF SetEmissionWeight, SetSubnetStatus, InRegistry
    <2>3. PICK new \in SubnetConfig :
            /\ new.maxProviders = old.maxProviders /\ new.minStake = old.minStake
            /\ subnets' = [subnets EXCEPT ![s] = new]
      <3>1. ASSUME NEW weight \in EmissionWeights, SetEmissionWeight(s, weight, caller)
            PROVE  \E new \in SubnetConfig :
                     /\ new.maxProviders = old.maxProviders /\ new.minStake = old.minStake
                     /\ subnets' = [subnets EXCEPT ![s] = new]
        <4> DEFINE new == [old EXCEPT !.weight = weight]
        <4>1. /\ new \in SubnetConfig /\ new.maxProviders = old.maxProviders
              /\ new.minStake = old.minStake
          BY <1>0, <2>2 DEF SubnetConfig
        <4>2. subnets' = [subnets EXCEPT ![s] = new]
          BY <1>1, <2>1, <2>2, <3>1 DEF SetEmissionWeight, SubnetConfig
        <4> HIDE DEF new
        <4> QED BY <4>1, <4>2
      <3>2. ASSUME NEW status \in {"Active", "Paused"}, SetSubnetStatus(s, status, caller)
            PROVE  \E new \in SubnetConfig :
                     /\ new.maxProviders = old.maxProviders /\ new.minStake = old.minStake
                     /\ subnets' = [subnets EXCEPT ![s] = new]
        <4> DEFINE new == [old EXCEPT !.status = status]
        <4>1. /\ new \in SubnetConfig /\ new.maxProviders = old.maxProviders
              /\ new.minStake = old.minStake
          BY <2>2 DEF SubnetConfig
        <4>2. subnets' = [subnets EXCEPT ![s] = new]
          BY <1>1, <2>1, <2>2, <3>2 DEF SetSubnetStatus, SubnetConfig
        <4> HIDE DEF new
        <4> QED BY <4>1, <4>2
      <3> QED BY <1>3, <3>1, <3>2
    <2>4. subnets' \in [SubnetId -> SubnetConfig \cup {NoSubnet}]
      BY <1>1, <2>3
    <2>5. \A t \in SubnetId : subnets'[t] = IF t = s THEN new ELSE subnets[t]
      BY <1>1, <2>3
    <2>6. \A t \in SubnetId : InRegistry(t) =>
            /\ InRegistry(t)' /\ subnets'[t].maxProviders = subnets[t].maxProviders
            /\ subnets'[t].minStake = subnets[t].minStake
      BY <1>0, <2>1, <2>3, <2>5 DEF InRegistry
    <2> QED BY <2>2, <2>4, <2>6, RegistrationKeepsIndex
  <1>4. CASE UNCHANGED subnetsVars
    BY <1>1, <1>4, RegistrationKeepsIndex DEF subnetsVars, InRegistry
  <1> QED BY <1>2, <1>3, <1>4, InitializeKeepsIndex, JoinSubnetKeepsIndex,
             LeaveSubnetKeepsIndex, UpdateQualityKeepsIndex
          DEF SubnetsNext

LEMMA SubnetsInvInit ==
  ASSUME SubnetsInit
  PROVE  SubnetsInv
  <1>1. SubnetsTypeOK
    BY DEF SubnetsInit, SubnetsTypeOK
  <1>2. \A s \in SubnetId, a \in SubnetProvider : ~Joined(s, a)
    BY DEF SubnetsInit, Joined
  <1>3. \A s \in SubnetId : ProvidersOf(s) = {}
    BY <1>2 DEF ProvidersOf
  <1>4. \A a \in SubnetProvider : providerSubnets[a] = <<>> /\ DOMAIN providerSubnets[a] = {}
    BY DEF SubnetsInit
  <1>5. \A a \in SubnetProvider : /\ Range(providerSubnets[a]) = {}
                                  /\ IsInjective(providerSubnets[a])
    BY <1>4 DEF Range, IsInjective
  <1> QED BY <1>1, <1>2, <1>3, <1>5 DEF SubnetsInv, SubnetsIndexed

----------------------------------------------------------------------------
(* Prices move by their bound, and scores are means *)

\* A finite set of numbers that is not empty has a least one and a largest.
LEMMA HasBounds ==
  ASSUME NEW S, IsFiniteSet(S), S # {}, NEW f \in [S -> Nat], NEW V, V = {f[x] : x \in S}
  PROVE  /\ Min(V) \in Nat /\ Max(V) \in Nat
         /\ \A x \in S : Min(V) <= f[x] /\ f[x] <= Max(V)
  <1>1. V \in SUBSET Nat /\ V # {}
    OBVIOUS
  <1>2. PICK lo \in V : \A v \in V : lo <= v
    BY <1>1, LeastNat
  <1>3. Min(V) \in V /\ \A v \in V : Min(V) <= v
    BY <1>2 DEF Min
  <1> DEFINE U == {u \in Nat : \A x \in S : f[x] <= u}
  <1>4. SumFunction(f) \in U
    <2>1. SumFunction(f) \in Nat
      BY SumNat
    <2>2. \A x \in S : f[x] <= SumFunction(f)
      BY SumAtLeast
    <2> QED BY <2>1, <2>2
  <1>5. PICK hi \in U : \A u \in U : hi <= u
    <2>1. U \in SUBSET Nat /\ U # {}
      BY <1>4
    <2> HIDE DEF U
    <2> QED BY <2>1, LeastNat
  <1>6. hi \in Nat /\ \A x \in S : f[x] <= hi
    BY <1>5
  <1>7. hi \in V
    <2> SUFFICES ASSUME hi \notin V PROVE FALSE
      OBVIOUS
    <2>1. \A x \in S : f[x] \in Nat /\ f[x] < hi
      <3> TAKE x \in S
      <3>1. f[x] \in Nat /\ f[x] <= hi /\ f[x] # hi
        BY <1>6
      <3> QED BY <1>6, <3>1
    <2>2. hi # 0
      <3>1. PICK x \in S : TRUE
        OBVIOUS
      <3> QED BY <1>6, <2>1, <3>1
    <2>3. hi - 1 \in Nat /\ \A x \in S : f[x] <= hi - 1
      BY <1>6, <2>1, <2>2
    <2>4. hi - 1 \in U
      BY <2>3
    <2> HIDE DEF U
    <2>5. hi <= hi - 1
      BY <1>5, <2>4
    <2> QED BY <1>6, <2>5
  <1>8. \A v \in V : hi >= v
    BY <1>6
  <1>9. Max(V) \in V /\ \A v \in V : Max(V) >= v
    BY <1>7, <1>8 DEF Max
  <1>10. \A x \in S : f[x] \in V
    OBVIOUS
  <1>11. Min(V) \in Nat /\ Max(V) \in Nat
    BY <1>1, <1>3, <1>9
  <1>12. \A x \in S : Min(V) <= f[x] /\ f[x] <= Max(V)
    <2> TAKE x \in S
    <2>1. Max(V) >= f[x] /\ Min(V) <= f[x] /\ f[x] \in Nat
      BY <1>3, <1>9, <1>10
    <2> QED BY <1>11, <2>1
  <1> QED BY <1>11, <1>12

\* What is n times something between two numbers, by n, is between them.
LEMMA MeanOfTotal ==
  ASSUME NEW n \in Nat, n # 0, NEW total \in Nat, NEW lo \in Nat, NEW hi \in Nat,
         lo * n <= total, total <= hi * n
  PROVE  total \div n \in Nat /\ lo <= total \div n /\ total \div n <= hi
  <1>1. PICK q, r : q = total \div n /\ r = total % n
    OBVIOUS
  <1>2. q \in Nat /\ r \in Nat /\ r < n /\ total = q * n + r
    BY <1>1, QuotientAndRest
  <1>3. q * n \in Nat /\ lo * n \in Nat /\ hi * n \in Nat
    BY <1>2
  <1>4. PICK x, l, h : x = q * n /\ l = lo * n /\ h = hi * n
    OBVIOUS
  <1>5. x \in Nat /\ l \in Nat /\ h \in Nat /\ total = x + r /\ l <= total /\ total <= h
    BY <1>2, <1>3, <1>4
  <1>6. ~(q < lo)
    <2>1. q < lo => x + n <= l
      BY <1>2, <1>4, MultiplesApart
    <2> QED BY <1>2, <1>5, <2>1
  <1>7. ~(hi < q)
    <2>1. hi < q => h + n <= x
      BY <1>2, <1>4, MultiplesApart
    <2> QED BY <1>2, <1>5, <2>1
  <1> QED BY <1>1, <1>2, <1>6, <1>7

\* A mean is between the least and the largest of what it is the mean of.
LEMMA MeanWithin ==
  ASSUME NEW S, IsFiniteSet(S), S # {}, NEW f \in [S -> Nat], NEW V, V = {f[x] : x \in S}
  PROVE  SumFunction(f) \div Cardinality(S) \in Min(V) .. Max(V)
  <1>1. PICK lo, hi, n, total : /\ lo = Min(V) /\ hi = Max(V) /\ n = Cardinality(S)
                                /\ total = SumFunction(f)
    OBVIOUS
  <1>2. lo \in Nat /\ hi \in Nat /\ \A x \in S : lo <= f[x] /\ f[x] <= hi
    BY <1>1, HasBounds
  <1>3. n \in Nat /\ n # 0
    BY <1>1, FS_CardinalityType, FS_EmptySet
  <1>4. total \in Nat
    BY <1>1, SumNat
  <1> DEFINE g == [x \in S |-> lo]
             h == [x \in S |-> hi]
  <1>5. g \in [S -> Nat] /\ h \in [S -> Nat] /\ \A x \in S : g[x] <= f[x] /\ f[x] <= h[x]
    BY <1>2
  <1>6. /\ DOMAIN g = S /\ \A x \in S : g[x] = IF x \in S THEN lo ELSE 0
        /\ DOMAIN h = S /\ \A x \in S : h[x] = IF x \in S THEN hi ELSE 0
    OBVIOUS
  <1> HIDE DEF g, h
  <1>7. S \in SUBSET S
    OBVIOUS
  <1>8. SumFunction(g) = lo * n /\ SumFunction(h) = hi * n
    BY <1>1, <1>2, <1>6, <1>7, SumConstant
  <1>9. lo * n <= total
    <2>1. SumFunction(g) <= SumFunction(f)
      BY <1>5, SumMonotone
    <2> QED BY <1>1, <1>8, <2>1
  <1>10. total <= hi * n
    <2>1. SumFunction(f) <= SumFunction(h)
      BY <1>5, SumMonotone
    <2> QED BY <1>1, <1>8, <2>1
  <1>11. total \div n \in Nat /\ lo <= total \div n /\ total \div n <= hi
    BY <1>2, <1>3, <1>4, <1>9, <1>10, MeanOfTotal
  <1> QED BY <1>1, <1>2, <1>11

\* The price of a point, and before the first the initial one.
PointAt(points, i) == IF i = 0 THEN InitialPrice ELSE points[i].price

PricePoint == [price : Nat \ {0}, height : 0 .. MaxNow]

PricesInv ==
  /\ prices \in Seq(PricePoint)
  /\ currentPrice \in Nat /\ feeders \subseteq Feeder /\ lastUpdateHeight \in -1 .. MaxNow
  /\ lastUpdateHeight <= now
  /\ \A i \in DOMAIN prices : SmallMove(PointAt(prices, i - 1), PointAt(prices, i))
  /\ currentPrice = PointAt(prices, Len(prices))
  /\ \A i \in DOMAIN prices : prices[i].height <= lastUpdateHeight

LEMMA SubmitPriceKeepsPrices ==
  ASSUME PricesInv, now \in 0 .. MaxNow, now' = now, NEW price \in SubmittedPrices,
         NEW feeder \in Feeder, SubmitPrice(price, feeder)
  PROVE  PricesInv'
  <1>1. PICK q, n, point : /\ q = prices /\ n = Len(prices)
                           /\ point = [price |-> price, height |-> now]
    OBVIOUS
  <1>2. q \in Seq(PricePoint) /\ n \in Nat /\ DOMAIN q = 1 .. n
    BY <1>1 DEF PricesInv
  <1>3. price \in Nat /\ price > 0 /\ SmallMove(currentPrice, price)
    BY OraclesTyped DEF OraclesTyped, SubmitPrice
  <1>4. point \in PricePoint /\ point.price = price /\ point.height = now
    BY <1>1, <1>3 DEF PricePoint
  <1>5. PICK next : next = Append(q, point)
    OBVIOUS
  <1>6. /\ next \in Seq(PricePoint) /\ Len(next) = n + 1 /\ DOMAIN next = 1 .. n + 1
        /\ next[n + 1] = point /\ \A i \in 1 .. n : next[i] = q[i]
    BY <1>1, <1>2, <1>4, <1>5
  <1>7. prices' = next /\ currentPrice' = price /\ lastUpdateHeight' = now /\ feeders' = feeders
    BY <1>1, <1>5 DEF SubmitPrice
  <1>8. \A i \in 0 .. n : PointAt(next, i) = PointAt(q, i)
    BY <1>2, <1>6 DEF PointAt
  <1>9. PointAt(next, n + 1) = price
    BY <1>2, <1>4, <1>6 DEF PointAt
  <1>10. ASSUME NEW i \in DOMAIN next
         PROVE  SmallMove(PointAt(next, i - 1), PointAt(next, i))
    <2>1. CASE i \in 1 .. n
      <3>1. i - 1 \in 0 .. n /\ i \in 0 .. n
        BY <1>2, <2>1
      <3>2. SmallMove(PointAt(q, i - 1), PointAt(q, i))
        BY <1>1, <1>2, <2>1 DEF PricesInv
      <3> QED BY <1>8, <3>1, <3>2
    <2>2. CASE i = n + 1
      <3>1. i - 1 = n /\ n \in 0 .. n
        BY <1>2, <2>2
      <3>2. PointAt(next, i - 1) = currentPrice
        BY <1>1, <1>8, <3>1 DEF PricesInv
      <3> QED BY <1>3, <1>9, <2>2, <3>2
    <2>3. i \in 1 .. n \/ i = n + 1
      BY <1>2, <1>6
    <2> QED BY <2>1, <2>2, <2>3
  <1>11. ASSUME NEW i \in DOMAIN next
         PROVE  next[i].height <= now
    <2>1. CASE i \in 1 .. n
      <3>1. q[i].height <= lastUpdateHeight /\ lastUpdateHeight <= now
        BY <1>1, <1>2, <2>1 DEF PricesInv
      <3>2. q[i].height \in Nat /\ lastUpdateHeight \in Int
        <4>1. q[i] \in PricePoint
          BY <1>2, <2>1
        <4> QED BY <4>1 DEF PricesInv, PricePoint
      <3> QED BY <1>6, <2>1, <3>1, <3>2
    <2>2. CASE i = n + 1
      BY <1>4, <1>6, <2>2
    <2>3. i \in 1 .. n \/ i = n + 1
      BY <1>2, <1>6
    <2> QED BY <2>1, <2>2, <2>3
  <1>12. now' \in Nat /\ now \in Int /\ now \in -1 .. MaxNow
    BY HeightsTyped DEF HeightsTyped
  <1> QED BY <1>3, <1>6, <1>7, <1>9, <1>10, <1>11, <1>12 DEF PricesInv

LEMMA PricesInvStep ==
  ASSUME PricesInv, now \in 0 .. MaxNow, now' \in 0 .. MaxNow, now' >= now,
         (PriceNext /\ now' = now) \/ UNCHANGED priceVars
  PROVE  PricesInv'
  <1>1. ASSUME NEW price \in SubmittedPrices, NEW f \in Feeder, SubmitPrice(price, f), now' = now
        PROVE  PricesInv'
    BY <1>1, SubmitPriceKeepsPrices
  <1>2. ASSUME UNCHANGED <<prices, currentPrice, lastUpdateHeight>>, feeders' \subseteq Feeder
        PROVE  PricesInv'
    <2>1. lastUpdateHeight' \in Int /\ lastUpdateHeight' <= now'
      BY <1>2 DEF PricesInv
    <2> QED BY <1>2, <2>1 DEF PricesInv, PointAt
  <1>3. ASSUME NEW f \in Feeder, NEW caller \in OracleCaller,
               AuthorizeFeeder(f, caller) \/ RevokeFeeder(f, caller)
        PROVE  PricesInv'
    <2>1. feeders \subseteq Feeder
      BY DEF PricesInv
    <2> QED BY <1>2, <1>3, <2>1 DEF AuthorizeFeeder, RevokeFeeder
  <1>4. CASE UNCHANGED priceVars
    BY <1>2, <1>4 DEF priceVars, PricesInv
  <1> QED BY <1>1, <1>3, <1>4 DEF PriceNext

LEMMA PricesInvImplies ==
  ASSUME PricesInv
  PROVE  PricesContinuous
  <1>1. PICK q, n : q = prices /\ n = Len(prices)
    OBVIOUS
  <1>2. q \in Seq(PricePoint) /\ n \in Nat /\ DOMAIN q = 1 .. n
    BY <1>1 DEF PricesInv
  <1>3. \A i \in 1 .. n : q[i].price \in Nat /\ q[i].price > 0 /\ PointAt(q, i) = q[i].price
    <2> TAKE i \in 1 .. n
    <2>1. q[i] \in PricePoint /\ i # 0
      BY <1>2
    <2> QED BY <2>1 DEF PricePoint, PointAt
  <1>4. \A i \in DOMAIN prices :
          PointAt(prices, i) > 0 /\ SmallMove(PointAt(prices, i - 1), PointAt(prices, i))
    BY <1>1, <1>2, <1>3 DEF PricesInv
  <1>5. currentPrice = PointAt(prices, Len(prices))
    BY DEF PricesInv
  <1>6. ASSUME prices # <<>>
        PROVE  PointAt(prices, Max(PointsUpTo(lastUpdateHeight))) = currentPrice
    <2>1. PointsUpTo(lastUpdateHeight) = 1 .. n
      BY <1>1, <1>2 DEF PointsUpTo, PricesInv
    <2>2. n # 0
      BY <1>1, <1>2, <1>6
    <2>3. n \in 1 .. n /\ 1 .. n \in SUBSET Nat /\ \A x \in 1 .. n : x <= n
      BY <1>2, <2>2
    <2>4. PICK P : P = 1 .. n
      OBVIOUS
    <2>5. Max(P) = n
      BY <2>3, <2>4, MaxIs
    <2> QED BY <1>1, <1>5, <2>1, <2>4, <2>5
  <1>7. ASSUME NEW k \in DOMAIN prices
        PROVE  Twap(k) \in Min({PointAt(prices, i) : i \in Len(prices) - k + 1 .. Len(prices)})
                         .. Max({PointAt(prices, i) : i \in Len(prices) - k + 1 .. Len(prices)})
    <2>1. k \in 1 .. n
      BY <1>1, <1>2
    <2>2. PICK S : S = {i \in 1 .. n : i > n - k}
      OBVIOUS
    <2>3. S = n - k + 1 .. n /\ S \subseteq 1 .. n
      BY <1>2, <2>1, <2>2
    <2>4. S # {}
      <3>1. n \in S
        BY <1>2, <2>1, <2>2
      <3> QED BY <3>1
    <2>5. IsFiniteSet(S)
      <3>1. IsFiniteSet(1 .. n)
        BY <1>2, FS_Interval
      <3> QED BY <2>3, <3>1, FS_Subset
    <2>6. PICK f, V : /\ f = [i \in S |-> q[i].price]
                      /\ V = {PointAt(prices, i) : i \in Len(prices) - k + 1 .. Len(prices)}
      OBVIOUS
    <2>7. \A i \in S : f[i] = PointAt(q, i) /\ f[i] \in Nat
      BY <1>3, <2>3, <2>6
    <2>8. f \in [S -> Nat]
      BY <2>6, <2>7
    <2>9. V = {f[x] : x \in S}
      <3>1. V = {PointAt(q, i) : i \in S}
        BY <1>1, <2>3, <2>6
      <3> QED BY <2>7, <3>1
    <2>10. SumFunction(f) \div Cardinality(S) \in Min(V) .. Max(V)
      BY <2>4, <2>5, <2>8, <2>9, MeanWithin
    <2>11. {i \in DOMAIN prices : i > Len(prices) - k} = S
      BY <1>1, <1>2, <2>2
    <2>12. Twap(k) = SumFunction([i \in S |-> prices[i].price]) \div Cardinality(S)
      BY <2>11 DEF Twap, SumOver
    <2> QED BY <1>1, <2>6, <2>10, <2>12
  <1> QED BY <1>4, <1>5, <1>6, <1>7 DEF PricesContinuous, PointAt

QualityInv ==
  /\ reports \in [Rated -> Seq(0 .. MaxReportScore)]
  /\ aggregatedScores \in [Rated -> 0 .. MaxReportScore \cup {NoScore}]
  /\ reporters \subseteq Reporter
  /\ ScoresAverage

\* The mean of scores is a score.
LEMMA AverageTyped ==
  ASSUME NEW scores \in Seq(0 .. MaxReportScore), scores # <<>>
  PROVE  Average(scores) \in 0 .. MaxReportScore
  <1>1. PICK n, S, V : n = Len(scores) /\ S = DOMAIN scores /\ V = {scores[i] : i \in S}
    OBVIOUS
  <1>2. n \in Nat /\ S = 1 .. n /\ n # 0 /\ MaxReportScore \in Nat
    BY <1>1, OraclesTyped DEF OraclesTyped
  <1>3. IsFiniteSet(S) /\ Cardinality(S) = n
    <2>1. PICK a : a = 1
      OBVIOUS
    <2>2. a \in Int /\ n \in Int /\ a <= n
      BY <1>2, <2>1
    <2>3. IsFiniteSet(a .. n) /\ Cardinality(a .. n) = n - a + 1
      BY <2>2, FS_Interval
    <2> QED BY <1>2, <2>1, <2>3
  <1>4. \A i \in S : scores[i] \in 0 .. MaxReportScore /\ scores[i] \in Nat
    BY <1>1, <1>2
  <1>5. PICK f : f = [i \in S |-> scores[i]]
    OBVIOUS
  <1>6. f \in [S -> Nat] /\ \A i \in S : f[i] <= MaxReportScore
    BY <1>2, <1>4, <1>5
  <1> DEFINE h == [i \in S |-> MaxReportScore]
  <1>7. h \in [S -> Nat] /\ DOMAIN h = S /\ (\A i \in S : f[i] <= h[i])
        /\ \A i \in S : h[i] = IF i \in S THEN MaxReportScore ELSE 0
    BY <1>2, <1>6
  <1> HIDE DEF h
  <1>8. SumFunction(f) \in Nat
    BY <1>3, <1>6, SumNat
  <1>9. SumFunction(f) <= SumFunction(h)
    <2>1. f \in [S -> Nat] /\ h \in [S -> Nat] /\ \A x \in S : f[x] <= h[x]
      BY <1>6, <1>7
    <2> QED BY <1>3, <2>1, SumMonotone
  <1>10. SumFunction(h) = MaxReportScore * n
    <2>1. S \in SUBSET S
      OBVIOUS
    <2>2. SumFunction(h) = MaxReportScore * Cardinality(S)
      BY <1>2, <1>3, <1>7, <2>1, SumConstant
    <2> QED BY <1>3, <2>2
  <1>11. PICK t : t = SumFunction(f)
    OBVIOUS
  <1>12. t \in Nat /\ t <= MaxReportScore * n
    BY <1>8, <1>9, <1>10, <1>11
  <1>13. 0 \in Nat /\ 0 * n <= t
    BY <1>2, <1>12
  <1>14. t \div n \in Nat /\ 0 <= t \div n /\ t \div n <= MaxReportScore
    BY <1>2, <1>12, <1>13, MeanOfTotal
  <1>15. Average(scores) = t \div n
    BY <1>1, <1>5, <1>11 DEF Average, SumOver
  <1> QED BY <1>2, <1>14, <1>15

LEMMA SubmitReportKeepsScores ==
  ASSUME QualityInv, NEW k \in Rated, NEW reporter \in Reporter, NEW score \in ReportScores,
         SubmitReport(k, reporter, score)
  PROVE  QualityInv'
  <1>1. PICK old, new, n : old = reports[k] /\ new = Append(old, score) /\ n = Len(old)
    OBVIOUS
  <1>2. old \in Seq(0 .. MaxReportScore) /\ n \in Nat
    BY <1>1 DEF QualityInv
  <1>3. score \in 0 .. MaxReportScore /\ MinReports \in Nat /\ MaxReportScore \in Nat
    BY OraclesTyped DEF OraclesTyped, SubmitReport
  <1>4. new \in Seq(0 .. MaxReportScore) /\ Len(new) = n + 1 /\ new # <<>>
    BY <1>1, <1>2, <1>3
  <1>5. reports' = [reports EXCEPT ![k] = new] /\ reporters' = reporters
    BY <1>1 DEF SubmitReport
  <1>6. reports'[k] = new /\ \A x \in Rated \ {k} : reports'[x] = reports[x]
    BY <1>5 DEF QualityInv
  <1>7. aggregatedScores' = [aggregatedScores EXCEPT ![k] = Aggregated(k, new)]
    BY <1>6 DEF SubmitReport
  <1>8. aggregatedScores[k] = IF n < Larger(MinReports, 1) THEN NoScore ELSE Average(old)
    BY <1>1 DEF QualityInv, ScoresAverage
  <1>9. Aggregated(k, new) = IF n + 1 < Larger(MinReports, 1) THEN NoScore ELSE Average(new)
    <2>1. CASE n + 1 >= MinReports
      BY <1>2, <1>3, <1>4, <2>1 DEF Aggregated, Larger
    <2>2. CASE n + 1 < MinReports
      BY <1>2, <1>3, <1>4, <1>8, <2>2 DEF Aggregated, Larger
    <2> QED BY <1>2, <1>3, <2>1, <2>2
  <1>10. /\ aggregatedScores'[k] = Aggregated(k, new)
         /\ \A x \in Rated \ {k} : aggregatedScores'[x] = aggregatedScores[x]
    BY <1>7 DEF QualityInv
  <1>11. ScoresAverage'
    BY <1>4, <1>6, <1>9, <1>10 DEF QualityInv, ScoresAverage
  <1>12. Aggregated(k, new) \in 0 .. MaxReportScore \cup {NoScore}
    <2>1. Average(new) \in 0 .. MaxReportScore
      BY <1>4, AverageTyped
    <2> QED BY <1>9, <2>1
  <1>13. aggregatedScores' \in [Rated -> 0 .. MaxReportScore \cup {NoScore}]
    BY <1>7, <1>12 DEF QualityInv
  <1>14. reports' \in [Rated -> Seq(0 .. MaxReportScore)]
    BY <1>4, <1>5 DEF QualityInv
  <1> QED BY <1>5, <1>11, <1>13, <1>14 DEF QualityInv

LEMMA QualityInvStep ==
  ASSUME QualityInv, QualityNext \/ UNCHANGED qualityVars
  PROVE  QualityInv'
  <1>1. ASSUME UNCHANGED <<reports, aggregatedScores>>, reporters' \subseteq Reporter
        PROVE  QualityInv'
    BY <1>1 DEF QualityInv, ScoresAverage
  <1>2. ASSUME NEW r \in Reporter, NEW caller \in OracleCaller,
               AuthorizeReporter(r, caller) \/ RevokeReporter(r, caller)
        PROVE  QualityInv'
    <2>1. reporters \subseteq Reporter
      BY DEF QualityInv
    <2> QED BY <1>1, <1>2, <2>1 DEF AuthorizeReporter, RevokeReporter
  <1>3. CASE UNCHANGED qualityVars
    BY <1>1, <1>3 DEF qualityVars, QualityInv
  <1> QED BY <1>2, <1>3, SubmitReportKeepsScores DEF QualityNext

LEMMA OraclesInvInit ==
  ASSUME OraclesInit, now = 0
  PROVE  PricesInv /\ QualityInv
  <1>1. prices \in Seq(PricePoint) /\ Len(prices) = 0 /\ DOMAIN prices = {}
    BY DEF OraclesInit
  <1>2. PricesInv
    BY <1>1, OraclesTyped, HeightsTyped
       DEF OraclesInit, PricesInv, PointAt, OraclesTyped, HeightsTyped
  <1>3. \A k \in Rated : reports[k] = <<>> /\ Len(reports[k]) = 0 /\ aggregatedScores[k] = NoScore
    BY DEF OraclesInit
  <1>4. 0 < Larger(MinReports, 1)
    BY OraclesTyped DEF OraclesTyped, Larger
  <1>5. ScoresAverage
    BY <1>3, <1>4 DEF ScoresAverage
  <1> QED BY <1>2, <1>5 DEF OraclesInit, QualityInv

----------------------------------------------------------------------------
(* Tokens of agents.  Off a sigmoid, what a piece of the curve costs is a quotient of the *)
(* difference between two values of one potential: rounding loses less than one unit per  *)
(* piece.                                                                                 *)

\* A sum of quotients is at most one less than the quotient of the sum.
LEMMA QuotientsAdd ==
  ASSUME NEW x \in Nat, NEW y \in Nat, NEW m \in Nat, m # 0
  PROVE  /\ (x + y) \div m \in Nat /\ x \div m \in Nat /\ y \div m \in Nat
         /\ (x \div m) + (y \div m) <= (x + y) \div m
         /\ (x + y) \div m <= (x \div m) + (y \div m) + 1
  <1>1. PICK p, q, w : p = x \div m /\ q = y \div m /\ w = (x + y) \div m
    OBVIOUS
  <1>2. PICK r, s, v : r = x % m /\ s = y % m /\ v = (x + y) % m
    OBVIOUS
  <1>3. /\ p \in Nat /\ r \in 0 .. m - 1 /\ x = p * m + r
        /\ q \in Nat /\ s \in 0 .. m - 1 /\ y = q * m + s
        /\ w \in Nat /\ v \in 0 .. m - 1 /\ x + y = w * m + v
    <2>1. p \in Nat /\ r \in 0 .. m - 1 /\ x = p * m + r
      BY <1>1, <1>2, QuotientAndRest
    <2>2. q \in Nat /\ s \in 0 .. m - 1 /\ y = q * m + s
      BY <1>1, <1>2, QuotientAndRest
    <2>3. x + y \in Nat
      OBVIOUS
    <2>4. w \in Nat /\ v \in 0 .. m - 1 /\ x + y = w * m + v
      BY <1>1, <1>2, <2>3, QuotientAndRest
    <2> QED BY <2>1, <2>2, <2>4
  <1>4. /\ (p + q) * m = p * m + q * m
        /\ (p + q + 1) * m = p * m + q * m + m
    BY <1>3
  <1>5. PICK a, b, c, d, e : /\ a = p * m /\ b = q * m /\ c = w * m
                             /\ d = (p + q) * m /\ e = (p + q + 1) * m
    OBVIOUS
  <1>6. a \in Nat /\ b \in Nat /\ c \in Nat
    BY <1>3, <1>5
  <1>7. a + b + r + s = c + v /\ d = a + b /\ e = a + b + m
    BY <1>3, <1>4, <1>5, <1>6
  <1>8. ~(w < p + q)
    <2>1. w < p + q => w * m + m <= (p + q) * m
      BY <1>3, MultiplesApart
    <2>2. w < p + q => c + m <= d
      BY <1>5, <2>1
    <2>3. r \in Nat /\ s \in Nat /\ v \in Nat /\ v < m
      BY <1>3
    <2> QED BY <1>6, <1>7, <2>2, <2>3
  <1>9. ~(p + q + 1 < w)
    <2>1. p + q + 1 < w => (p + q + 1) * m + m <= w * m
      BY <1>3, MultiplesApart
    <2>2. p + q + 1 < w => e + m <= c
      BY <1>5, <2>1
    <2>3. r \in Nat /\ s \in Nat /\ v \in Nat /\ r < m /\ s < m
      BY <1>3
    <2> QED BY <1>6, <1>7, <2>2, <2>3
  <1> QED BY <1>1, <1>3, <1>8, <1>9

Squared(n) == n * n
Cubed(n) == (n \div Scale) * (n \div Scale) * (n \div Scale)

Potential(c, n) == IF c.kind = "Linear" THEN c.a * Squared(n) ELSE c.a * Cubed(n)
PerPotential(c) == IF c.kind = "Linear" THEN 2 * Scale ELSE 3

LEMMA SquaresGrow ==
  ASSUME NEW n \in Nat, NEW k \in Nat, n <= k
  PROVE  Squared(n) \in Nat /\ Squared(k) \in Nat /\ Squared(n) <= Squared(k)
  <1>1. PICK d \in Nat : k = n + d
    <2>1. k - n \in Nat /\ k = n + (k - n)
      OBVIOUS
    <2> QED BY <2>1
  <1>2. k * k = n * n + n * d + d * n + d * d
    BY <1>1
  <1>3. n * n \in Nat /\ n * d \in Nat /\ d * n \in Nat /\ d * d \in Nat
    BY <1>1
  <1> QED BY <1>2, <1>3 DEF Squared

LEMMA ProductsGrow ==
  ASSUME NEW n \in Nat, NEW k \in Nat, n <= k, NEW a \in Nat, NEW b \in Nat, a <= b
  PROVE  n * a \in Nat /\ k * b \in Nat /\ n * a <= k * b
  <1>1. PICK d \in Nat : k = n + d
    <2>1. k - n \in Nat /\ k = n + (k - n)
      OBVIOUS
    <2> QED BY <2>1
  <1>2. PICK e \in Nat : b = a + e
    <2>1. b - a \in Nat /\ b = a + (b - a)
      OBVIOUS
    <2> QED BY <2>1
  <1>3. k * b = n * a + n * e + d * a + d * e
    BY <1>1, <1>2
  <1>4. n * a \in Nat /\ n * e \in Nat /\ d * a \in Nat /\ d * e \in Nat
    BY <1>1, <1>2
  <1> QED BY <1>3, <1>4

LEMMA CubesGrow ==
  ASSUME NEW n \in Nat, NEW k \in Nat, n <= k
  PROVE  Cubed(n) \in Nat /\ Cubed(k) \in Nat /\ Cubed(n) <= Cubed(k)
  <1>1. Scale \in Nat \ {0}
    BY AgentTokensTyped DEF AgentTokensTyped
  <1>2. PICK x, y : x = n \div Scale /\ y = k \div Scale
    OBVIOUS
  <1>3. x \in Nat /\ y \in Nat /\ x <= y
    BY <1>1, <1>2, QuotientGrows
  <1>4. x * x \in Nat /\ y * y \in Nat /\ x * x <= y * y
    BY <1>3, ProductsGrow
  <1>5. (x * x) * x \in Nat /\ (y * y) * y \in Nat /\ (x * x) * x <= (y * y) * y
    BY <1>3, <1>4, ProductsGrow
  <1> QED BY <1>2, <1>5 DEF Cubed

LEMMA PotentialGrows ==
  ASSUME NEW c \in Curves, c.kind # "Sigmoid", NEW n \in Nat, NEW k \in Nat, n <= k
  PROVE  /\ Potential(c, n) \in Nat /\ Potential(c, k) \in Nat
         /\ Potential(c, n) <= Potential(c, k)
         /\ PerPotential(c) \in Nat /\ PerPotential(c) # 0
         /\ CurveCost(c, n, k) = (Potential(c, k) - Potential(c, n)) \div PerPotential(c)
  <1>1. c.kind \in {"Linear", "Quadratic"} /\ c.a \in Nat /\ Scale \in Nat \ {0}
    BY AgentTokensTyped DEF AgentTokensTyped
  <1>2. CASE c.kind = "Linear"
    <2>1. PICK a, x, y : a = c.a /\ x = Squared(n) /\ y = Squared(k)
      OBVIOUS
    <2>2. a \in Nat /\ x \in Nat /\ y \in Nat /\ x <= y
      BY <1>1, <2>1, SquaresGrow
    <2>3. a * x \in Nat /\ a * y \in Nat /\ a * x <= a * y
      BY <2>2, ProductsGrow
    <2>4. a * (y - x) = a * y - a * x
      BY <2>2
    <2>5. PerPotential(c) = 2 * Scale /\ 2 * Scale \in Nat /\ 2 * Scale # 0
      BY <1>1, <1>2 DEF PerPotential
    <2>6. Potential(c, n) = a * x /\ Potential(c, k) = a * y
      BY <1>2, <2>1 DEF Potential
    <2>7. CurveCost(c, n, k) = (a * (y - x)) \div (2 * Scale)
      BY <1>2, <2>1 DEF CurveCost, Squared
    <2> QED BY <2>3, <2>4, <2>5, <2>6, <2>7
  <1>3. CASE c.kind = "Quadratic"
    <2>1. PICK a, x, y : a = c.a /\ x = Cubed(n) /\ y = Cubed(k)
      OBVIOUS
    <2>2. a \in Nat /\ x \in Nat /\ y \in Nat /\ x <= y
      BY <1>1, <2>1, CubesGrow
    <2>3. a * x \in Nat /\ a * y \in Nat /\ a * x <= a * y
      BY <2>2, ProductsGrow
    <2>4. a * (y - x) = a * y - a * x
      BY <2>2
    <2>5. PerPotential(c) = 3
      BY <1>3 DEF PerPotential
    <2>6. Potential(c, n) = a * x /\ Potential(c, k) = a * y
      BY <1>3, <2>1 DEF Potential
    <2>7. CurveCost(c, n, k) = (a * (y - x)) \div 3
      BY <1>3, <2>1 DEF CurveCost, Cubed
    <2> QED BY <2>3, <2>4, <2>5, <2>6, <2>7
  <1> QED BY <1>1, <1>2, <1>3

\* The cost of the whole supply, and of the part up to one of its numbers.
LEMMA CostsAdd ==
  ASSUME NEW c \in Curves, c.kind # "Sigmoid", NEW n \in Nat, NEW k \in Nat, n <= k
  PROVE  /\ CurveCost(c, 0, n) \in Nat /\ CurveCost(c, n, k) \in Nat
         /\ CurveCost(c, 0, k) \in Nat
         /\ CurveCost(c, 0, n) + CurveCost(c, n, k) <= CurveCost(c, 0, k)
         /\ CurveCost(c, 0, k) <= CurveCost(c, 0, n) + CurveCost(c, n, k) + 1
  <1>1. PICK z, p, q, m : /\ z = Potential(c, 0) /\ p = Potential(c, n)
                          /\ q = Potential(c, k) /\ m = PerPotential(c)
    OBVIOUS
  <1>2. 0 \in Nat /\ 0 <= n /\ 0 <= k
    OBVIOUS
  <1>3. /\ z \in Nat /\ p \in Nat /\ q \in Nat /\ z <= p /\ p <= q /\ m \in Nat /\ m # 0
        /\ CurveCost(c, 0, n) = (p - z) \div m /\ CurveCost(c, n, k) = (q - p) \div m
        /\ CurveCost(c, 0, k) = (q - z) \div m
    BY <1>1, <1>2, PotentialGrows
  <1>4. PICK x, y : x = p - z /\ y = q - p
    OBVIOUS
  <1>5. x \in Nat /\ y \in Nat /\ q - z = x + y
    BY <1>3, <1>4
  <1>6. /\ (x + y) \div m \in Nat /\ x \div m \in Nat /\ y \div m \in Nat
        /\ (x \div m) + (y \div m) <= (x + y) \div m
        /\ (x + y) \div m <= (x \div m) + (y \div m) + 1
    BY <1>3, <1>5, QuotientsAdd
  <1> QED BY <1>3, <1>4, <1>5, <1>6

LEMMA PriceTyped ==
  ASSUME NEW c \in Curves, NEW n \in Nat
  PROVE  PriceAt(c, n) \in Nat
  <1>1. /\ c.kind \in {"Linear", "Quadratic", "Sigmoid"} /\ c.a \in Nat /\ c.b \in Nat
        /\ Scale \in Nat /\ Scale # 0
    BY AgentTokensTyped DEF AgentTokensTyped
  <1>2. \A x, m \in Nat : m # 0 => x \div m \in Nat
    BY QuotientAndRest
  <1>3. \A x, y \in Nat : x * y \in Nat
    OBVIOUS
  <1>4. CASE c.kind = "Linear"
    <2>1. (c.a * n) \div Scale \in Nat
      BY <1>1, <1>2, <1>3
    <2> QED BY <1>4, <2>1 DEF PriceAt
  <1>5. CASE c.kind = "Quadratic"
    <2>1. PICK x : x = (c.a * n) \div Scale
      OBVIOUS
    <2>2. x \in Nat
      BY <1>1, <1>2, <1>3, <2>1
    <2>3. (x * n) \div Scale \in Nat
      BY <1>1, <1>2, <1>3, <2>2
    <2> QED BY <1>5, <2>1, <2>3 DEF PriceAt
  <1>6. CASE c.kind = "Sigmoid"
    <2>1. PICK low, high : low = c.b \div 5 /\ high = (c.b * 4) \div 5
      OBVIOUS
    <2>2. low \in Nat /\ high \in Nat
      BY <1>1, <1>2, <1>3, <2>1
    <2>3. PICK least, most, range : /\ least = c.a \div 20 /\ most = (c.a * 19) \div 20
                                    /\ range = (c.a * 9) \div 10
      OBVIOUS
    <2>4. least \in Nat /\ most \in Nat /\ range \in Nat
      BY <1>1, <1>2, <1>3, <2>3
    <2>5. PriceAt(c, n) = IF n <= low THEN least
                          ELSE IF n >= high THEN most
                          ELSE least + (range * (n - low)) \div (high - low)
      BY <1>6, <2>1, <2>3 DEF PriceAt
    <2>6. ASSUME ~(n <= low), ~(n >= high)
          PROVE  least + (range * (n - low)) \div (high - low) \in Nat
      <3>1. PICK d, w : d = n - low /\ w = high - low
        OBVIOUS
      <3>2. d \in Nat /\ w \in Nat /\ w # 0
        BY <2>2, <2>6, <3>1
      <3>3. (range * d) \div w \in Nat
        BY <1>2, <1>3, <2>4, <3>2
      <3>4. PICK x : x = (range * d) \div w
        OBVIOUS
      <3> QED BY <2>4, <3>1, <3>3, <3>4
    <2> QED BY <2>4, <2>5, <2>6
  <1> QED BY <1>1, <1>4, <1>5, <1>6

\* What a piece of any curve costs; nothing costs nothing.
LEMMA CostTyped ==
  ASSUME NEW c \in Curves, NEW n \in Nat, NEW k \in Nat, n <= k
  PROVE  CurveCost(c, n, k) \in Nat /\ (n = k => CurveCost(c, n, k) = 0)
  <1>1. c.kind \in {"Linear", "Quadratic", "Sigmoid"}
    BY AgentTokensTyped DEF AgentTokensTyped
  <1>2. CASE c.kind # "Sigmoid"
    <2>1. CurveCost(c, n, k) \in Nat
      BY <1>2, CostsAdd
    <2>2. ASSUME n = k
          PROVE  CurveCost(c, n, k) = 0
      <3>1. PICK p, m : p = Potential(c, n) /\ m = PerPotential(c)
        OBVIOUS
      <3>2. p \in Nat /\ m \in Nat /\ m # 0 /\ CurveCost(c, n, k) = (p - p) \div m
        BY <1>2, <2>2, <3>1, PotentialGrows
      <3>3. 0 \div m = 0
        BY <3>2
      <3> QED BY <3>2, <3>3
    <2> QED BY <2>1, <2>2
  <1>3. CASE c.kind = "Sigmoid"
    <2>1. PICK p, q, d : p = PriceAt(c, n) /\ q = PriceAt(c, k) /\ d = k - n
      OBVIOUS
    <2>2. p \in Nat /\ q \in Nat /\ d \in Nat /\ (n = k => d = 0)
      BY <2>1, PriceTyped
    <2>3. CurveCost(c, n, k) = ((p + q) * d) \div 2
      BY <1>3, <2>1 DEF CurveCost
    <2>4. (p + q) * d \in Nat /\ (d = 0 => (p + q) * d = 0)
      BY <2>2
    <2>5. \A x \in Nat : x \div 2 \in Nat
      OBVIOUS
    <2>6. 0 \div 2 = 0
      OBVIOUS
    <2> QED BY <2>2, <2>3, <2>4, <2>5, <2>6
  <1> QED BY <1>1, <1>2, <1>3

\* Every natural has an integer square root.
LEMMA RootExists ==
  ASSUME NEW n \in Nat
  PROVE  \E r \in 0 .. n : r * r <= n /\ (r + 1) * (r + 1) > n
  <1>1. PICK T : T = {r \in Nat : (r + 1) * (r + 1) > n}
    OBVIOUS
  <1>2. n \in T
    <2>1. (n + 1) * (n + 1) = n * n + n + n + 1 /\ n * n \in Nat
      OBVIOUS
    <2>2. (n + 1) * (n + 1) > n
      BY <2>1
    <2> QED BY <1>1, <2>2
  <1>3. T \in SUBSET Nat /\ T # {}
    BY <1>1, <1>2
  <1>4. PICK r \in T : \A k \in T : r <= k
    BY <1>3, LeastNat
  <1>5. r \in Nat /\ (r + 1) * (r + 1) > n /\ r <= n
    BY <1>1, <1>2, <1>4
  <1>6. r * r <= n
    <2>1. CASE r = 0
      BY <2>1
    <2>2. CASE r # 0
      <3>1. PICK k : k = r - 1
        OBVIOUS
      <3>2. k \in Nat /\ k + 1 = r /\ ~(r <= k)
        BY <1>5, <2>2, <3>1
      <3>3. k \notin T
        BY <1>4, <3>2
      <3>4. ~((k + 1) * (k + 1) > n)
        BY <1>1, <3>2, <3>3
      <3>5. r * r \in Nat /\ ~(r * r > n)
        BY <1>5, <3>2, <3>4
      <3> QED BY <3>5
    <2> QED BY <2>1, <2>2
  <1> QED BY <1>5, <1>6

LEMMA TokensTyped ==
  ASSUME NEW c \in Curves, NEW n \in Nat, NEW isa \in Nat
  PROVE  TokensFor(c, n, isa) \in Nat
  <1>1. c.kind \in {"Linear", "Quadratic", "Sigmoid"} /\ c.a \in Nat /\ Scale \in Nat
    BY AgentTokensTyped DEF AgentTokensTyped
  <1>2. CASE c.kind = "Linear" /\ c.a # 0
    <2>1. PICK m : m = n * n + (2 * Scale * isa) \div c.a
      OBVIOUS
    <2>2. m \in Nat
      <3>1. 2 * Scale * isa \in Nat /\ n * n \in Nat
        BY <1>1
      <3>2. (2 * Scale * isa) \div c.a \in Nat
        BY <1>1, <1>2, <3>1, QuotientAndRest
      <3>3. PICK x, y : x = n * n /\ y = (2 * Scale * isa) \div c.a
        OBVIOUS
      <3> QED BY <2>1, <3>1, <3>2, <3>3
    <2>3. PICK root : root = CHOOSE r \in 0 .. m : r * r <= m /\ (r + 1) * (r + 1) > m
      OBVIOUS
    <2>4. root \in Nat
      <3>1. \E r \in 0 .. m : r * r <= m /\ (r + 1) * (r + 1) > m
        BY <2>2, RootExists
      <3>2. root \in 0 .. m
        BY <2>3, <3>1
      <3> QED BY <2>2, <3>2
    <2>5. TokensFor(c, n, isa) = Monus(root, n)
      BY <1>2, <2>1, <2>3 DEF TokensFor
    <2> QED BY <2>4, <2>5 DEF Monus
  <1>3. CASE c.a = 0 /\ c.kind # "Sigmoid"
    BY <1>1, <1>3 DEF TokensFor
  <1>4. CASE c.kind = "Sigmoid" \/ (c.kind = "Quadratic" /\ c.a # 0)
    <2>1. PICK most : most = isa \div Larger(PriceAt(c, n), 1) + 1
      OBVIOUS
    <2>2. most \in Nat
      <3>1. PICK p : p = Larger(PriceAt(c, n), 1)
        OBVIOUS
      <3>2. PriceAt(c, n) \in Nat
        BY PriceTyped
      <3>3. p \in Nat /\ p # 0
        BY <3>1, <3>2 DEF Larger
      <3>4. isa \div p \in Nat
        BY <3>3, QuotientAndRest
      <3>5. PICK x : x = isa \div p
        OBVIOUS
      <3> QED BY <2>1, <3>1, <3>4, <3>5
    <2>3. PICK S : S = {k \in 0 .. most : CurveCost(c, n, n + k) <= isa}
      OBVIOUS
    <2>4. S \in SUBSET Nat /\ IsFiniteSet(S)
      <3>1. IsFiniteSet(0 .. most)
        <4>1. 0 \in Int /\ most \in Int
          BY <2>2
        <4> QED BY <4>1, FS_Interval
      <3>2. S \subseteq 0 .. most
        BY <2>3
      <3>3. IsFiniteSet(S)
        BY <3>1, <3>2, FS_Subset
      <3> QED BY <2>2, <3>2, <3>3
    <2>5. 0 \in S
      <3>1. CurveCost(c, n, n) = 0
        BY CostTyped
      <3>2. n + 0 = n /\ 0 \in 0 .. most /\ 0 <= isa
        BY <2>2
      <3> QED BY <2>3, <3>1, <3>2
    <2>6. PICK m \in S : \A k \in S : k <= m
      BY <2>4, <2>5, LargestOf
    <2>7. Max(S) = m /\ m \in Nat
      BY <2>4, <2>6, MaxIs
    <2>8. TokensFor(c, n, isa) = Max(S)
      BY <1>4, <2>1, <2>3 DEF TokensFor
    <2> QED BY <2>7, <2>8
  <1>5. \/ c.kind = "Linear" /\ c.a # 0
        \/ c.a = 0 /\ c.kind # "Sigmoid"
        \/ c.kind = "Sigmoid" \/ (c.kind = "Quadratic" /\ c.a # 0)
    BY <1>1
  <1> QED BY <1>2, <1>3, <1>4, <1>5

\* A token whose holders have its supply, and whose reserve tracks the curve.
Backed(token, b, s) ==
  LET whole == CurveCost(token.curve, 0, token.supply) IN
  /\ token.supply = SumFunction(token.holders)
  /\ token.curve.kind # "Sigmoid" =>
       /\ token.reserve <= whole + s
       /\ whole <= token.reserve + b

TokensInv == AgentTokensTypeOK /\ ReservesTrackCurve

AllBacked == \A a \in TokenAgent : agentTokens[a] # NoToken =>
               Backed(agentTokens[a], bought[a], sold[a])

LEMMA IntegralIsCost ==
  ASSUME NEW c \in Curves, c.kind = "Linear", NEW n \in Nat
  PROVE  Integral(c, n) = CurveCost(c, 0, n)
  <1>1. c.a \in Nat
    BY AgentTokensTyped DEF AgentTokensTyped
  <1>2. n * n - 0 * 0 = n * n
    OBVIOUS
  <1> QED BY <1>1, <1>2 DEF Integral, CurveCost

LEMMA TokensBacked == TokensInv <=> AgentTokensTypeOK /\ AllBacked
  <1>1. ASSUME AgentTokensTypeOK, NEW a \in TokenAgent, agentTokens[a] # NoToken
        PROVE  SumOver(LAMBDA h : agentTokens[a].holders[h], TokenHolder)
                 = SumFunction(agentTokens[a].holders)
    <2>1. agentTokens[a] \in AgentToken
      BY <1>1 DEF AgentTokensTypeOK
    <2>2. agentTokens[a].holders = [h \in TokenHolder |-> agentTokens[a].holders[h]]
      BY <2>1 DEF AgentToken
    <2> QED BY <2>2 DEF SumOver
  <1>2. ASSUME AgentTokensTypeOK, NEW a \in TokenAgent, agentTokens[a] # NoToken
        PROVE  LET token == agentTokens[a] IN
               /\ token.curve.kind \in {"Linear", "Quadratic", "Sigmoid"}
               /\ token.curve.kind = "Linear" =>
                    Integral(token.curve, token.supply) = CurveCost(token.curve, 0, token.supply)
    <2>1. PICK token : token = agentTokens[a]
      OBVIOUS
    <2>2. token.curve \in Curves /\ token.supply \in Nat
      BY <1>2, <2>1 DEF AgentTokensTypeOK, AgentToken
    <2> QED BY <2>1, <2>2, IntegralIsCost, AgentTokensTyped DEF AgentTokensTyped
  <1>3. ASSUME AgentTokensTypeOK, NEW a \in TokenAgent, agentTokens[a] # NoToken
        PROVE  LET token == agentTokens[a]  curve == token.curve IN
               (/\ token.supply = SumOver(LAMBDA h : token.holders[h], TokenHolder)
                /\ curve.kind = "Linear" => Follows(a, Integral(curve, token.supply))
                /\ curve.kind = "Quadratic" => Follows(a, CurveCost(curve, 0, token.supply)))
               <=> Backed(token, bought[a], sold[a])
    BY <1>1, <1>2, <1>3 DEF Follows, Backed
  <1> QED BY <1>3 DEF TokensInv, ReservesTrackCurve, AllBacked

CostsToBuy(token, n, cost) ==
  cost = CurveCost(token.curve, token.supply, token.supply + n)

AfterBuy(token, h, n, cost, new) ==
  new = [token EXCEPT !.supply = @ + n, !.reserve = @ + cost, !.holders[h] = @ + n]

PaysToSell(token, n, proceeds) ==
  /\ proceeds = CurveCost(token.curve, token.supply - n, token.supply)
  /\ proceeds <= token.reserve

AfterSell(token, h, n, proceeds, new) ==
  new = [token EXCEPT !.supply = @ - n, !.reserve = @ - proceeds, !.holders[h] = @ - n]

LEMMA BackedAfterBuy ==
  ASSUME NEW token \in AgentToken, NEW b \in Nat, NEW s \in Nat, Backed(token, b, s),
         NEW h \in TokenHolder, NEW n \in Nat, NEW cost,
         CostsToBuy(token, n, cost), NEW new, AfterBuy(token, h, n, cost, new)
  PROVE  new \in AgentToken /\ Backed(new, b + 1, s)
  <1>1. /\ token.curve \in Curves /\ token.supply \in Nat /\ token.reserve \in Nat
        /\ token.holders \in [TokenHolder -> Nat]
    BY DEF AgentToken
  <1>2. PICK m : m = token.supply + n
    OBVIOUS
  <1>3. m \in Nat /\ token.supply <= m
    BY <1>1, <1>2
  <1>4. cost \in Nat
    BY <1>1, <1>2, <1>3, CostTyped DEF CostsToBuy
  <1>5. PICK r, hs : /\ r = token.reserve + cost
                     /\ hs = [token.holders EXCEPT ![h] = @ + n]
    OBVIOUS
  <1>6. r \in Nat /\ hs \in [TokenHolder -> Nat]
    BY <1>1, <1>4, <1>5
  <1>7. /\ new \in AgentToken /\ new.curve = token.curve /\ new.supply = m /\ new.reserve = r
        /\ new.holders = hs
    BY <1>1, <1>2, <1>3, <1>5, <1>6 DEF AgentToken, AfterBuy
  <1>8. SumFunction(hs) = m
    <2>1. SumFunction(hs) = SumFunction(token.holders) - token.holders[h] + hs[h]
      <3>1. IsFiniteSet(TokenHolder)
        BY AgentTokensTyped DEF AgentTokensTyped
      <3>2. token.holders \in [TokenHolder -> Int] /\ hs \in [TokenHolder -> Int]
        BY <1>1, <1>6
      <3>3. \A y \in TokenHolder \ {h} : hs[y] = token.holders[y]
        BY <1>1, <1>5
      <3> QED BY <3>1, <3>2, <3>3, SumUpdate
    <2>2. hs[h] = token.holders[h] + n /\ token.holders[h] \in Nat
      BY <1>1, <1>5
    <2>3. SumFunction(token.holders) = token.supply
      BY DEF Backed
    <2>4. PICK x, y : x = token.holders[h] /\ y = token.supply
      OBVIOUS
    <2>5. SumFunction(hs) = y - x + (x + n) /\ x \in Nat /\ y \in Nat
      BY <1>1, <2>1, <2>2, <2>3, <2>4
    <2> QED BY <1>2, <2>4, <2>5
  <1>9. ASSUME token.curve.kind # "Sigmoid"
        PROVE  /\ r <= CurveCost(token.curve, 0, m) + s
               /\ CurveCost(token.curve, 0, m) <= r + (b + 1)
    <2>1. PICK w, v : /\ w = CurveCost(token.curve, 0, token.supply)
                      /\ v = CurveCost(token.curve, 0, m)
      OBVIOUS
    <2>2. w \in Nat /\ v \in Nat /\ w + cost <= v /\ v <= w + cost + 1
      BY <1>1, <1>2, <1>3, <1>9, <2>1, CostsAdd DEF CostsToBuy
    <2>3. token.reserve <= w + s /\ w <= token.reserve + b
      BY <1>9, <2>1 DEF Backed
    <2> QED BY <1>1, <1>4, <1>5, <2>1, <2>2, <2>3
  <1> QED BY <1>7, <1>8, <1>9 DEF Backed

LEMMA BackedAfterSell ==
  ASSUME NEW token \in AgentToken, NEW b \in Nat, NEW s \in Nat, Backed(token, b, s),
         NEW h \in TokenHolder, NEW n \in Nat, n <= token.holders[h], NEW proceeds,
         PaysToSell(token, n, proceeds), NEW new, AfterSell(token, h, n, proceeds, new)
  PROVE  new \in AgentToken /\ Backed(new, b, s + 1)
  <1>1. /\ token.curve \in Curves /\ token.supply \in Nat /\ token.reserve \in Nat
        /\ token.holders \in [TokenHolder -> Nat]
    BY DEF AgentToken
  <1>2. PICK m : m = token.supply - n
    OBVIOUS
  <1>3. m \in Nat /\ m <= token.supply
    <2>1. token.holders[h] <= SumFunction(token.holders)
      <3>1. IsFiniteSet(TokenHolder)
        BY AgentTokensTyped DEF AgentTokensTyped
      <3> QED BY <1>1, <3>1, SumAtLeast
    <2>2. SumFunction(token.holders) = token.supply
      BY DEF Backed
    <2>3. token.holders[h] \in Nat
      BY <1>1
    <2> QED BY <1>1, <1>2, <2>1, <2>2, <2>3
  <1>4. proceeds \in Nat
    BY <1>1, <1>2, <1>3, CostTyped DEF PaysToSell
  <1>5. PICK r, hs : /\ r = token.reserve - proceeds
                     /\ hs = [token.holders EXCEPT ![h] = @ - n]
    OBVIOUS
  <1>6. r \in Nat /\ hs \in [TokenHolder -> Nat]
    BY <1>1, <1>4, <1>5 DEF PaysToSell
  <1>7. /\ new \in AgentToken /\ new.curve = token.curve /\ new.supply = m /\ new.reserve = r
        /\ new.holders = hs
    BY <1>1, <1>2, <1>3, <1>5, <1>6 DEF AgentToken, AfterSell
  <1>8. SumFunction(hs) = m
    <2>1. SumFunction(hs) = SumFunction(token.holders) - token.holders[h] + hs[h]
      <3>1. IsFiniteSet(TokenHolder)
        BY AgentTokensTyped DEF AgentTokensTyped
      <3>2. token.holders \in [TokenHolder -> Int] /\ hs \in [TokenHolder -> Int]
        BY <1>1, <1>6
      <3>3. \A y \in TokenHolder \ {h} : hs[y] = token.holders[y]
        BY <1>1, <1>5
      <3> QED BY <3>1, <3>2, <3>3, SumUpdate
    <2>2. hs[h] = token.holders[h] - n /\ token.holders[h] \in Nat
      BY <1>1, <1>5
    <2>3. SumFunction(token.holders) = token.supply
      BY DEF Backed
    <2>4. PICK x, y : x = token.holders[h] /\ y = token.supply
      OBVIOUS
    <2>5. SumFunction(hs) = y - x + (x - n) /\ x \in Nat /\ y \in Nat
      BY <1>1, <2>1, <2>2, <2>3, <2>4
    <2> QED BY <1>2, <2>4, <2>5
  <1>9. ASSUME token.curve.kind # "Sigmoid"
        PROVE  /\ r <= CurveCost(token.curve, 0, m) + (s + 1)
               /\ CurveCost(token.curve, 0, m) <= r + b
    <2>1. PICK w, v : /\ w = CurveCost(token.curve, 0, token.supply)
                      /\ v = CurveCost(token.curve, 0, m)
      OBVIOUS
    <2>2. w \in Nat /\ v \in Nat /\ v + proceeds <= w /\ w <= v + proceeds + 1
      BY <1>1, <1>2, <1>3, <1>9, <2>1, CostsAdd DEF PaysToSell
    <2>3. token.reserve <= w + s /\ w <= token.reserve + b
      BY <1>9, <2>1 DEF Backed
    <2> QED BY <1>1, <1>4, <1>5, <2>1, <2>2, <2>3
  <1> QED BY <1>7, <1>8, <1>9 DEF Backed

\* One token becomes another, and a count of trades grows.
LEMMA TokenReplaced ==
  ASSUME TokensInv, NEW a \in TokenAgent, NEW new \in AgentToken, NEW b \in Nat, NEW s \in Nat,
         Backed(new, b, s), agentTokens' = [agentTokens EXCEPT ![a] = new],
         bought' = [bought EXCEPT ![a] = b], sold' = [sold EXCEPT ![a] = s]
  PROVE  TokensInv'
  <1>1. /\ AgentTokensTypeOK
        /\ \A x \in TokenAgent : agentTokens[x] # NoToken =>
              Backed(agentTokens[x], bought[x], sold[x])
    BY TokensBacked DEF AllBacked
  <1>2. /\ agentTokens \in [TokenAgent -> AgentToken \cup {NoToken}]
        /\ bought \in [TokenAgent -> Nat] /\ sold \in [TokenAgent -> Nat]
    BY <1>1 DEF AgentTokensTypeOK
  <1>3. AgentTokensTypeOK'
    BY <1>2 DEF AgentTokensTypeOK
  <1>4. ASSUME NEW x \in TokenAgent, agentTokens'[x] # NoToken
        PROVE  Backed(agentTokens'[x], bought'[x], sold'[x])
    <2>1. CASE x = a
      <3>1. agentTokens'[x] = new /\ bought'[x] = b /\ sold'[x] = s
        BY <1>2, <2>1
      <3> QED BY <3>1
    <2>2. CASE x # a
      <3>1. agentTokens'[x] = agentTokens[x] /\ bought'[x] = bought[x] /\ sold'[x] = sold[x]
        BY <1>2, <2>2
      <3> QED BY <1>1, <1>4, <3>1
    <2> QED BY <2>1, <2>2
  <1>5. (TokensInv <=> AgentTokensTypeOK /\ AllBacked)'
    BY TokensBacked, PTL
  <1>6. AllBacked'
    BY <1>4 DEF Backed, AllBacked
  <1> QED BY <1>3, <1>5, <1>6

LEMMA TokensInvStep ==
  ASSUME TokensInv, AgentTokensNext \/ UNCHANGED agentTokenVars
  PROVE  TokensInv'
  <1>1. /\ AgentTokensTypeOK
        /\ \A x \in TokenAgent : agentTokens[x] # NoToken =>
              Backed(agentTokens[x], bought[x], sold[x])
    BY TokensBacked DEF AllBacked
  <1>2. /\ agentTokens \in [TokenAgent -> AgentToken \cup {NoToken}]
        /\ bought \in [TokenAgent -> Nat] /\ sold \in [TokenAgent -> Nat]
    BY <1>1 DEF AgentTokensTypeOK
  <1>3. TradeAmounts \subseteq Nat /\ IsFiniteSet(TokenHolder)
    BY AgentTokensTyped DEF AgentTokensTyped
  <1>4. CASE UNCHANGED agentTokenVars
    <2>1. UNCHANGED <<agentTokens, bought, sold>>
      BY <1>4 DEF agentTokenVars
    <2>2. AgentTokensTypeOK'
      BY <1>1, <2>1 DEF AgentTokensTypeOK
    <2>3. AllBacked'
      BY <1>1, <2>1 DEF Backed, AllBacked
    <2>4. (TokensInv <=> AgentTokensTypeOK /\ AllBacked)'
      BY TokensBacked, PTL
    <2> QED BY <2>2, <2>3, <2>4
  <1>5. ASSUME NEW a \in TokenAgent, NEW curve \in Curves, CreateToken(a, curve)
        PROVE  TokensInv'
    <2>1. PICK none : none = [h \in TokenHolder |-> 0]
      OBVIOUS
    <2>2. PICK new : new = [curve |-> curve, supply |-> 0, reserve |-> 0, holders |-> none]
      OBVIOUS
    <2>3. new \in AgentToken
      BY <2>1, <2>2 DEF AgentToken
    <2>4. SumFunction(none) = 0
      <3>1. DOMAIN none = TokenHolder /\ \A x \in TokenHolder : none[x] = 0
        BY <2>1
      <3> QED BY <1>3, <3>1, SumZero
    <2>5. CurveCost(curve, 0, 0) = 0
      BY CostTyped
    <2>6. Backed(new, bought[a], sold[a])
      <3>1. PICK b, s : b = bought[a] /\ s = sold[a]
        OBVIOUS
      <3>2. b \in Nat /\ s \in Nat
        BY <1>2, <3>1
      <3>3. new.curve = curve /\ new.supply = 0 /\ new.reserve = 0 /\ new.holders = none
        BY <2>2
      <3>4. 0 = SumFunction(none) /\ 0 <= 0 + s /\ 0 <= 0 + b
        BY <2>4, <3>2
      <3>5. Backed(new, b, s)
        BY <2>5, <3>3, <3>4 DEF Backed
      <3> QED BY <3>1, <3>5
    <2>7. agentTokens' = [agentTokens EXCEPT ![a] = new] /\ UNCHANGED <<bought, sold>>
      BY <1>5, <2>1, <2>2 DEF CreateToken
    <2>8. bought' = [bought EXCEPT ![a] = bought[a]] /\ sold' = [sold EXCEPT ![a] = sold[a]]
      BY <1>2, <2>7
    <2>9. PICK b, s : b = bought[a] /\ s = sold[a]
      OBVIOUS
    <2>10. /\ b \in Nat /\ s \in Nat /\ Backed(new, b, s)
           /\ agentTokens' = [agentTokens EXCEPT ![a] = new]
           /\ bought' = [bought EXCEPT ![a] = b] /\ sold' = [sold EXCEPT ![a] = s]
      BY <1>2, <2>6, <2>7, <2>8, <2>9
    <2> QED BY <2>3, <2>10, TokenReplaced
  <1>6. ASSUME NEW a \in TokenAgent, NEW h \in TokenHolder, NEW isa \in TradeAmounts,
               Buy(a, h, isa)
        PROVE  TokensInv'
    <2>1. PICK token, n, cost : /\ token = agentTokens[a]
                                /\ n = TokensFor(token.curve, token.supply, isa)
                                /\ cost = CurveCost(token.curve, token.supply, token.supply + n)
      OBVIOUS
    <2>2. /\ token \in AgentToken /\ Backed(token, bought[a], sold[a])
          /\ bought[a] \in Nat /\ sold[a] \in Nat /\ isa \in Nat
      BY <1>1, <1>2, <1>3, <1>6, <2>1 DEF Buy
    <2>3. n \in Nat
      <3>1. token.curve \in Curves /\ token.supply \in Nat
        BY <2>2 DEF AgentToken
      <3> QED BY <2>1, <2>2, <3>1, TokensTyped
    <2>4. PICK new : new = [token EXCEPT !.supply = @ + n, !.reserve = @ + cost,
                                         !.holders[h] = @ + n]
      OBVIOUS
    <2>5. new \in AgentToken /\ Backed(new, bought[a] + 1, sold[a])
      <3>1. PICK b, s : b = bought[a] /\ s = sold[a]
        OBVIOUS
      <3>2. b \in Nat /\ s \in Nat /\ Backed(token, b, s)
        BY <2>2, <3>1
      <3>3. CostsToBuy(token, n, cost) /\ AfterBuy(token, h, n, cost, new)
        BY <2>1, <2>4 DEF CostsToBuy, AfterBuy
      <3>4. new \in AgentToken /\ Backed(new, b + 1, s)
        BY <2>2, <2>3, <3>2, <3>3, BackedAfterBuy
      <3> QED BY <3>1, <3>4
    <2>6. /\ agentTokens' = [agentTokens EXCEPT ![a] = new]
          /\ bought' = [bought EXCEPT ![a] = bought[a] + 1] /\ sold' = sold
      BY <1>6, <2>1, <2>4 DEF Buy
    <2>7. sold' = [sold EXCEPT ![a] = sold[a]]
      BY <1>2, <2>6
    <2>8. bought[a] + 1 \in Nat
      BY <2>2
    <2> QED BY <2>2, <2>5, <2>6, <2>7, <2>8, TokenReplaced
  <1>7. ASSUME NEW a \in TokenAgent, NEW h \in TokenHolder, NEW n \in TradeAmounts,
               Sell(a, h, n)
        PROVE  TokensInv'
    <2>1. PICK token, proceeds :
            /\ token = agentTokens[a]
            /\ proceeds = CurveCost(token.curve, token.supply - n, token.supply)
      OBVIOUS
    <2>2. /\ token \in AgentToken /\ Backed(token, bought[a], sold[a])
          /\ bought[a] \in Nat /\ sold[a] \in Nat /\ n \in Nat
      BY <1>1, <1>2, <1>3, <1>7, <2>1 DEF Sell
    <2>3. n <= token.holders[h] /\ proceeds <= token.reserve
      <3>1. token.holders[h] \in Nat
        BY <2>2 DEF AgentToken
      <3>2. token.holders[h] >= n
        BY <1>7, <2>1 DEF Sell
      <3>3. proceeds <= token.reserve
        BY <1>7, <2>1 DEF Sell
      <3> QED BY <2>2, <3>1, <3>2, <3>3
    <2>4. PICK new : new = [token EXCEPT !.supply = @ - n, !.reserve = @ - proceeds,
                                         !.holders[h] = @ - n]
      OBVIOUS
    <2>5. new \in AgentToken /\ Backed(new, bought[a], sold[a] + 1)
      <3>1. PICK b, s : b = bought[a] /\ s = sold[a]
        OBVIOUS
      <3>2. b \in Nat /\ s \in Nat /\ Backed(token, b, s)
        BY <2>2, <3>1
      <3>3. PaysToSell(token, n, proceeds) /\ AfterSell(token, h, n, proceeds, new)
        BY <2>1, <2>3, <2>4 DEF PaysToSell, AfterSell
      <3>4. new \in AgentToken /\ Backed(new, b, s + 1)
        BY <2>2, <2>3, <3>2, <3>3, BackedAfterSell
      <3> QED BY <3>1, <3>4
    <2>6. /\ agentTokens' = [agentTokens EXCEPT ![a] = new]
          /\ sold' = [sold EXCEPT ![a] = sold[a] + 1] /\ bought' = bought
      BY <1>7, <2>1, <2>4 DEF Sell
    <2>7. bought' = [bought EXCEPT ![a] = bought[a]]
      BY <1>2, <2>6
    <2>8. sold[a] + 1 \in Nat
      BY <2>2
    <2> QED BY <2>2, <2>5, <2>6, <2>7, <2>8, TokenReplaced
  <1> QED BY <1>4, <1>5, <1>6, <1>7 DEF AgentTokensNext

LEMMA TokensInvInit ==
  ASSUME AgentTokensInit
  PROVE  TokensInv
  BY DEF AgentTokensInit, TokensInv, AgentTokensTypeOK, ReservesTrackCurve

----------------------------------------------------------------------------
(* The records of agents.  A reputation's history is a sequence of events: its counts and *)
(* sums, over the events of a set, grow by the one that is appended.                      *)

HistoryEvent == [type : EventType, delta : Int, height : Nat]

Among(h, D) == {i \in DOMAIN h : h[i] \in D}
Tallied(h, D) == SumFunction([i \in Among(h, D) |-> h[i].delta])

LEMMA AmongAppended ==
  ASSUME NEW h \in Seq(HistoryEvent), NEW e \in HistoryEvent, NEW D
  PROVE  /\ Append(h, e) \in Seq(HistoryEvent) /\ Len(h) \in Nat
         /\ Among(h, D) \subseteq 1 .. Len(h) /\ IsFiniteSet(Among(h, D))
         /\ \A i \in Among(h, D) : Append(h, e)[i] = h[i] /\ h[i] \in HistoryEvent
         /\ Append(h, e)[Len(h) + 1] = e /\ Len(h) + 1 \notin Among(h, D)
         /\ Among(Append(h, e), D)
              = IF e \in D THEN Among(h, D) \cup {Len(h) + 1} ELSE Among(h, D)
  <1>1. PICK n, w : n = Len(h) /\ w = Append(h, e)
    OBVIOUS
  <1>2. /\ w \in Seq(HistoryEvent) /\ n \in Nat /\ DOMAIN h = 1 .. n /\ DOMAIN w = 1 .. n + 1
        /\ (\A i \in 1 .. n : w[i] = h[i] /\ h[i] \in HistoryEvent) /\ w[n + 1] = e
    BY <1>1
  <1>3. 1 .. n + 1 = (1 .. n) \cup {n + 1} /\ n + 1 \notin 1 .. n
    BY <1>2
  <1>4. Among(h, D) \subseteq 1 .. n
    BY <1>2 DEF Among
  <1>5. IsFiniteSet(Among(h, D))
    <2>1. IsFiniteSet(1 .. n)
      <3>1. 1 \in Int /\ n \in Int
        BY <1>2
      <3> QED BY <3>1, FS_Interval
    <2> QED BY <1>4, <2>1, FS_Subset
  <1>6. Among(w, D) = IF e \in D THEN Among(h, D) \cup {n + 1} ELSE Among(h, D)
    <2>1. \A i : i \in Among(w, D) <=> (i \in 1 .. n /\ w[i] \in D) \/ (i = n + 1 /\ e \in D)
      BY <1>2, <1>3 DEF Among
    <2>2. \A i : i \in Among(h, D) <=> (i \in 1 .. n /\ w[i] \in D)
      BY <1>2 DEF Among
    <2> QED BY <2>1, <2>2
  <1>7. (\A i \in Among(h, D) : w[i] = h[i] /\ h[i] \in HistoryEvent) /\ n + 1 \notin Among(h, D)
    BY <1>2, <1>3, <1>4
  <1> QED BY <1>1, <1>2, <1>4, <1>5, <1>6, <1>7

OneTermMore(f, g, S, x) ==
  /\ IsFiniteSet(S) /\ f \in [S -> Int] /\ x \notin S
  /\ g \in [S \cup {x} -> Int] /\ \A y \in S : g[y] = f[y]

LEMMA TermAdded ==
  ASSUME NEW f, NEW g, NEW S, NEW x, OneTermMore(f, g, S, x)
  PROVE  SumFunction(g) = SumFunction(f) + g[x]
  <1>1. IsFiniteSet(S) /\ x \notin S
    BY DEF OneTermMore
  <1>2. PICK F \in [S -> Int], G \in [S \cup {x} -> Int] :
          F = f /\ G = g /\ \A y \in S : G[y] = F[y]
    BY DEF OneTermMore
  <1>3. SumFunction(G) = SumFunction(F) + G[x]
    BY <1>1, <1>2, SumExtend
  <1> QED BY <1>2, <1>3

LEMMA EventAdded ==
  ASSUME NEW h \in Seq(HistoryEvent), NEW e \in HistoryEvent, NEW D
  PROVE  /\ Tallied(h, D) \in Int
         /\ Tallied(Append(h, e), D) = Tallied(h, D) + (IF e \in D THEN e.delta ELSE 0)
         /\ Cardinality(Among(h, D)) \in Nat
         /\ Cardinality(Among(Append(h, e), D))
              = Cardinality(Among(h, D)) + (IF e \in D THEN 1 ELSE 0)
  <1>1. PICK n, w, S, T : n = Len(h) /\ w = Append(h, e) /\ S = Among(h, D) /\ T = Among(w, D)
    OBVIOUS
  <1>2. /\ n \in Nat /\ IsFiniteSet(S) /\ n + 1 \notin S /\ w[n + 1] = e
        /\ T = IF e \in D THEN S \cup {n + 1} ELSE S
    BY <1>1, AmongAppended
  <1>3. \A i \in S : w[i] = h[i] /\ h[i].delta \in Int
    <2>1. \A i \in S : w[i] = h[i] /\ h[i] \in HistoryEvent
      BY <1>1, AmongAppended
    <2> QED BY <2>1 DEF HistoryEvent
  <1>4. e.delta \in Int
    BY DEF HistoryEvent
  <1>5. PICK f, g : f = [i \in S |-> h[i].delta] /\ g = [i \in T |-> w[i].delta]
    OBVIOUS
  <1>6. f \in [S -> Int] /\ \A i \in S : f[i] = h[i].delta
    BY <1>3, <1>5
  <1>7. SumFunction(f) \in Int /\ Cardinality(S) \in Nat
    BY <1>2, <1>6, SumInt, FS_CardinalityType
  <1>8. Tallied(h, D) = SumFunction(f) /\ Tallied(w, D) = SumFunction(g)
    BY <1>1, <1>5 DEF Tallied
  <1>9. CASE e \in D
    <2>1. T = S \cup {n + 1}
      BY <1>2, <1>9
    <2>2. g \in [S \cup {n + 1} -> Int] /\ (\A i \in S : g[i] = f[i]) /\ g[n + 1] = e.delta
      BY <1>2, <1>3, <1>4, <1>5, <1>6, <2>1
    <2>3. SumFunction(g) = SumFunction(f) + g[n + 1]
      <3>1. PICK x : x = n + 1
        OBVIOUS
      <3>2. x \notin S /\ g \in [S \cup {x} -> Int] /\ \A i \in S : g[i] = f[i]
        BY <1>2, <2>2, <3>1
      <3>3. OneTermMore(f, g, S, x)
        BY <1>2, <1>6, <3>2 DEF OneTermMore
      <3>4. SumFunction(g) = SumFunction(f) + g[x]
        BY <3>3, TermAdded
      <3> QED BY <3>1, <3>4
    <2>4. Cardinality(T) = Cardinality(S) + 1
      BY <1>2, <2>1, FS_AddElement
    <2> QED BY <1>1, <1>7, <1>8, <1>9, <2>2, <2>3, <2>4
  <1>10. CASE e \notin D
    <2>1. T = S
      BY <1>2, <1>10
    <2>2. g = f
      BY <1>3, <1>5, <2>1
    <2> QED BY <1>1, <1>7, <1>8, <1>10, <2>1, <2>2
  <1> QED BY <1>9, <1>10

LEMMA NothingTallied ==
  ASSUME NEW D
  PROVE  /\ <<>> \in Seq(HistoryEvent) /\ Tallied(<<>>, D) = 0
         /\ Cardinality(Among(<<>>, D)) = 0
  <1>1. Among(<<>>, D) = {}
    BY DEF Among
  <1>2. PICK f : f = [i \in {} |-> <<>>[i].delta]
    OBVIOUS
  <1>3. DOMAIN f = {} /\ IsFiniteSet({})
    BY <1>2, FS_EmptySet
  <1>4. SumFunction(f) = 0
    BY <1>3, SumZero
  <1>5. Tallied(<<>>, D) = 0
    BY <1>1, <1>2, <1>4 DEF Tallied
  <1> QED BY <1>1, <1>5, FS_EmptySet

----------------------------------------------------------------------------
(* What explains a score *)

Gains == {e \in HistoryEvent : e.delta > 0}
Losses == {e \in HistoryEvent : e.delta < 0}
OfType(t) == {e \in HistoryEvent : e.type = t}

LowStart == IF InitialScore <= MaxScore THEN InitialScore ELSE MaxScore

Explained(record, lost) ==
  /\ Tallied(record.history, Gains) >= 0 /\ Tallied(record.history, Losses) <= 0
  /\ record.score <= Larger(InitialScore, MaxScore)
  /\ record.score <= InitialScore + Tallied(record.history, Gains)
  /\ record.score >= LowStart + Tallied(record.history, Losses) - lost
  /\ record.successful = Cardinality(Among(record.history, OfType("JobCompleted")))
  /\ record.failed = Cardinality(Among(record.history, OfType("JobFailed")))
  /\ record.total = record.successful + record.failed

ReputationsExplained ==
  /\ reputations \in [RecordAgent -> ReputationRecord \cup {NoRecord}]
  /\ decays \in [RecordAgent -> Nat]
  /\ \A a \in RecordAgent : reputations[a] # NoRecord => Explained(reputations[a], decays[a])

LEMMA ClampedIs ==
  ASSUME NEW n \in Int
  PROVE  Clamped(n) = IF n < 0 THEN 0 ELSE IF n <= MaxScore THEN n ELSE MaxScore
  <1>1. MaxScore \in Nat
    BY RecordsTyped DEF RecordsTyped
  <1>2. PICK m : m = IF n <= MaxScore THEN n ELSE MaxScore
    OBVIOUS
  <1>3. m \in Int
    BY <1>1, <1>2
  <1>4. Min({n, MaxScore}) = m
    <2>1. m \in {n, MaxScore} /\ \A y \in {n, MaxScore} : m <= y
      BY <1>1, <1>2
    <2>2. \A x \in {n, MaxScore} : (\A y \in {n, MaxScore} : x <= y) => x = m
      BY <1>1, <1>2
    <2> QED BY <2>1, <2>2 DEF Min
  <1>5. PICK k : k = IF m < 0 THEN 0 ELSE m
    OBVIOUS
  <1>6. Max({0, m}) = k
    <2>1. k \in {0, m} /\ \A y \in {0, m} : k >= y
      BY <1>3, <1>5
    <2>2. \A x \in {0, m} : (\A y \in {0, m} : x >= y) => x = k
      BY <1>3, <1>5
    <2> QED BY <2>1, <2>2 DEF Max
  <1> QED BY <1>1, <1>2, <1>4, <1>5, <1>6 DEF Clamped

\* The score after an event is typed, and explained by one event more.
ScoreWithin(score, g, l, d) ==
  g >= 0 /\ l <= 0 /\ score <= InitialScore + g /\ score >= LowStart + l - d

OneDeltaMore(delta, g, l, g2, l2) ==
  /\ g2 = g + (IF delta > 0 THEN delta ELSE 0)
  /\ l2 = l + (IF delta < 0 THEN delta ELSE 0)

LEMMA ScoreExplained ==
  ASSUME NEW score \in Nat, NEW delta \in Int, NEW g \in Int, NEW l \in Int, NEW d \in Nat,
         ScoreWithin(score, g, l, d), NEW g2, NEW l2, OneDeltaMore(delta, g, l, g2, l2)
  PROVE  /\ Clamped(score + delta) \in Nat /\ g2 >= 0 /\ l2 <= 0
         /\ Clamped(score + delta) <= Larger(InitialScore, MaxScore)
         /\ Clamped(score + delta) <= InitialScore + g2
         /\ Clamped(score + delta) >= LowStart + l2 - d
  <1>1. PICK n, c : n = score + delta /\ c = Clamped(n)
    OBVIOUS
  <1>2. n \in Int /\ InitialScore \in Nat /\ MaxScore \in Nat
    BY <1>1, RecordsTyped DEF RecordsTyped
  <1>3. c = IF n < 0 THEN 0 ELSE IF n <= MaxScore THEN n ELSE MaxScore
    BY <1>1, <1>2, ClampedIs
  <1>4. c \in Nat /\ c <= Larger(InitialScore, MaxScore)
    BY <1>2, <1>3 DEF Larger
  <1>10. /\ g >= 0 /\ l <= 0 /\ score <= InitialScore + g /\ score >= LowStart + l - d
         /\ g2 = g + (IF delta > 0 THEN delta ELSE 0)
         /\ l2 = l + (IF delta < 0 THEN delta ELSE 0)
    BY DEF ScoreWithin, OneDeltaMore
  <1>5. g2 \in Int /\ l2 \in Int /\ g2 >= 0 /\ l2 <= 0 /\ g2 >= g /\ l2 <= l
    BY <1>10
  <1>6. c <= InitialScore + g2
    BY <1>1, <1>2, <1>3, <1>5, <1>10
  <1>7. PICK low : low = LowStart
    OBVIOUS
  <1>8. low \in Nat /\ low <= MaxScore
    BY <1>2, <1>7 DEF LowStart
  <1>9. c >= low + l2 - d
    BY <1>1, <1>2, <1>3, <1>5, <1>7, <1>8, <1>10
  <1> QED BY <1>1, <1>4, <1>5, <1>6, <1>7, <1>9

\* A record after an event.
WithEvent(record, e, new) ==
  new = [record EXCEPT !.score = Clamped(@ + e.delta), !.lastUpdated = e.height,
           !.history = Append(@, e),
           !.total = IF e.type \in {"JobCompleted", "JobFailed"} THEN @ + 1 ELSE @,
           !.successful = IF e.type = "JobCompleted" THEN @ + 1 ELSE @,
           !.failed = IF e.type = "JobFailed" THEN @ + 1 ELSE @]

LEMMA ExplainedAfterEvent ==
  ASSUME NEW record \in ReputationRecord, NEW d \in Nat, Explained(record, d),
         NEW e \in HistoryEvent, NEW new, WithEvent(record, e, new)
  PROVE  new \in ReputationRecord /\ Explained(new, d)
  <1>1. PICK h, w, score, c : /\ h = record.history /\ w = Append(h, e) /\ score = record.score
                              /\ c = Clamped(score + e.delta)
    OBVIOUS
  <1>2. /\ h \in Seq(HistoryEvent) /\ score \in Nat /\ record.total \in Nat
        /\ record.successful \in Nat /\ record.failed \in Nat
        /\ e.delta \in Int /\ e.height \in Nat /\ e.type \in EventType
    BY <1>1 DEF ReputationRecord, HistoryEvent
  <1>3. PICK t, s, f :
          /\ t = IF e.type \in {"JobCompleted", "JobFailed"} THEN record.total + 1 ELSE record.total
          /\ s = IF e.type = "JobCompleted" THEN record.successful + 1 ELSE record.successful
          /\ f = IF e.type = "JobFailed" THEN record.failed + 1 ELSE record.failed
    OBVIOUS
  <1>4. t \in Nat /\ s \in Nat /\ f \in Nat
    BY <1>2, <1>3
  <1>5. w \in Seq(HistoryEvent)
    BY <1>1, <1>2, AmongAppended
  <1>6. PICK g, l, g2, l2 : /\ g = Tallied(h, Gains) /\ l = Tallied(h, Losses)
                            /\ g2 = Tallied(w, Gains) /\ l2 = Tallied(w, Losses)
    OBVIOUS
  <1>7. /\ g \in Int /\ l \in Int
        /\ g2 = g + (IF e.delta > 0 THEN e.delta ELSE 0)
        /\ l2 = l + (IF e.delta < 0 THEN e.delta ELSE 0)
    <2>1. (e \in Gains <=> e.delta > 0) /\ (e \in Losses <=> e.delta < 0)
      BY DEF Gains, Losses
    <2>2. g \in Int /\ g2 = g + (IF e \in Gains THEN e.delta ELSE 0)
      BY <1>1, <1>2, <1>6, EventAdded
    <2>3. l \in Int /\ l2 = l + (IF e \in Losses THEN e.delta ELSE 0)
      BY <1>1, <1>2, <1>6, EventAdded
    <2> QED BY <2>1, <2>2, <2>3
  <1>8. g >= 0 /\ l <= 0 /\ score <= InitialScore + g /\ score >= LowStart + l - d
    BY <1>1, <1>6 DEF Explained
  <1>9. /\ c \in Nat /\ g2 >= 0 /\ l2 <= 0 /\ c <= Larger(InitialScore, MaxScore)
        /\ c <= InitialScore + g2 /\ c >= LowStart + l2 - d
    <2>1. PICK delta : delta = e.delta
      OBVIOUS
    <2>2. delta \in Int /\ ScoreWithin(score, g, l, d) /\ OneDeltaMore(delta, g, l, g2, l2)
      BY <1>2, <1>7, <1>8, <2>1 DEF ScoreWithin, OneDeltaMore
    <2>3. g \in Int /\ l \in Int
      BY <1>7
    <2>4. /\ Clamped(score + delta) \in Nat /\ g2 >= 0 /\ l2 <= 0
          /\ Clamped(score + delta) <= Larger(InitialScore, MaxScore)
          /\ Clamped(score + delta) <= InitialScore + g2
          /\ Clamped(score + delta) >= LowStart + l2 - d
      BY <1>2, <2>2, <2>3, ScoreExplained
    <2> QED BY <1>1, <2>1, <2>4
  <1>10. Seq(HistoryEvent) = Seq([type : EventType, delta : Int, height : Nat])
    BY DEF HistoryEvent
  <1>11. /\ new \in ReputationRecord /\ new.score = c /\ new.history = w /\ new.total = t
         /\ new.successful = s /\ new.failed = f
    BY <1>1, <1>2, <1>3, <1>4, <1>5, <1>9, <1>10 DEF WithEvent, ReputationRecord
  <1>12. /\ s = Cardinality(Among(w, OfType("JobCompleted")))
         /\ f = Cardinality(Among(w, OfType("JobFailed")))
    <2>1. /\ e \in OfType("JobCompleted") <=> e.type = "JobCompleted"
          /\ e \in OfType("JobFailed") <=> e.type = "JobFailed"
      BY DEF OfType
    <2>2. Cardinality(Among(w, OfType("JobCompleted")))
            = Cardinality(Among(h, OfType("JobCompleted")))
                + (IF e \in OfType("JobCompleted") THEN 1 ELSE 0)
      BY <1>1, <1>2, EventAdded
    <2>3. Cardinality(Among(w, OfType("JobFailed")))
            = Cardinality(Among(h, OfType("JobFailed")))
                + (IF e \in OfType("JobFailed") THEN 1 ELSE 0)
      BY <1>1, <1>2, EventAdded
    <2>4. /\ record.successful = Cardinality(Among(h, OfType("JobCompleted")))
          /\ record.failed = Cardinality(Among(h, OfType("JobFailed")))
      BY <1>1 DEF Explained
    <2>5. s = Cardinality(Among(w, OfType("JobCompleted")))
      BY <1>2, <1>3, <2>1, <2>2, <2>4
    <2>6. f = Cardinality(Among(w, OfType("JobFailed")))
      BY <1>2, <1>3, <2>1, <2>3, <2>4
    <2> QED BY <2>5, <2>6
  <1>13. t = s + f
    <2>1. record.total = record.successful + record.failed
      BY DEF Explained
    <2> QED BY <1>2, <1>3, <2>1
  <1> QED BY <1>6, <1>9, <1>11, <1>12, <1>13 DEF Explained

LEMMA RecordReplaced ==
  ASSUME ReputationsExplained, NEW a \in RecordAgent, NEW new \in ReputationRecord,
         NEW d \in Nat, Explained(new, d), reputations' = [reputations EXCEPT ![a] = new],
         decays' = [decays EXCEPT ![a] = d]
  PROVE  ReputationsExplained'
  <1>1. /\ reputations \in [RecordAgent -> ReputationRecord \cup {NoRecord}]
        /\ decays \in [RecordAgent -> Nat]
        /\ \A x \in RecordAgent : reputations[x] # NoRecord =>
              Explained(reputations[x], decays[x])
    BY DEF ReputationsExplained
  <1>2. /\ reputations' \in [RecordAgent -> ReputationRecord \cup {NoRecord}]
        /\ decays' \in [RecordAgent -> Nat]
    BY <1>1
  <1>3. ASSUME NEW x \in RecordAgent, reputations'[x] # NoRecord
        PROVE  Explained(reputations'[x], decays'[x])
    <2>1. CASE x = a
      <3>1. reputations'[x] = new /\ decays'[x] = d
        BY <1>1, <2>1
      <3> QED BY <3>1
    <2>2. CASE x # a
      <3>1. reputations'[x] = reputations[x] /\ decays'[x] = decays[x]
        BY <1>1, <2>2
      <3> QED BY <1>1, <1>3, <3>1
    <2> QED BY <2>1, <2>2
  <1> QED BY <1>2, <1>3 DEF ReputationsExplained, Explained

LEMMA AddEventExplained ==
  ASSUME ReputationsExplained, now \in Nat, NEW a \in RecordAgent, NEW type \in EventType,
         NEW delta \in Int, AddEvent(a, type, delta)
  PROVE  ReputationsExplained'
  <1>1. /\ reputations \in [RecordAgent -> ReputationRecord \cup {NoRecord}]
        /\ decays \in [RecordAgent -> Nat] /\ Explained(reputations[a], decays[a])
    BY DEF ReputationsExplained, AddEvent
  <1>2. PICK e, record, d : /\ e = [type |-> type, delta |-> delta, height |-> now]
                            /\ record = reputations[a] /\ d = decays[a]
    OBVIOUS
  <1>3. /\ e \in HistoryEvent /\ record \in ReputationRecord /\ d \in Nat
        /\ Explained(record, d)
    BY <1>1, <1>2 DEF HistoryEvent, AddEvent
  <1>4. PICK new : WithEvent(record, e, new)
    BY DEF WithEvent
  <1>5. new \in ReputationRecord /\ Explained(new, d)
    BY <1>3, <1>4, ExplainedAfterEvent
  <1>6. e.type = type /\ e.delta = delta /\ e.height = now
    BY <1>2
  <1>7. reputations' = [reputations EXCEPT ![a] = new] /\ UNCHANGED decays
    <2>1. PICK w : w =
            [reputations[a] EXCEPT !.score = Clamped(@ + delta), !.lastUpdated = now,
               !.history = Append(@, [type |-> type, delta |-> delta, height |-> now]),
               !.total = IF type \in {"JobCompleted", "JobFailed"} THEN @ + 1 ELSE @,
               !.successful = IF type = "JobCompleted" THEN @ + 1 ELSE @,
               !.failed = IF type = "JobFailed" THEN @ + 1 ELSE @]
      OBVIOUS
    <2>2. reputations' = [reputations EXCEPT ![a] = w] /\ UNCHANGED decays
      BY <2>1 DEF AddEvent
    <2>3. new = w
      BY <1>2, <1>4, <1>6, <2>1 DEF WithEvent
    <2> QED BY <2>2, <2>3
  <1>8. decays' = [decays EXCEPT ![a] = d]
    BY <1>1, <1>2, <1>7
  <1> QED BY <1>3, <1>5, <1>7, <1>8, RecordReplaced

LEMMA RegistrationExplained ==
  ASSUME ReputationsExplained, NEW a \in RecordAgent, RegisterReputation(a)
  PROVE  ReputationsExplained'
  <1>1. /\ reputations \in [RecordAgent -> ReputationRecord \cup {NoRecord}]
        /\ decays \in [RecordAgent -> Nat] /\ InitialScore \in Nat /\ MaxScore \in Nat
    BY RecordsTyped DEF ReputationsExplained, RecordsTyped
  <1>2. PICK d, new : /\ d = decays[a]
                      /\ new = [score |-> InitialScore, total |-> 0, successful |-> 0,
                                failed |-> 0, lastUpdated |-> 0, history |-> <<>>]
    OBVIOUS
  <1>3. d \in Nat
    BY <1>1, <1>2
  <1>4. <<>> \in Seq([type : EventType, delta : Int, height : Nat])
    OBVIOUS
  <1>5. /\ new \in ReputationRecord /\ new.score = InitialScore /\ new.total = 0
        /\ new.successful = 0 /\ new.failed = 0 /\ new.history = <<>>
    BY <1>1, <1>2, <1>4 DEF ReputationRecord
  <1>6. \A D : Tallied(<<>>, D) = 0 /\ Cardinality(Among(<<>>, D)) = 0
    BY NothingTallied
  <1>7. /\ InitialScore <= Larger(InitialScore, MaxScore)
        /\ InitialScore <= InitialScore + 0 /\ InitialScore >= LowStart + 0 - d
    BY <1>1, <1>3 DEF Larger, LowStart
  <1>8. Explained(new, d)
    <2>1. Tallied(<<>>, Gains) = 0 /\ Tallied(<<>>, Losses) = 0
      BY <1>6
    <2>2. /\ Cardinality(Among(<<>>, OfType("JobCompleted"))) = 0
          /\ Cardinality(Among(<<>>, OfType("JobFailed"))) = 0
      BY <1>6
    <2>3. 0 >= 0 /\ 0 <= 0 /\ 0 = 0 + 0
      OBVIOUS
    <2> QED BY <1>5, <1>7, <2>1, <2>2, <2>3 DEF Explained
  <1>9. /\ reputations' = [reputations EXCEPT ![a] = new]
        /\ decays' = [decays EXCEPT ![a] = d]
    BY <1>1, <1>2 DEF RegisterReputation
  <1> QED BY <1>3, <1>5, <1>8, <1>9, RecordReplaced

LEMMA ExplainedAfterDecay ==
  ASSUME NEW record \in ReputationRecord, NEW d \in Nat, Explained(record, d),
         NEW new, new = [record EXCEPT !.score = Monus(@, DecayRate)],
         NEW e, e = d + Min({DecayRate, record.score})
  PROVE  new \in ReputationRecord /\ e \in Nat /\ Explained(new, e)
  <1>1. PICK score, rest, m : /\ score = record.score /\ rest = Monus(score, DecayRate)
                              /\ m = Min({DecayRate, score})
    OBVIOUS
  <1>2. score \in Nat /\ DecayRate \in Nat
    BY <1>1, RecordsTyped DEF ReputationRecord, RecordsTyped
  <1>3. m = IF DecayRate <= score THEN DecayRate ELSE score
    BY <1>1, <1>2, MinOfTwo
  <1>4. rest = IF score > DecayRate THEN score - DecayRate ELSE 0
    BY <1>1 DEF Monus
  <1>5. rest \in Nat /\ m \in Nat /\ rest = score - m /\ e = d + m
    BY <1>1, <1>2, <1>3, <1>4
  <1>6. /\ new \in ReputationRecord /\ new.score = rest /\ new.history = record.history
        /\ new.total = record.total /\ new.successful = record.successful
        /\ new.failed = record.failed
    BY <1>1, <1>5 DEF ReputationRecord
  <1>7. PICK g, l, low, top : /\ g = Tallied(record.history, Gains)
                              /\ l = Tallied(record.history, Losses)
                              /\ low = LowStart /\ top = Larger(InitialScore, MaxScore)
    OBVIOUS
  <1>8. /\ g \in Int /\ l \in Int
    <2>1. record.history \in Seq(HistoryEvent)
      BY DEF ReputationRecord, HistoryEvent
    <2>2. PICK any \in HistoryEvent : TRUE
      <3>1. [type |-> "JobFailed", delta |-> 0, height |-> 0] \in HistoryEvent
        BY DEF HistoryEvent, EventType
      <3> QED BY <3>1
    <2> QED BY <1>7, <2>1, <2>2, EventAdded
  <1>9. low \in Nat /\ top \in Nat /\ InitialScore \in Nat
    BY <1>7, RecordsTyped DEF RecordsTyped, LowStart, Larger
  <1>10. score <= top /\ score <= InitialScore + g /\ score >= low + l - d
    BY <1>1, <1>7 DEF Explained
  <1>11. rest <= top /\ rest <= InitialScore + g /\ rest >= low + l - e
    BY <1>2, <1>5, <1>8, <1>9, <1>10
  <1>12. e \in Nat
    BY <1>5
  <1> QED BY <1>6, <1>7, <1>11, <1>12 DEF Explained

LEMMA DecayExplained ==
  ASSUME ReputationsExplained, DecayInactive
  PROVE  ReputationsExplained'
  <1>1. /\ reputations \in [RecordAgent -> ReputationRecord \cup {NoRecord}]
        /\ decays \in [RecordAgent -> Nat]
        /\ \A x \in RecordAgent : reputations[x] # NoRecord =>
              Explained(reputations[x], decays[x])
    BY DEF ReputationsExplained
  <1>2. PICK inactive :
          /\ inactive \subseteq RecordAgent
          /\ \A a \in inactive : reputations[a] # NoRecord
          /\ reputations' = [a \in RecordAgent |->
                IF a \in inactive THEN [reputations[a] EXCEPT !.score = Monus(@, DecayRate)]
                ELSE reputations[a]]
          /\ decays' = [a \in RecordAgent |->
                IF a \in inactive THEN decays[a] + Min({DecayRate, reputations[a].score})
                ELSE decays[a]]
    BY DEF DecayInactive
  <1>3. ASSUME NEW a \in RecordAgent
        PROVE  /\ reputations'[a] \in ReputationRecord \cup {NoRecord} /\ decays'[a] \in Nat
               /\ reputations'[a] # NoRecord => Explained(reputations'[a], decays'[a])
    <2>1. CASE a \in inactive
      <3>1. PICK record, d, new, e :
              /\ record = reputations[a] /\ d = decays[a]
              /\ new = [record EXCEPT !.score = Monus(@, DecayRate)]
              /\ e = d + Min({DecayRate, record.score})
        OBVIOUS
      <3>2. record \in ReputationRecord /\ d \in Nat /\ Explained(record, d)
        BY <1>1, <1>2, <2>1, <3>1
      <3>3. new \in ReputationRecord /\ e \in Nat /\ Explained(new, e)
        BY <3>1, <3>2, ExplainedAfterDecay
      <3>4. reputations'[a] = new /\ decays'[a] = e
        BY <1>2, <2>1, <3>1
      <3> QED BY <3>3, <3>4
    <2>2. CASE a \notin inactive
      <3>1. reputations'[a] = reputations[a] /\ decays'[a] = decays[a]
        BY <1>2, <2>2
      <3> QED BY <1>1, <3>1
    <2> QED BY <2>1, <2>2
  <1>4. /\ reputations' \in [RecordAgent -> ReputationRecord \cup {NoRecord}]
        /\ decays' \in [RecordAgent -> Nat]
    BY <1>2, <1>3
  <1> QED BY <1>3, <1>4 DEF ReputationsExplained, Explained

LEMMA ReputationsStep ==
  ASSUME ReputationsExplained, now \in Nat, ReputationNext \/ UNCHANGED reputationVars
  PROVE  ReputationsExplained'
  <1>1. CASE UNCHANGED reputationVars
    BY <1>1 DEF reputationVars, ReputationsExplained, Explained
  <1>2. /\ {SuccessDelta, FailureDelta, DisputeWinDelta, DisputeLossDelta} \subseteq Int
        /\ \A points \in Points : Signed(points) \in Int /\ Negated(Signed(points)) \in Int
    BY RecordsTyped DEF RecordsTyped, Signed, Negated
  <1>3. EventType = {"JobCompleted", "JobFailed", "DisputeWon", "DisputeLost", "SlashPenalty",
                     "BonusReward"}
    BY DEF EventType
  <1>4. ASSUME NEW a \in RecordAgent, RecordSuccess(a) \/ RecordFailure(a)
        PROVE  ReputationsExplained'
    BY <1>2, <1>3, <1>4, AddEventExplained DEF RecordSuccess, RecordFailure
  <1>5. ASSUME NEW a \in RecordAgent, NEW won \in BOOLEAN, RecordDispute(a, won)
        PROVE  ReputationsExplained'
    BY <1>2, <1>3, <1>5, AddEventExplained DEF RecordDispute
  <1>6. ASSUME NEW a \in RecordAgent, NEW points \in Points,
               ApplySlash(a, points) \/ ApplyBonus(a, points)
        PROVE  ReputationsExplained'
    BY <1>2, <1>3, <1>6, AddEventExplained DEF ApplySlash, ApplyBonus
  <1> QED BY <1>1, <1>4, <1>5, <1>6, RegistrationExplained, DecayExplained DEF ReputationNext

----------------------------------------------------------------------------
(* The index of capabilities *)

PlacesIn(q, a) == {i \in DOMAIN q : q[i] = a}

Repeated(a, k) == [i \in 1 .. k |-> a]

\* A sequence that grows by k times the same entry.
LEMMA RepeatedAppended ==
  ASSUME NEW A, NEW q \in Seq(A), NEW a \in A, NEW k \in Nat
  PROVE  /\ q \o Repeated(a, k) \in Seq(A)
         /\ \A b : b # a => PlacesIn(q \o Repeated(a, k), b) = PlacesIn(q, b)
         /\ PlacesIn(q, a) = {} => Cardinality(PlacesIn(q \o Repeated(a, k), a)) = k
  <1>1. PICK n, r, w : n = Len(q) /\ r = Repeated(a, k) /\ w = q \o r
    OBVIOUS
  <1>2. r \in Seq(A) /\ Len(r) = k /\ \A i \in 1 .. k : r[i] = a
    BY <1>1 DEF Repeated
  <1>3. n \in Nat /\ DOMAIN q = 1 .. n
    BY <1>1
  <1>4. w \in Seq(A) /\ Len(w) = n + k
    BY <1>1, <1>2, ConcatProperties
  <1>5. DOMAIN w = 1 .. n + k
    BY <1>3, <1>4
  <1>6. \A i \in 1 .. n + k : w[i] = IF i <= n THEN q[i] ELSE a
    <2>1. ASSUME NEW i \in 1 .. n + k
          PROVE  w[i] = IF i <= n THEN q[i] ELSE a
      <3>1. w[i] = IF i <= n THEN q[i] ELSE r[i - n]
        BY <1>1, <1>2, ConcatProperties
      <3>2. i > n => i - n \in 1 .. k
        BY <1>3
      <3> QED BY <1>2, <1>3, <3>1, <3>2
    <2> QED BY <2>1
  <1>7. ASSUME NEW b, b # a
        PROVE  PlacesIn(w, b) = PlacesIn(q, b)
    <2>1. \A i : i \in PlacesIn(w, b) <=> i \in 1 .. n + k /\ i <= n /\ q[i] = b
      BY <1>3, <1>5, <1>6, <1>7 DEF PlacesIn
    <2>2. \A i : i \in PlacesIn(q, b) <=> i \in 1 .. n /\ q[i] = b
      BY <1>3 DEF PlacesIn
    <2>3. \A i : i \in 1 .. n <=> i \in 1 .. n + k /\ i <= n
      BY <1>3
    <2> QED BY <2>1, <2>2, <2>3
  <1>8. ASSUME PlacesIn(q, a) = {}
        PROVE  Cardinality(PlacesIn(w, a)) = k
    <2>1. \A i \in 1 .. n : q[i] # a
      BY <1>3, <1>8 DEF PlacesIn
    <2>2. PlacesIn(w, a) = n + 1 .. n + k
      <3>1. \A i : i \in PlacesIn(w, a) <=> i \in 1 .. n + k /\ ~(i <= n)
        BY <1>3, <1>5, <1>6, <2>1 DEF PlacesIn
      <3>2. \A i : i \in n + 1 .. n + k <=> i \in 1 .. n + k /\ ~(i <= n)
        BY <1>3
      <3> QED BY <3>1, <3>2
    <2>3. Cardinality(n + 1 .. n + k) = k
      <3>1. PICK x, y : x = n + 1 /\ y = n + k
        OBVIOUS
      <3>2. x \in Int /\ y \in Int
        BY <1>3, <3>1
      <3>3. Cardinality(x .. y) = IF x > y THEN 0 ELSE y - x + 1
        BY <3>2, FS_Interval
      <3> QED BY <1>3, <3>1, <3>3
    <2> QED BY <2>2, <2>3
  <1> QED BY <1>1, <1>4, <1>7, <1>8

Named(record, c) == Cardinality(PlacesIn(record.capabilities, c))

RegistryIndexed ==
  /\ registered \in [RecordAgent -> AgentRegistration \cup {NoRecord}]
  /\ byCapability \in [Capability -> Seq(RecordAgent)]
  /\ \A a \in RecordAgent, c \in Capability :
       Cardinality(PlacesIn(byCapability[c], a)) =
         IF registered[a] = NoRecord THEN 0 ELSE Named(registered[a], c)

\* A sequence has finitely many places.
LEMMA PlacesFinite ==
  ASSUME NEW A, NEW q \in Seq(A), NEW a
  PROVE  IsFiniteSet(PlacesIn(q, a)) /\ Cardinality(PlacesIn(q, a)) \in Nat
  <1>1. DOMAIN q = 1 .. Len(q) /\ Len(q) \in Nat
    OBVIOUS
  <1>2. IsFiniteSet(DOMAIN q)
    <2>1. PICK n : n = Len(q)
      OBVIOUS
    <2>2. 1 \in Int /\ n \in Int
      BY <1>1, <2>1
    <2>3. IsFiniteSet(1 .. n)
      BY <2>2, FS_Interval
    <2> QED BY <1>1, <2>1, <2>3
  <1>3. PlacesIn(q, a) \subseteq DOMAIN q
    BY DEF PlacesIn
  <1> QED BY <1>2, <1>3, FS_Subset, FS_CardinalityType

\* A registration changes, and names the same capabilities.
LEMMA RegistrationChanged ==
  ASSUME RegistryIndexed, NEW a \in RecordAgent, NEW new \in AgentRegistration,
         registered[a] # NoRecord, new.capabilities = registered[a].capabilities,
         registered' = [registered EXCEPT ![a] = new], UNCHANGED byCapability
  PROVE  RegistryIndexed'
  <1>1. registered' \in [RecordAgent -> AgentRegistration \cup {NoRecord}]
    BY DEF RegistryIndexed
  <1>2. new # NoRecord
    BY RecordsTyped DEF RecordsTyped
  <1>3. \A x \in RecordAgent : /\ registered'[x] = NoRecord <=> registered[x] = NoRecord
                               /\ registered'[x].capabilities = registered[x].capabilities
    BY <1>2 DEF RegistryIndexed
  <1> QED BY <1>1, <1>3 DEF RegistryIndexed, Named, PlacesIn

LEMMA AgentRegistered ==
  ASSUME RegistryIndexed, NEW a \in RecordAgent, NEW owner \in RecordCaller,
         NEW list \in CapabilityLists, RegisterAgent(a, owner, list)
  PROVE  RegistryIndexed'
  <1>1. /\ registered \in [RecordAgent -> AgentRegistration \cup {NoRecord}]
        /\ byCapability \in [Capability -> Seq(RecordAgent)]
        /\ \A x \in RecordAgent, c \in Capability :
             Cardinality(PlacesIn(byCapability[c], x)) =
               IF registered[x] = NoRecord THEN 0 ELSE Named(registered[x], c)
    BY DEF RegistryIndexed
  <1>2. list \in Seq(Capability)
    BY RecordsTyped DEF RecordsTyped
  <1>3. PICK new : new = [owner |-> owner, capabilities |-> list, score |-> 0, totalJobs |-> 0,
                          successfulJobs |-> 0, status |-> "Active"]
    OBVIOUS
  <1>4. new \in AgentRegistration /\ new.capabilities = list /\ new # NoRecord
    <2>1. new \in AgentRegistration /\ new.capabilities = list
      BY <1>3 DEF AgentRegistration, AgentStatus
    <2> QED BY <2>1, RecordsTyped DEF RecordsTyped
  <1>5. /\ registered[a] = NoRecord /\ registered' = [registered EXCEPT ![a] = new]
        /\ byCapability' = [c \in Capability |->
              byCapability[c] \o Repeated(a, Cardinality(PlacesIn(list, c)))]
    BY <1>3 DEF RegisterAgent, Repeated, PlacesIn
  <1>6. registered' \in [RecordAgent -> AgentRegistration \cup {NoRecord}]
    BY <1>1, <1>4, <1>5
  <1>7. ASSUME NEW c \in Capability
        PROVE  /\ byCapability'[c] \in Seq(RecordAgent)
               /\ \A x \in RecordAgent : x # a =>
                    PlacesIn(byCapability'[c], x) = PlacesIn(byCapability[c], x)
               /\ Cardinality(PlacesIn(byCapability'[c], a)) = Named(new, c)
    <2>1. PICK q, k, w : /\ q = byCapability[c] /\ k = Cardinality(PlacesIn(list, c))
                         /\ w = q \o Repeated(a, k)
      OBVIOUS
    <2>2. byCapability'[c] = w
      BY <1>5, <2>1
    <2>3. q \in Seq(RecordAgent) /\ k \in Nat
      BY <1>1, <1>2, <2>1, PlacesFinite
    <2>4. PlacesIn(q, a) = {}
      <3>1. Cardinality(PlacesIn(q, a)) = 0
        BY <1>1, <1>5, <2>1
      <3>2. IsFiniteSet(PlacesIn(q, a))
        BY <2>3, PlacesFinite
      <3> QED BY <3>1, <3>2, FS_EmptySet
    <2>5. /\ w \in Seq(RecordAgent) /\ \A x : x # a => PlacesIn(w, x) = PlacesIn(q, x)
          /\ Cardinality(PlacesIn(w, a)) = k
      <3>1. /\ q \o Repeated(a, k) \in Seq(RecordAgent)
            /\ \A b : b # a => PlacesIn(q \o Repeated(a, k), b) = PlacesIn(q, b)
            /\ PlacesIn(q, a) = {} => Cardinality(PlacesIn(q \o Repeated(a, k), a)) = k
        BY <2>3, RepeatedAppended
      <3> QED BY <2>1, <2>4, <3>1
    <2>6. k = Named(new, c)
      BY <1>4, <2>1 DEF Named
    <2>7. /\ w \in Seq(RecordAgent)
          /\ \A x \in RecordAgent : x # a => PlacesIn(w, x) = PlacesIn(q, x)
          /\ Cardinality(PlacesIn(w, a)) = Named(new, c)
      BY <2>5, <2>6
    <2> QED BY <2>1, <2>2, <2>7
  <1>8. byCapability' \in [Capability -> Seq(RecordAgent)]
    BY <1>5, <1>7
  <1>9. ASSUME NEW x \in RecordAgent, NEW c \in Capability
        PROVE  Cardinality(PlacesIn(byCapability'[c], x)) =
                 IF registered'[x] = NoRecord THEN 0 ELSE Named(registered'[x], c)
    <2>1. CASE x = a
      <3>1. registered'[x] = new
        BY <1>1, <1>5, <2>1
      <3> QED BY <1>4, <1>7, <2>1, <3>1
    <2>2. CASE x # a
      <3>1. registered'[x] = registered[x]
        BY <1>1, <1>5, <2>2
      <3>2. PlacesIn(byCapability'[c], x) = PlacesIn(byCapability[c], x)
        BY <1>7, <2>2
      <3> QED BY <1>1, <3>1, <3>2
    <2> QED BY <2>1, <2>2
  <1> QED BY <1>6, <1>8, <1>9 DEF RegistryIndexed, Named, PlacesIn

LEMMA RegistryStep ==
  ASSUME RegistryIndexed, RegistryNext \/ UNCHANGED registryVars
  PROVE  RegistryIndexed'
  <1>1. CASE UNCHANGED registryVars
    BY <1>1 DEF registryVars, RegistryIndexed, Named, PlacesIn
  <1>2. registered \in [RecordAgent -> AgentRegistration \cup {NoRecord}]
    BY DEF RegistryIndexed
  <1>3. ASSUME NEW a \in RecordAgent, registered[a] # NoRecord
        PROVE  /\ registered[a] \in AgentRegistration
               /\ registered[a].score \in Nat /\ registered[a].totalJobs \in Nat
               /\ registered[a].successfulJobs \in Nat
    BY <1>2, <1>3 DEF AgentRegistration
  <1>4. ASSUME NEW a \in RecordAgent, NEW caller \in RecordCaller, NEW status \in AgentStatus,
               SetAgentStatus(a, status, caller)
        PROVE  RegistryIndexed'
    <2>1. PICK old, new : old = registered[a] /\ new = [old EXCEPT !.status = status]
      OBVIOUS
    <2>2. old \in AgentRegistration /\ registered[a] # NoRecord
      BY <1>3, <1>4, <2>1 DEF SetAgentStatus
    <2>3. new \in AgentRegistration /\ new.capabilities = old.capabilities
      BY <2>1, <2>2 DEF AgentRegistration
    <2>4. registered' = [registered EXCEPT ![a] = new] /\ UNCHANGED byCapability
      BY <1>2, <1>4, <2>1 DEF SetAgentStatus
    <2> QED BY <2>1, <2>2, <2>3, <2>4, RegistrationChanged
  <1>5. ASSUME NEW a \in RecordAgent, NEW caller \in RecordCaller, NEW score \in Scores,
               UpdateReputation(a, score, caller)
        PROVE  RegistryIndexed'
    <2>1. PICK old, s, new : /\ old = registered[a] /\ s = Min({score, MaxScore})
                             /\ new = [old EXCEPT !.score = s]
      OBVIOUS
    <2>2. old \in AgentRegistration /\ registered[a] # NoRecord
      BY <1>3, <1>5, <2>1 DEF UpdateReputation
    <2>3. s \in Nat
      <3>1. score \in Nat /\ MaxScore \in Nat
        BY RecordsTyped DEF RecordsTyped
      <3>2. s = IF score <= MaxScore THEN score ELSE MaxScore
        BY <2>1, <3>1, MinOfTwo
      <3> QED BY <3>1, <3>2
    <2>4. new \in AgentRegistration /\ new.capabilities = old.capabilities
      BY <2>1, <2>2, <2>3 DEF AgentRegistration
    <2>5. registered' = [registered EXCEPT ![a] = new] /\ UNCHANGED byCapability
      BY <1>2, <1>5, <2>1 DEF UpdateReputation
    <2> QED BY <2>1, <2>2, <2>4, <2>5, RegistrationChanged
  <1>6. ASSUME NEW a \in RecordAgent, NEW success \in BOOLEAN, RecordJob(a, success)
        PROVE  RegistryIndexed'
    <2>1. PICK old, s, new :
            /\ old = registered[a]
            /\ s = IF success THEN old.successfulJobs + 1 ELSE old.successfulJobs
            /\ new = [old EXCEPT !.totalJobs = @ + 1, !.successfulJobs = s]
      OBVIOUS
    <2>2. /\ old \in AgentRegistration /\ registered[a] # NoRecord
          /\ old.totalJobs \in Nat /\ old.successfulJobs \in Nat
      BY <1>3, <1>6, <2>1 DEF RecordJob
    <2>3. new \in AgentRegistration /\ new.capabilities = old.capabilities
      <3>1. s \in Nat /\ old.totalJobs + 1 \in Nat
        BY <2>1, <2>2
      <3> QED BY <2>1, <2>2, <3>1 DEF AgentRegistration
    <2>4. registered' = [registered EXCEPT ![a] = new] /\ UNCHANGED byCapability
      BY <1>2, <1>6, <2>1 DEF RecordJob
    <2> QED BY <2>1, <2>2, <2>3, <2>4, RegistrationChanged
  <1> QED BY <1>1, <1>4, <1>5, <1>6, AgentRegistered DEF RegistryNext

----------------------------------------------------------------------------
(* Both tables *)

RecordsInv == ReputationsExplained /\ RegistryIndexed

LEMMA TallyIs ==
  ASSUME NEW h \in Seq(HistoryEvent)
  PROVE  /\ {i \in DOMAIN h : h[i].delta > 0} = Among(h, Gains)
         /\ {i \in DOMAIN h : h[i].delta < 0} = Among(h, Losses)
         /\ \A t : {i \in DOMAIN h : h[i].type \in {t}} = Among(h, OfType(t))
  <1>1. \A i \in DOMAIN h : h[i] \in HistoryEvent
    OBVIOUS
  <1> QED BY <1>1 DEF Among, Gains, Losses, OfType

LEMMA RecordsInvImplies ==
  ASSUME RecordsInv
  PROVE  RecordsExplained
  <1>1. ASSUME NEW a \in RecordAgent, reputations[a] # NoRecord
        PROVE  LET record == reputations[a]
                   events(S) == {i \in DOMAIN record.history : record.history[i].type \in S}
                   sum(I) == SumOver(LAMBDA i : record.history[i].delta, I)
                   gains == sum({i \in DOMAIN record.history : record.history[i].delta > 0})
                   losses == sum({i \in DOMAIN record.history : record.history[i].delta < 0})
               IN
               /\ record.score <= Larger(InitialScore, MaxScore)
               /\ record.score <= InitialScore + gains
               /\ record.score >= Min({InitialScore, MaxScore}) + losses - decays[a]
               /\ record.successful = Cardinality(events({"JobCompleted"}))
               /\ record.failed = Cardinality(events({"JobFailed"}))
               /\ record.total = record.successful + record.failed
    <2> DEFINE record == reputations[a]
               h == record.history
    <2>2. record \in ReputationRecord /\ Explained(record, decays[a])
      BY <1>1 DEF RecordsInv, ReputationsExplained
    <2>3. h \in Seq(HistoryEvent)
      BY <2>2 DEF ReputationRecord, HistoryEvent
    <2>4. /\ {i \in DOMAIN h : h[i].delta > 0} = Among(h, Gains)
          /\ {i \in DOMAIN h : h[i].delta < 0} = Among(h, Losses)
          /\ {i \in DOMAIN h : h[i].type \in {"JobCompleted"}} = Among(h, OfType("JobCompleted"))
          /\ {i \in DOMAIN h : h[i].type \in {"JobFailed"}} = Among(h, OfType("JobFailed"))
      BY <2>3, TallyIs
    <2>6. Min({InitialScore, MaxScore}) = LowStart
      <3>1. InitialScore \in Nat /\ MaxScore \in Nat
        BY RecordsTyped DEF RecordsTyped
      <3> QED BY <3>1, MinOfTwo DEF LowStart
    <2>7. /\ SumFunction([i \in {k \in DOMAIN h : h[k].delta > 0} |-> h[i].delta])
               = Tallied(h, Gains)
          /\ SumFunction([i \in {k \in DOMAIN h : h[k].delta < 0} |-> h[i].delta])
               = Tallied(h, Losses)
      BY <2>4 DEF Tallied
    <2>8. /\ record.score <= Larger(InitialScore, MaxScore)
          /\ record.score <= InitialScore + Tallied(h, Gains)
          /\ record.score >= LowStart + Tallied(h, Losses) - decays[a]
          /\ record.successful = Cardinality(Among(h, OfType("JobCompleted")))
          /\ record.failed = Cardinality(Among(h, OfType("JobFailed")))
          /\ record.total = record.successful + record.failed
      BY <2>2 DEF Explained
    <2> QED BY <2>4, <2>6, <2>7, <2>8 DEF SumOver
  <1>2. \A a \in RecordAgent, c \in Capability :
          Cardinality({i \in DOMAIN byCapability[c] : byCapability[c][i] = a}) =
            IF registered[a] = NoRecord THEN 0
            ELSE Cardinality({i \in DOMAIN registered[a].capabilities :
                                registered[a].capabilities[i] = c})
    BY DEF RecordsInv, RegistryIndexed, Named, PlacesIn
  <1> QED BY <1>1, <1>2 DEF RecordsExplained

LEMMA RecordsInvInit ==
  ASSUME RecordsInit
  PROVE  RecordsInv
  <1>1. ReputationsExplained
    BY DEF RecordsInit, ReputationsExplained
  <1>2. byCapability \in [Capability -> Seq(RecordAgent)]
    BY DEF RecordsInit
  <1>3. registered \in [RecordAgent -> AgentRegistration \cup {NoRecord}]
    BY DEF RecordsInit
  <1>4. ASSUME NEW a \in RecordAgent, NEW c \in Capability
        PROVE  registered[a] = NoRecord /\ Cardinality(PlacesIn(byCapability[c], a)) = 0
    <2>1. byCapability[c] = <<>> /\ registered[a] = NoRecord
      BY DEF RecordsInit
    <2>2. PlacesIn(<<>>, a) = {}
      BY DEF PlacesIn
    <2>3. Cardinality({}) = 0
      BY FS_EmptySet
    <2> QED BY <2>1, <2>2, <2>3
  <1>5. RegistryIndexed
    BY <1>2, <1>3, <1>4 DEF RegistryIndexed
  <1> QED BY <1>1, <1>5 DEF RecordsInv

----------------------------------------------------------------------------
(* Records *)

\* The records move at a height that stays, or the height moves on.
LEMMA RecordSteps ==
  ASSUME now \in 0 .. MaxNow, [ManagersNext]_managersVars
  PROVE  /\ now' \in 0 .. MaxNow /\ now' >= now
         /\ AgentTokensNext \/ UNCHANGED agentTokenVars
         /\ RegistryNext \/ UNCHANGED registryVars
         /\ ReputationNext \/ UNCHANGED reputationVars
         /\ SubnetsNext \/ UNCHANGED subnetsVars
         /\ (PriceNext /\ now' = now) \/ UNCHANGED priceVars
         /\ QualityNext \/ UNCHANGED qualityVars
  <1>0. MaxNow \in Nat
    BY HeightsTyped DEF HeightsTyped
  <1>1. CASE CallNext /\ UNCHANGED <<now, part>>
    <2>1. now' \in 0 .. MaxNow /\ now' >= now /\ now' = now
      BY <1>0, <1>1
    <2>2. AgentsNext \/ UNCHANGED agentVars
      BY <1>1 DEF CallNext
    <2>3. /\ AgentTokensNext \/ UNCHANGED agentTokenVars
          /\ RegistryNext \/ UNCHANGED registryVars
          /\ ReputationNext \/ UNCHANGED reputationVars
      <3>1. CASE AgentsNext
        BY <3>1 DEF AgentsNext, recordVars
      <3>2. CASE UNCHANGED agentVars
        BY <3>2 DEF agentVars, recordVars
      <3> QED BY <2>2, <3>1, <3>2
    <2>4. NetworkNext \/ UNCHANGED networkVars
      BY <1>1 DEF CallNext
    <2>5. /\ SubnetsNext \/ UNCHANGED subnetsVars
          /\ PriceNext \/ UNCHANGED priceVars
          /\ QualityNext \/ UNCHANGED qualityVars
      <3>1. CASE NetworkNext
        BY <3>1 DEF NetworkNext, oracleVars
      <3>2. CASE UNCHANGED networkVars
        BY <3>2 DEF networkVars, oracleVars
      <3> QED BY <2>4, <3>1, <3>2
    <2> QED BY <2>1, <2>3, <2>5
  <1>2. CASE Tick /\ UNCHANGED agentVars /\ UNCHANGED networkVars
    <2>1. now' \in 0 .. MaxNow /\ now' >= now
      BY <1>0, <1>2 DEF Tick
    <2> QED BY <1>2, <2>1 DEF agentVars, recordVars, networkVars, oracleVars
  <1>3. CASE UNCHANGED managersVars
    <2>1. now' \in 0 .. MaxNow /\ now' >= now
      BY <1>0, <1>3 DEF managersVars
    <2> QED BY <1>3, <2>1 DEF managersVars, agentVars, recordVars, networkVars, oracleVars
  <1> QED BY <1>1, <1>2, <1>3 DEF ManagersNext

AllRecordsInv ==
  /\ now \in 0 .. MaxNow /\ TokensInv /\ RecordsInv /\ SubnetsInv /\ PricesInv /\ QualityInv

LEMMA RecordsHold == ManagersSpec => []AllRecordsInv
  <1>1. ManagersInit => AllRecordsInv
    <2> SUFFICES ASSUME ManagersInit PROVE AllRecordsInv
      OBVIOUS
    <2>1. now = 0 /\ now \in 0 .. MaxNow
      BY HeightsTyped DEF ManagersInit, ClockInit, HeightsTyped
    <2>2. TokensInv /\ RecordsInv /\ SubnetsInv
      BY TokensInvInit, RecordsInvInit, SubnetsInvInit DEF ManagersInit
    <2>3. PricesInv /\ QualityInv
      BY <2>1, OraclesInvInit DEF ManagersInit
    <2> QED BY <2>1, <2>2, <2>3 DEF AllRecordsInv
  <1>2. AllRecordsInv /\ [ManagersNext]_managersVars => AllRecordsInv'
    <2> SUFFICES ASSUME AllRecordsInv, [ManagersNext]_managersVars PROVE AllRecordsInv'
      OBVIOUS
    <2>1. now \in 0 .. MaxNow /\ now \in Nat
      BY HeightsTyped DEF AllRecordsInv, HeightsTyped
    <2>2. /\ now' \in 0 .. MaxNow /\ now' >= now
          /\ AgentTokensNext \/ UNCHANGED agentTokenVars
          /\ RegistryNext \/ UNCHANGED registryVars
          /\ ReputationNext \/ UNCHANGED reputationVars
          /\ SubnetsNext \/ UNCHANGED subnetsVars
          /\ (PriceNext /\ now' = now) \/ UNCHANGED priceVars
          /\ QualityNext \/ UNCHANGED qualityVars
      BY <2>1, RecordSteps
    <2>3. TokensInv'
      BY <2>2, TokensInvStep DEF AllRecordsInv
    <2>4. RecordsInv'
      BY <2>1, <2>2, ReputationsStep, RegistryStep DEF AllRecordsInv, RecordsInv
    <2>5. SubnetsInv'
      BY <2>2, SubnetsInvStep DEF AllRecordsInv
    <2>6. PricesInv'
      BY <2>1, <2>2, PricesInvStep DEF AllRecordsInv
    <2>7. QualityInv'
      BY <2>2, QualityInvStep DEF AllRecordsInv
    <2> QED BY <2>2, <2>3, <2>4, <2>5, <2>6, <2>7 DEF AllRecordsInv
  <1> QED BY <1>1, <1>2, PTL DEF ManagersSpec

\* Whatever agents, traders, providers and oracles do, in any order: a score is explained by the
\* events and decays, the indexes list what the entries say, a reserve is within one unit per
\* trade of the integral of a linear curve, and of what the code asks for the whole supply of
\* a quadratic one, a price moves by its bound from the one before, a quality score is the
\* mean of the reports, and a banned peer stays out (reputation/system.rs:302,
\* agent_registry/registry.rs:61, agent_token/factory.rs:103, subnet/registry.rs:198,
\* oracle/oracle.rs:85, quality/oracle.rs:90, p2p/network.rs:65).
THEOREM RecordsAreTrue == ManagersSpec => []RecordsAgree
  <1>1. AllRecordsInv => RecordsExplained /\ ReservesTrackCurve /\ SubnetsIndexed
                         /\ PricesContinuous /\ ScoresAverage
    BY RecordsInvImplies, PricesInvImplies
    DEF AllRecordsInv, TokensInv, SubnetsInv, QualityInv
  <1> QED BY <1>1, RecordsHold, BannedNeverConnected, PTL DEF RecordsAgree

----------------------------------------------------------------------------
(* Types *)

LEMMA EscrowsHold == ManagersSpec => []EscrowInv
  <1>1. ManagersInit => EscrowInv
    BY InitEscrows
  <1>2. EscrowInv /\ [ManagersNext]_managersVars => EscrowInv'
    BY StepKeepsEscrows
  <1> QED BY <1>1, <1>2, PTL DEF ManagersSpec

\* The totals of the token are checked before they reach the modulus.
SupplyBounded ==
  /\ totalSupply \in 0 .. SupplyModulus - 1 /\ totalMinted \in 0 .. SupplyModulus - 1
  /\ totalBurned \in 0 .. SupplyModulus - 1 /\ tokenCalls \in Nat
  /\ minters \subseteq TokenParty /\ burners \subseteq TokenParty

LEMMA TokenStepBounded ==
  ASSUME SupplyBounded, TokenNext \/ UNCHANGED tokenVars
  PROVE  SupplyBounded'
  <1>1. /\ SupplyModulus \in Nat /\ TokenAmounts \subseteq Nat
        /\ totalSupply \in Nat /\ totalMinted \in Nat /\ totalBurned \in Nat
        /\ totalSupply < SupplyModulus /\ totalMinted < SupplyModulus
        /\ totalBurned < SupplyModulus /\ tokenCalls \in Nat
    BY SupplyTyped DEF SupplyTyped, SupplyBounded
  <1>2. ASSUME NEW a \in TokenParty, NEW n \in TokenAmounts, Mint(n, a)
        PROVE  SupplyBounded'
    BY <1>1, <1>2 DEF Mint, SupplyBounded
  <1>3. ASSUME NEW a \in TokenParty, NEW n \in TokenAmounts, Burn(n, a)
        PROVE  SupplyBounded'
    <2>1. totalBurned' \in Nat /\ totalBurned' < SupplyModulus
      BY <1>1, <1>3 DEF Burn
    <2> QED BY <1>1, <1>3, <2>1 DEF Burn, SupplyBounded
  <1>4. ASSUME NEW a \in TokenParty, NEW caller \in TokenParty,
               \/ AuthorizeMinter(a, caller) \/ RevokeMinter(a, caller)
               \/ AuthorizeBurner(a, caller) \/ RevokeBurner(a, caller)
        PROVE  SupplyBounded'
    BY <1>4 DEF AuthorizeMinter, RevokeMinter, AuthorizeBurner, RevokeBurner, SupplyBounded
  <1>5. CASE UNCHANGED tokenVars
    BY <1>5 DEF tokenVars, SupplyBounded
  <1> QED BY <1>2, <1>3, <1>4, <1>5 DEF TokenNext

LEMMA TokenSteps ==
  ASSUME [ManagersNext]_managersVars
  PROVE  TokenNext \/ UNCHANGED tokenVars
  <1>1. CASE CallNext
    BY <1>1 DEF CallNext, EconomyNext, economyVars, supplyVars
  <1>2. CASE UNCHANGED economyVars
    BY <1>2 DEF economyVars, supplyVars
  <1> QED BY <1>1, <1>2 DEF ManagersNext, managersVars

LEMMA SupplyStaysBounded == ManagersSpec => []SupplyBounded
  <1>1. ManagersInit => SupplyBounded
    BY SupplyTyped DEF ManagersInit, SupplyInit, SupplyBounded, SupplyTyped
  <1>2. SupplyBounded /\ [ManagersNext]_managersVars => SupplyBounded'
    BY TokenSteps, TokenStepBounded
  <1> QED BY <1>1, <1>2, PTL DEF ManagersSpec

LEMMA CustodyTyped ==
  EscrowInv /\ CustodyInv =>
    /\ DepositsTypeOK /\ WithdrawalsTypeOK /\ CreditsTypeOK /\ CreditBridgeTypeOK
    /\ CrossChainTypeOK
  BY DEF EscrowInv, CustodyInv, CreditsInv, CreditBridgeInv, BridgeInv

LEMMA SettlementStateTyped ==
  SettlementInv => PipelineTypeOK /\ FallbackTypeOK /\ BalanceSyncTypeOK
  <1> SUFFICES ASSUME SettlementInv
               PROVE  PipelineTypeOK /\ FallbackTypeOK /\ BalanceSyncTypeOK
    OBVIOUS
  <1>1. ASSUME NEW p \in proofs
        PROVE  p.event \in EventId /\ p.at \in 0 .. now /\ p.status \in ProofStatus
    <2>1. PICK s \in settlements, n \in 0 .. now, status \in ProofStatus :
            p = [settlement |-> s.id, event |-> s.event, at |-> n, status |-> status]
      BY DEF SettlementInv, PipelineInv, ProofKept
    <2>2. s.event \in EventId
      BY DEF SettlementInv, PipelineInv, SettlementKept
    <2> QED BY <2>1, <2>2
  <1>2. PipelineTypeOK
    BY <1>1 DEF PipelineTypeOK, SettlementInv, PipelineInv, WindowInv
  <1> QED BY <1>2 DEF SettlementInv, FallbackInv, BalanceSyncInv

LEMMA EconomyTyped ==
  EconomyInv /\ SupplyBounded =>
    /\ SupplyTypeOK /\ EmissionTypeOK /\ FeesTypeOK /\ SubnetStakingTypeOK
    /\ DelegationsTypeOK
  <1> SUFFICES ASSUME EconomyInv, SupplyBounded
               PROVE  /\ SupplyTypeOK /\ EmissionTypeOK /\ FeesTypeOK /\ SubnetStakingTypeOK
                      /\ DelegationsTypeOK
    OBVIOUS
  <1>1. SupplyTypeOK
    BY DEF EconomyInv, SupplyInv, VestingInv, SupplyBounded, SupplyTypeOK
  <1>2. EmissionTypeOK /\ SubnetStakingTypeOK
    BY DEF EconomyInv, EmissionInv, SubnetStakingInv
  <1>3. FeesTypeOK
    <2>1. TreasuryInv /\ PoolsTyped
      BY DEF EconomyInv, FeesInv, PoolsInv
    <2> QED BY <2>1 DEF TreasuryInv, PoolsTyped, FeesTypeOK
  <1>4. DelegationsTypeOK
    BY DEF EconomyInv, AccountsInv, ValidatorSetInv, DelegationsTypeOK
  <1> QED BY <1>1, <1>2, <1>3, <1>4

LEMMA SpendingTyped ==
  SpendingInv => WalletsTypeOK /\ BudgetsTypeOK /\ BillingTypeOK /\ IncentivesTypeOK
  BY DEF SpendingInv, WalletsInv, BudgetsInv, BillingInv, IncentivesInv

LEMMA RecordStateTyped ==
  AllRecordsInv => AgentTokensTypeOK /\ RecordsTypeOK /\ SubnetsTypeOK /\ OraclesTypeOK
  <1> SUFFICES ASSUME AllRecordsInv
               PROVE  AgentTokensTypeOK /\ RecordsTypeOK /\ SubnetsTypeOK /\ OraclesTypeOK
    OBVIOUS
  <1>1. AgentTokensTypeOK /\ SubnetsTypeOK
    BY DEF AllRecordsInv, TokensInv, SubnetsInv
  <1>2. ASSUME NEW a \in RecordAgent, reputations[a] # NoRecord
        PROVE  /\ {reputations[a].total, reputations[a].successful, reputations[a].failed,
                   reputations[a].score, reputations[a].lastUpdated, decays[a]} \subseteq Nat
               /\ \A i \in DOMAIN reputations[a].history :
                    reputations[a].history[i].type \in EventType
    <2>1. PICK r : r = reputations[a] /\ r \in ReputationRecord /\ decays[a] \in Nat
      BY <1>2 DEF AllRecordsInv, RecordsInv, ReputationsExplained
    <2>2. PICK h : h = r.history /\ h \in Seq(HistoryEvent)
      BY <2>1 DEF ReputationRecord, HistoryEvent
    <2>3. ASSUME NEW i \in DOMAIN h
          PROVE  h[i].type \in EventType
      <3>1. PICK e : e = h[i] /\ e \in HistoryEvent
        BY <2>2, <2>3
      <3>2. e.type \in EventType
        BY <3>1 DEF HistoryEvent
      <3> QED BY <3>1, <3>2
    <2>4. {r.total, r.successful, r.failed, r.score, r.lastUpdated} \subseteq Nat
      BY <2>1 DEF ReputationRecord
    <2> QED BY <2>1, <2>2, <2>3, <2>4
  <1>3. RecordsTypeOK
    BY <1>2 DEF RecordsTypeOK, AllRecordsInv, RecordsInv, RegistryIndexed
  <1>4. OraclesTypeOK
    BY DEF AllRecordsInv, PricesInv, PricePoint, QualityInv, OraclesTypeOK
  <1> QED BY <1>1, <1>3, <1>4

\* In whatever order the managers are called, with whatever arguments their constants allow,
\* every record, total and index has its type: no balance or counter of theirs is ever below
\* zero, no total of the token past its width, and no index names what is no key
\* (token.rs:176, credits/system.rs:103, agent_registry/registry.rs:61).
THEOREM ManagersTypeCorrect == ManagersSpec => []ManagersTypeOK
  <1>1. /\ EscrowInv /\ CustodyInv /\ SettlementInv /\ GovernanceInv /\ EconomyInv
        /\ SupplyBounded /\ SpendingInv /\ AllRecordsInv /\ PeersInv
        => ManagersTypeOK
    BY CustodyTyped, SettlementStateTyped, EconomyTyped, SpendingTyped, RecordStateTyped
    DEF ManagersTypeOK, GovernanceInv, GovernorInv, VoteEscrowInv, PeersInv
  <1> QED BY <1>1, EscrowsHold, CustodyHolds, SettlementHolds, GovernanceHolds, EconomyHolds,
             SupplyStaysBounded, SpendingHolds, RecordsHold, PeersHold, PTL
=============================================================================
