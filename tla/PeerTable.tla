----------------------------- MODULE PeerTable -----------------------------
(***************************************************************************)
(* The table of peers (p2p/network.rs): who is connected, and who is       *)
(* banned until when.  A peer that disconnects or is banned stays in the   *)
(* table.  Timestamps are those of the callers: a connecting peer brings   *)
(* its own.  Left out: versions and the log of messages, which decide      *)
(* nothing.                                                                *)
(***************************************************************************)
EXTENDS Common

CONSTANTS
  Peer, NoPeer,           \* peer ids, and a missing map entry
  Stamps, BanDurations,   \* timestamps and durations that callers pass
  PeerHeights,            \* heights that peers announce
  MaxPeers                \* parameter of the network

PeerStatus == {"Connected", "Syncing", "Disconnected", "Banned"}

PeerInfo == [status : PeerStatus, height : Nat]

ASSUME PeersTyped ==
  /\ NoPeer \notin PeerInfo
  /\ Stamps \cup BanDurations \cup PeerHeights \subseteq Nat
  /\ MaxPeers \in Nat /\ IsFiniteSet(Peer)

VARIABLES
  peerTable,      \* peers
  bannedPeers,    \* banned_peers: until when, -1 if not
  everBanned      \* history: the peers that were banned since they last connected

peerVars == <<peerTable, bannedPeers, everBanned>>

PeersInit ==
  /\ peerTable = [p \in Peer |-> NoPeer]
  /\ bannedPeers = [p \in Peer |-> -1]
  /\ everBanned = {}

InTable == {p \in Peer : peerTable[p] # NoPeer}

\* A ban that is over is lifted, also if the peer is refused for another reason.  What is
\* recorded of the peer is what the caller says.
ConnectPeer(p, peer, sameChain, stamp) ==
  /\ sameChain /\ bannedPeers[p] < stamp
  /\ bannedPeers' = [bannedPeers EXCEPT ![p] = -1]
  /\ IF p \notin InTable /\ Cardinality(InTable) < MaxPeers
     THEN /\ peerTable' = [peerTable EXCEPT ![p] = peer]
          /\ everBanned' = everBanned \ {p}
     ELSE UNCHANGED <<peerTable, everBanned>>

DisconnectPeer(p) ==
  /\ p \in InTable
  /\ peerTable' = [peerTable EXCEPT ![p].status = "Disconnected"]
  /\ UNCHANGED <<bannedPeers, everBanned>>

\* A later ban replaces an earlier one, also a longer one.  Its end may be past the last
\* timestamp, and is then in the past.
BanPeer(p, duration, stamp) ==
  /\ bannedPeers' = [bannedPeers EXCEPT ![p] = (stamp + duration) % HeightModulus]
  /\ peerTable' =
       IF p \in InTable THEN [peerTable EXCEPT ![p].status = "Banned"] ELSE peerTable
  /\ everBanned' = everBanned \cup {p}

UpdatePeerHeight(p, height) ==
  /\ p \in InTable
  /\ peerTable' = [peerTable EXCEPT ![p].height = height]
  /\ UNCHANGED <<bannedPeers, everBanned>>

PeersNext ==
  \E p \in Peer :
    \/ \E peer \in [status : PeerStatus, height : PeerHeights], sameChain \in BOOLEAN,
          stamp \in Stamps : ConnectPeer(p, peer, sameChain, stamp)
    \/ DisconnectPeer(p)
    \/ \E duration \in BanDurations, stamp \in Stamps : BanPeer(p, duration, stamp)
    \/ \E height \in PeerHeights : UpdatePeerHeight(p, height)

----------------------------------------------------------------------------
(* Properties *)

\* Types of the table.
PeersTypeOK ==
  /\ peerTable \in [Peer -> PeerInfo \cup {NoPeer}]
  /\ bannedPeers \in [Peer -> Nat \cup {-1}]
  /\ everBanned \subseteq Peer

\* The table holds at most its maximum, and none of the connected peers, which are also
\* those that sync (p2p/network.rs:144), was banned since it connected, whatever the order of
\* bans, their ends and calls that are refused (p2p/network.rs:65, 79, 116).  A peer that is
\* out stays out, its place taken: it has to be in the table to be refused.
BannedStayOut ==
  /\ Cardinality(InTable) <= MaxPeers
  /\ \A p \in InTable : peerTable[p].status \in {"Connected", "Syncing"} =>
       p \notin everBanned /\ bannedPeers[p] = -1
=============================================================================
