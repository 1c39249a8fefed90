-------------------------- MODULE ConsensusProofs --------------------------
(* Theorems about finality votes, block sync and proof of stake, for any blocks, voters, *)
(* powers, quorum, stakers, amounts, heights and percentages.                            *)
EXTENDS Consensus, Sums

(* Finality votes *)

\* A record's power is the power of those who voted, and whoever was justified had a quorum of
\* the total power of that time.
VotesCounted ==
  \A b \in Block : finality[b] # NoBlock => finality[b].votePower = PowerOf(finality[b].votes)

JustifiedHadQuorum ==
  \A b \in Block : justifiedUnder[b] # 0 =>
    /\ finality[b] # NoBlock
    /\ 10000 * PowerOf(finality[b].votes) >= QuorumBps * justifiedUnder[b]

\* The height of no block at all is the lowest.
NoneFinalized == everFinalized = {} => finalizedHeight = 0

FinalityInv ==
  /\ FinalityTypeOK /\ VotesCounted /\ JustifiedHadQuorum /\ HighestFinalized /\ NoneFinalized

\* Dividing rounds down: what reaches q after the division reached q times the divisor before.
LEMMA DivisionReaches ==
  ASSUME NEW x \in Nat, NEW t \in Nat, t # 0, NEW q \in Nat, x \div t >= q
  PROVE  x >= q * t
  <1> DEFINE d == x \div t
             more == d - q
  <1>1. d \in Nat /\ x >= d * t /\ more \in Nat /\ d = q + more
    OBVIOUS
  <1> HIDE DEF d, more
  <1>2. d * t = q * t + more * t
    BY <1>1
  <1>3. more * t \in Nat /\ q * t \in Nat
    BY <1>1
  <1>4. d * t >= q * t
    BY <1>2, <1>3
  <1> QED BY <1>1, <1>3, <1>4

\* Power adds up, as sums over finite sets do.
LEMMA PowerOfUnion ==
  ASSUME NEW S \in SUBSET Voter, NEW T \in SUBSET Voter
  PROVE  /\ PowerOf(S) \in Nat
         /\ PowerOf(S \cup T) = PowerOf(S) + PowerOf(T) - PowerOf(S \cap T)
  <1>1. IsFiniteSet(S) /\ IsFiniteSet(T)
    BY PowersTyped, FS_Subset
  <1>2. \A y \in S \cup T : Power[y] \in Nat /\ Power[y] \in Int
    BY PowersTyped
  <1>3. PowerOf(S) \in Nat
    BY <1>1, <1>2, SumOnNat DEF PowerOf
  <1>4. PowerOf(S \cup T) = PowerOf(S) + PowerOf(T) - PowerOf(S \cap T)
    BY <1>1, <1>2, SumOnUnion DEF PowerOf
  <1> QED BY <1>3, <1>4

\* The power of voters is a number, and the quorum is one.
LEMMA PowerIsNat ==
  ASSUME NEW S \in SUBSET Voter
  PROVE  PowerOf(S) \in Nat
  BY PowerOfUnion

LEMMA PowerOfNone == PowerOf({}) = 0
  BY SumOnEmpty DEF PowerOf

LEMMA QuorumIsNat == QuorumBps \in Nat
  BY PowersTyped

\* One more voter adds its power.
LEMMA PowerOfOneMore ==
  ASSUME NEW S \in SUBSET Voter, NEW v \in Voter \ S
  PROVE  PowerOf(S \cup {v}) = PowerOf(S) + Power[v] /\ PowerOf(S) \in Nat /\ Power[v] \in Nat
  <1>1. Power[v] \in Nat
    BY PowersTyped
  <1>2. PowerOf(S) \in Nat
    BY PowerIsNat
  <1>3. PowerOf(S \cup {v}) = Power[v] + PowerOf(S)
    <2>1. IsFiniteSet(S \cup {v}) /\ v \in S \cup {v} /\ (S \cup {v}) \ {v} = S
      <3>1. IsFiniteSet(S)
        BY PowersTyped, FS_Subset
      <3> QED BY <3>1, FS_AddElement
    <2>2. \A y \in S \cup {v} : Power[y] \in Int
      BY PowersTyped
    <2>3. SumFunctionOnSet(Power, S \cup {v})
            = Power[v] + SumFunctionOnSet(Power, (S \cup {v}) \ {v})
      BY <2>1, <2>2, SumOnTakeOut
    <2> QED BY <2>1, <2>3 DEF PowerOf
  <1> QED BY <1>1, <1>2, <1>3

\* The record of a registered block is a record.
LEMMA RecordFields ==
  ASSUME FinalityTypeOK, NEW b \in Block, finality[b] # NoBlock
  PROVE  /\ finality[b] \in BlockFinality
         /\ finality[b].votes \in SUBSET Voter /\ finality[b].votePower \in Nat
         /\ finality[b].status \in FinalityStatus
  BY DEF FinalityTypeOK, BlockFinality

\* A vote keeps the record counted, and gives it a quorum when it justifies it.
LEMMA VoteCounts ==
  ASSUME FinalityInv, NEW b \in Block, NEW v \in Voter, AddVote(b, v)
  PROVE  /\ Voted(finality[b], v) \in BlockFinality
         /\ Voted(finality[b], v).votePower = PowerOf(Voted(finality[b], v).votes)
         /\ PowerOf(Voted(finality[b], v).votes) >= PowerOf(finality[b].votes)
         /\ PowerOf(Voted(finality[b], v).votes) \in Nat
         /\ finality[b].status = "Pending" /\ Voted(finality[b], v).status = "Justified" =>
              /\ totalValidatorPower # 0
              /\ 10000 * PowerOf(Voted(finality[b], v).votes) >= QuorumBps * totalValidatorPower
  <1> DEFINE record == finality[b]
             new == Voted(record, v)
  <1>1. /\ record \in BlockFinality /\ record.votes \in SUBSET Voter /\ record.votePower \in Nat
        /\ v \in Voter \ record.votes /\ record.status \in FinalityStatus
        /\ record.votePower = PowerOf(record.votes)
    BY RecordFields DEF AddVote, FinalityInv, VotesCounted
  <1>2. /\ new.votes = record.votes \cup {v} /\ new.votePower = record.votePower + Power[v]
        /\ new.status = IF record.status = "Pending" /\ Quorum(record.votePower + Power[v])
                          THEN "Justified" ELSE record.status
    BY DEF Voted
  <1>3. /\ PowerOf(new.votes) = PowerOf(record.votes) + Power[v]
        /\ PowerOf(record.votes) \in Nat /\ Power[v] \in Nat
    BY <1>1, <1>2, PowerOfOneMore
  <1>4. new \in BlockFinality
    <2>1. new.status \in FinalityStatus
      BY <1>1, <1>2 DEF FinalityStatus
    <2>2. record.votePower + Power[v] \in Nat /\ record.votes \cup {v} \in SUBSET Voter
      BY <1>1, <1>3
    <2> QED BY <1>2, <2>1, <2>2 DEF Voted, BlockFinality
  <1>5. ASSUME record.status = "Pending", new.status = "Justified"
        PROVE  /\ totalValidatorPower # 0
               /\ 10000 * PowerOf(new.votes) >= QuorumBps * totalValidatorPower
    <2>1. Quorum(PowerOf(new.votes))
      BY <1>1, <1>2, <1>3, <1>5
    <2>2. PowerOf(new.votes) * 10000 \in Nat /\ totalValidatorPower \in Nat /\ QuorumBps \in Nat
      BY <1>3, QuorumIsNat DEF FinalityInv, FinalityTypeOK
    <2>3. PowerOf(new.votes) * 10000 >= QuorumBps * totalValidatorPower
      BY <2>1, <2>2, DivisionReaches DEF Quorum
    <2>4. PowerOf(new.votes) * 10000 = 10000 * PowerOf(new.votes)
      BY <1>3
    <2> QED BY <2>1, <2>3, <2>4 DEF Quorum
  <1> HIDE DEF new
  <1> QED BY <1>1, <1>2, <1>3, <1>4, <1>5 DEF new

\* FinalityInv holds at the start, and every step keeps it.
LEMMA FinalityInvariant == FinalitySpec => []FinalityInv
  <1>1. FinalityInit => FinalityInv
    BY DEF FinalityInit, FinalityInv, FinalityTypeOK, VotesCounted, JustifiedHadQuorum,
       HighestFinalized, NoneFinalized
  <1>2. ASSUME FinalityInv, [FinalityNext]_finalityVars
        PROVE  FinalityInv'
    <2> USE <1>2 DEF FinalityInv
    <2>0. /\ finality \in [Block -> BlockFinality \cup {NoBlock}]
          /\ justifiedUnder \in [Block -> Nat] /\ totalValidatorPower \in Nat
          /\ finalizedHeight \in Nat /\ NoBlock \notin Block /\ NoBlock \notin BlockFinality
      BY BlocksTyped DEF FinalityTypeOK
    <2>1. ASSUME NEW b \in Block, RegisterBlock(b)
          PROVE  FinalityInv'
      <3> DEFINE new == [votes |-> {}, votePower |-> 0, status |-> "Pending"]
      <3>1. new \in BlockFinality /\ new.votes = {} /\ new.votePower = 0
        BY DEF BlockFinality, FinalityStatus
      <3>2. /\ finality' = [finality EXCEPT ![b] = new]
            /\ UNCHANGED <<finalizedHeight, finalizedHash, totalValidatorPower, everFinalized,
                           justifiedUnder>>
            /\ finality[b] = NoBlock
        BY <2>1 DEF RegisterBlock, finalityHistory
      <3> HIDE DEF new
      <3>3. justifiedUnder[b] = 0
        BY <3>2 DEF JustifiedHadQuorum
      <3>4. FinalityTypeOK'
        BY <2>0, <3>1, <3>2 DEF FinalityTypeOK
      <3>5. VotesCounted'
        BY <2>0, <3>1, <3>2, PowerOfNone DEF VotesCounted
      <3>6. JustifiedHadQuorum'
        BY <2>0, <3>2, <3>3 DEF JustifiedHadQuorum
      <3>7. HighestFinalized' /\ NoneFinalized'
        BY <3>2 DEF HighestFinalized, NoneFinalized
      <3> QED BY <3>4, <3>5, <3>6, <3>7
    <2>2. ASSUME NEW b \in Block, NEW v \in Voter, AddVote(b, v)
          PROVE  FinalityInv'
      <3> DEFINE new == Voted(finality[b], v)
      <3>1. /\ new \in BlockFinality /\ new.votePower = PowerOf(new.votes)
            /\ PowerOf(new.votes) >= PowerOf(finality[b].votes) /\ PowerOf(new.votes) \in Nat
            /\ finality[b].status = "Pending" /\ new.status = "Justified" =>
                 /\ totalValidatorPower # 0
                 /\ 10000 * PowerOf(new.votes) >= QuorumBps * totalValidatorPower
        BY <2>2, VoteCounts
      <3> HIDE DEF new
      <3>2. /\ finality' = [finality EXCEPT ![b] = new]
            /\ UNCHANGED <<finalizedHeight, finalizedHash, totalValidatorPower, everFinalized>>
            /\ finality[b] # NoBlock
        BY <2>2 DEF AddVote, new
      <3>3. justifiedUnder' = [justifiedUnder EXCEPT ![b] =
              IF finality[b].status = "Pending" /\ new.status = "Justified"
                THEN totalValidatorPower ELSE justifiedUnder[b]]
        BY <2>0, <2>2, <3>2 DEF AddVote
      <3>4. FinalityTypeOK'
        BY <2>0, <3>1, <3>2, <3>3 DEF FinalityTypeOK
      <3>5. VotesCounted'
        BY <2>0, <3>1, <3>2 DEF VotesCounted
      <3>6. JustifiedHadQuorum'
        <4>1. ASSUME NEW d \in Block, justifiedUnder'[d] # 0
              PROVE  /\ finality'[d] # NoBlock
                     /\ 10000 * PowerOf(finality'[d].votes) >= QuorumBps * justifiedUnder'[d]
          <5>1. CASE d # b
            BY <2>0, <3>2, <3>3, <4>1, <5>1 DEF JustifiedHadQuorum
          <5>2. CASE d = b /\ finality[b].status = "Pending" /\ new.status = "Justified"
            BY <2>0, <3>1, <3>2, <3>3, <5>2
          <5>3. CASE d = b /\ ~(finality[b].status = "Pending" /\ new.status = "Justified")
            <6>1. justifiedUnder'[b] = justifiedUnder[b] /\ finality'[b] = new
              BY <2>0, <3>2, <3>3, <5>3
            <6>2. 10000 * PowerOf(finality[b].votes) >= QuorumBps * justifiedUnder[b]
              BY <4>1, <5>3, <6>1 DEF JustifiedHadQuorum
            <6>3. PowerOf(finality[b].votes) \in Nat /\ QuorumBps * justifiedUnder[b] \in Int
              <7>1. finality[b].votes \in SUBSET Voter
                BY <3>2, RecordFields
              <7>2. PowerOf(finality[b].votes) \in Nat
                BY <7>1, PowerIsNat
              <7>3. QuorumBps * justifiedUnder[b] \in Int
                BY <2>0, QuorumIsNat
              <7> QED BY <7>2, <7>3
            <6>4. 10000 * PowerOf(new.votes) >= QuorumBps * justifiedUnder[b]
              BY <3>1, <6>2, <6>3
            <6> QED BY <2>0, <3>1, <5>3, <6>1, <6>4
          <5> QED BY <5>1, <5>2, <5>3
        <4> QED BY <4>1 DEF JustifiedHadQuorum
      <3>7. HighestFinalized' /\ NoneFinalized'
        BY <3>2 DEF HighestFinalized, NoneFinalized
      <3> QED BY <3>4, <3>5, <3>6, <3>7
    <2>3. ASSUME NEW b \in Block, Finalize(b)
          PROVE  FinalityInv'
      <3> DEFINE new == [finality[b] EXCEPT !.status = "Finalized"]
      <3>1. /\ finality[b] # NoBlock /\ finality' = [finality EXCEPT ![b] = new]
            /\ everFinalized' = everFinalized \cup {b}
            /\ UNCHANGED <<totalValidatorPower, justifiedUnder>>
        BY <2>3 DEF Finalize
      <3>2. new \in BlockFinality /\ new.votes = finality[b].votes
            /\ new.votePower = finality[b].votePower
        BY <3>1, RecordFields DEF BlockFinality, FinalityStatus
      <3> HIDE DEF new
      <3>3. b.height \in Nat
        BY BlocksTyped
      <3>4. /\ finalizedHeight' \in Nat /\ finalizedHash' \in Block \cup {NoBlock}
            /\ HighestFinalized' /\ NoneFinalized'
        <4>1. /\ \A d \in everFinalized : d.height \in Nat /\ d.height <= finalizedHeight
              /\ everFinalized # {} =>
                   finalizedHash \in everFinalized /\ finalizedHash.height = finalizedHeight
              /\ everFinalized \subseteq Block /\ finalizedHash \in Block \cup {NoBlock}
          BY BlocksTyped DEF FinalityTypeOK, HighestFinalized
        <4>2. everFinalized' # {} /\ b \in everFinalized'
          BY <3>1
        <4>3. CASE b.height >= finalizedHeight
          <5>1. finalizedHeight' = b.height /\ finalizedHash' = b
            BY <2>3, <4>3 DEF Finalize
          <5>2. \A d \in everFinalized' : d.height <= finalizedHeight'
            BY <2>0, <3>1, <3>3, <4>1, <4>3, <5>1
          <5> QED BY <3>3, <4>2, <5>1, <5>2 DEF HighestFinalized, NoneFinalized
        <4>4. CASE ~(b.height >= finalizedHeight) /\ everFinalized # {}
          <5>1. finalizedHeight' = finalizedHeight /\ finalizedHash' = finalizedHash
            BY <2>3, <4>4 DEF Finalize
          <5>2. \A d \in everFinalized' : d.height <= finalizedHeight'
            BY <2>0, <3>1, <3>3, <4>1, <4>4, <5>1
          <5> QED BY <2>0, <3>1, <4>1, <4>2, <4>4, <5>1, <5>2
             DEF HighestFinalized, NoneFinalized
        <4>5. everFinalized = {} => finalizedHeight = 0
          BY DEF NoneFinalized
        <4> QED BY <2>0, <3>3, <4>3, <4>4, <4>5
      <3>5. FinalityTypeOK'
        BY <2>0, <3>1, <3>2, <3>4 DEF FinalityTypeOK
      <3>6. VotesCounted'
        BY <2>0, <3>1, <3>2 DEF VotesCounted
      <3>7. JustifiedHadQuorum'
        BY <2>0, <3>1, <3>2 DEF JustifiedHadQuorum
      <3> QED BY <3>4, <3>5, <3>6, <3>7
    <2>4. ASSUME NEW power \in TotalPowers, SetTotalPower(power)
          PROVE  FinalityInv'
      BY <2>4, PowersTyped DEF SetTotalPower, finalityHistory, FinalityTypeOK, VotesCounted,
         JustifiedHadQuorum, HighestFinalized, NoneFinalized
    <2>5. ASSUME NEW height, PruneBelow(height)
          PROVE  FinalityInv'
      <3>1. FinalityTypeOK'
        BY <2>0, <2>5 DEF PruneBelow, FinalityTypeOK
      <3>2. VotesCounted' /\ JustifiedHadQuorum'
        BY <2>0, <2>5 DEF PruneBelow, VotesCounted, JustifiedHadQuorum
      <3>3. HighestFinalized' /\ NoneFinalized'
        BY <2>5 DEF PruneBelow, HighestFinalized, NoneFinalized
      <3> QED BY <3>1, <3>2, <3>3
    <2>6. CASE UNCHANGED finalityVars
      BY <2>6 DEF finalityVars, finalityHistory, FinalityTypeOK, VotesCounted,
         JustifiedHadQuorum, HighestFinalized, NoneFinalized
    <2> QED BY <2>1, <2>2, <2>3, <2>4, <2>5, <2>6 DEF FinalityNext
  <1> QED BY <1>1, <1>2, PTL DEF FinalitySpec

\* The tracker's records keep their types.
THEOREM FinalityTypeCorrect == FinalitySpec => []FinalityTypeOK
  <1>1. FinalityInv => FinalityTypeOK
    BY DEF FinalityInv
  <1> QED BY <1>1, FinalityInvariant, PTL

\* finalized_height and finalized_hash name a highest block that was finalized
\* (finality/tracker.rs:167).
THEOREM HighestIsFinalized == FinalitySpec => []HighestFinalized
  <1>1. FinalityInv => HighestFinalized
    BY DEF FinalityInv
  <1> QED BY <1>1, FinalityInvariant, PTL

\* Whenever two blocks of one height are justified, voters with at least a third of the power
\* (twice the quorum less the whole) voted for both (finality/tracker.rs:74-86, 138-148).
THEOREM ConflictsAreAccountable == FinalitySpec => []AccountableSafety
  <1>1. ASSUME FinalityInv, NEW b1 \in Block, NEW b2 \in Block, PowerOf(Voter) # 0,
               justifiedUnder[b1] = PowerOf(Voter), justifiedUnder[b2] = PowerOf(Voter)
        PROVE  10000 * PowerOf(finality[b1].votes \cap finality[b2].votes)
                 >= (2 * QuorumBps - 10000) * PowerOf(Voter)
    <2> DEFINE all == PowerOf(Voter)
               S == finality[b1].votes
               T == finality[b2].votes
               quorum == QuorumBps * all
    <2>1. all \in Nat /\ QuorumBps \in Nat
      BY PowerIsNat, QuorumIsNat
    <2>2. /\ finality[b1] # NoBlock /\ finality[b2] # NoBlock
          /\ 10000 * PowerOf(S) >= quorum /\ 10000 * PowerOf(T) >= quorum
      BY <1>1 DEF FinalityInv, JustifiedHadQuorum
    <2>3. S \in SUBSET Voter /\ T \in SUBSET Voter
      BY <1>1, <2>2, RecordFields DEF FinalityInv
    <2> HIDE DEF S, T
    <2>4. /\ PowerOf(S) \in Nat /\ PowerOf(T) \in Nat /\ PowerOf(S \cap T) \in Nat
          /\ PowerOf(S \cup T) = PowerOf(S) + PowerOf(T) - PowerOf(S \cap T)
      <3>1. S \cap T \in SUBSET Voter
        BY <2>3
      <3> QED BY <2>3, <3>1, PowerOfUnion, PowerIsNat
    <2>5. PowerOf(S \cup T) \in Nat /\ PowerOf(S \cup T) <= all
      <3> DEFINE U == S \cup T
                 Rest == Voter \ U
      <3>1. /\ U \in SUBSET Voter /\ Rest \in SUBSET Voter
            /\ U \cup Rest = Voter /\ U \cap Rest = {}
        BY <2>3
      <3> HIDE DEF U, Rest
      <3>2. /\ PowerOf(Rest) \in Nat /\ PowerOf(U) \in Nat
            /\ PowerOf(U \cup Rest) = PowerOf(U) + PowerOf(Rest) - PowerOf(U \cap Rest)
        BY <3>1, PowerOfUnion, PowerIsNat
      <3>3. PowerOf(Voter) = PowerOf(U) + PowerOf(Rest) - PowerOf({})
        BY <3>1, <3>2
      <3>4. PowerOf({}) = 0
        BY PowerOfNone
      <3> QED BY <3>2, <3>3, <3>4 DEF U
    <2>6. quorum \in Int /\ (2 * QuorumBps - 10000) * all = 2 * quorum - 10000 * all
      <3> HIDE DEF all
      <3> QED BY <2>1
    <2>7. 10000 * PowerOf(S \cap T) >= 2 * quorum - 10000 * all
      <3> HIDE DEF quorum, all
      <3> QED BY <2>1, <2>2, <2>4, <2>5, <2>6
    <2> QED BY <2>6, <2>7 DEF S, T
  <1>2. FinalityInv => AccountableSafety
    BY <1>1 DEF AccountableSafety
  <1> QED BY <1>2, FinalityInvariant, PTL

----------------------------------------------------------------------------
(* Proof of stake *)

\* The vault's books: types, the bound of the heights, and where the stakes are.
VaultInv ==
  /\ stakes \in [Staker -> StakeEntry \cup {None}] /\ totalStaked \in Nat
  /\ chainHeight \in 0 .. MaxChainHeight
  /\ putIn \in Nat /\ released \in Nat /\ slashed \in Nat
  /\ StakeConserved

EngineTyped ==
  /\ validators \in Seq(ValidatorInfo) /\ currentProposer \in Staker \cup {None}
  /\ movedDirectly \subseteq Staker

StakingInv == VaultInv /\ EngineTyped /\ ProposerIsValidator /\ EngineFollowsVault

\* What a slash takes is at most the stake.
LEMMA SlashTakesPart ==
  ASSUME NEW amount \in Nat, NEW bps \in Nat, bps <= 10000
  PROVE  (amount * bps) \div 10000 \in Nat /\ (amount * bps) \div 10000 <= amount
  <1> DEFINE product == amount * bps
  <1>1. product \in Nat /\ product <= amount * 10000
    <2> DEFINE rest == 10000 - bps
    <2>1. rest \in Nat /\ bps \in Nat /\ 10000 = bps + rest
      OBVIOUS
    <2> HIDE DEF rest
    <2>2. amount * (bps + rest) = amount * bps + amount * rest
      BY <2>1
    <2>3. amount * rest \in Nat /\ amount * bps \in Nat
      BY <2>1
    <2> QED BY <2>1, <2>2, <2>3
  <1> HIDE DEF product
  <1>2. product \div 10000 \in Nat /\ product \div 10000 <= amount
    BY <1>1
  <1> QED BY <1>2 DEF product

LEMMA HeightsFinite == IsFiniteSet(CompletionHeight)
  BY StakeInputsTyped, FS_Interval DEF CompletionHeight

\* The fields of a stake, when there is one.
LEMMA StakeFields ==
  ASSUME VaultInv, NEW a \in Staker, stakes[a] # None
  PROVE  /\ stakes[a] \in StakeEntry
         /\ stakes[a].amount \in Nat /\ stakes[a].unbonding \in [CompletionHeight -> Nat]
         /\ SumFunction(stakes[a].unbonding) \in Nat
         /\ StakeOf(a) = stakes[a].amount
         /\ UnbondingOf(a) = SumFunction(stakes[a].unbonding)
  <1>1. stakes[a] \in StakeEntry
    BY DEF VaultInv
  <1>2. stakes[a].amount \in Nat /\ stakes[a].unbonding \in [CompletionHeight -> Nat]
    BY <1>1 DEF StakeEntry
  <1>3. SumFunction(stakes[a].unbonding) \in Nat
    BY <1>2, HeightsFinite, SumNat
  <1> QED BY <1>1, <1>2, <1>3 DEF StakeOf, UnbondingOf

\* Changing the fields of a stake.
LEMMA StakeReplaced ==
  ASSUME NEW r \in StakeEntry, NEW amount, NEW queue
  PROVE  /\ [r EXCEPT !.amount = amount] = [amount |-> amount, unbonding |-> r.unbonding]
         /\ [r EXCEPT !.unbonding = queue] = [amount |-> r.amount, unbonding |-> queue]
         /\ [r EXCEPT !.amount = amount, !.unbonding = queue]
              = [amount |-> amount, unbonding |-> queue]
  <1>1. r = [amount |-> r.amount, unbonding |-> r.unbonding]
    BY DEF StakeEntry
  <1>2. \A x, y : /\ [[amount |-> x, unbonding |-> y] EXCEPT !.amount = amount]
                       = [amount |-> amount, unbonding |-> y]
                  /\ [[amount |-> x, unbonding |-> y] EXCEPT !.unbonding = queue]
                       = [amount |-> x, unbonding |-> queue]
    OBVIOUS
  <1>3. /\ [r EXCEPT !.amount = amount] = [amount |-> amount, unbonding |-> r.unbonding]
        /\ [r EXCEPT !.unbonding = queue] = [amount |-> r.amount, unbonding |-> queue]
    BY <1>1, <1>2
  <1>4. [r EXCEPT !.amount = amount, !.unbonding = queue]
          = [[amount |-> amount, unbonding |-> r.unbonding] EXCEPT !.unbonding = queue]
    BY <1>3
  <1> QED BY <1>2, <1>3, <1>4

\* Every staker's stake and unbonding amount are amounts.
LEMMA HoldingsTyped ==
  ASSUME VaultInv, NEW a \in Staker
  PROVE  StakeOf(a) \in Nat /\ UnbondingOf(a) \in Nat
  BY StakeFields DEF StakeOf, UnbondingOf

\* One stake is replaced.
Moves(a, amount, queue) ==
  stakes' = [stakes EXCEPT ![a] = [amount |-> amount, unbonding |-> queue]]

LEMMA StakeAfter ==
  ASSUME VaultInv, NEW a \in Staker, NEW amount \in Nat, NEW queue \in [CompletionHeight -> Nat],
         Moves(a, amount, queue)
  PROVE  /\ stakes' \in [Staker -> StakeEntry \cup {None}]
         /\ StakeOf(a)' = amount /\ UnbondingOf(a)' = SumFunction(queue)
         /\ \A b \in Staker \ {a} : StakeOf(b)' = StakeOf(b) /\ UnbondingOf(b)' = UnbondingOf(b)
  <1> DEFINE new == [amount |-> amount, unbonding |-> queue]
  <1>1. new \in StakeEntry /\ new.amount = amount /\ new.unbonding = queue
    BY DEF StakeEntry
  <1>2. stakes' = [stakes EXCEPT ![a] = new]
    BY DEF Moves
  <1> HIDE DEF new
  <1>3. stakes' \in [Staker -> StakeEntry \cup {None}] /\ stakes'[a] = new /\ new # None
    BY <1>1, <1>2, NoneIsNothing DEF VaultInv
  <1>4. \A b \in Staker \ {a} : stakes'[b] = stakes[b]
    BY <1>2 DEF VaultInv
  <1> QED BY <1>1, <1>3, <1>4 DEF StakeOf, UnbondingOf

\* The counters account for a stake that was replaced.
Accounted(a, amount, queue) ==
  /\ putIn' \in Nat /\ released' \in Nat /\ slashed' \in Nat /\ chainHeight' = chainHeight
  /\ totalStaked' = totalStaked - StakeOf(a) + amount
  /\ putIn' - released' - slashed' - amount - SumFunction(queue)
       = putIn - released - slashed - StakeOf(a) - UnbondingOf(a)

\* Then the books stay balanced.
LEMMA BooksBalance ==
  ASSUME VaultInv, NEW a \in Staker, NEW amount \in Nat, NEW queue \in [CompletionHeight -> Nat],
         Moves(a, amount, queue), Accounted(a, amount, queue)
  PROVE  VaultInv'
  <1> DEFINE f == [b \in Staker |-> StakeOf(b)]
             g == [b \in Staker |-> UnbondingOf(b)]
             ff == [b \in Staker |-> StakeOf(b)']
             gg == [b \in Staker |-> UnbondingOf(b)']
             F == SumFunction(f)
             G == SumFunction(g)
             FF == SumFunction(ff)
             GG == SumFunction(gg)
             q == SumFunction(queue)
  <1>1. q \in Nat
    BY HeightsFinite, SumNat
  <1>2. /\ StakeOf(a)' = amount /\ UnbondingOf(a)' = q
        /\ \A b \in Staker \ {a} : StakeOf(b)' = StakeOf(b) /\ UnbondingOf(b)' = UnbondingOf(b)
        /\ stakes' \in [Staker -> StakeEntry \cup {None}]
    BY StakeAfter
  <1>3. \A b \in Staker : StakeOf(b) \in Nat /\ UnbondingOf(b) \in Nat
    BY HoldingsTyped
  <1>4. /\ f \in [Staker -> Int] /\ g \in [Staker -> Int] /\ ff \in [Staker -> Nat]
        /\ ff \in [Staker -> Int] /\ gg \in [Staker -> Int]
        /\ \A b \in Staker \ {a} : ff[b] = f[b] /\ gg[b] = g[b]
        /\ f[a] = StakeOf(a) /\ g[a] = UnbondingOf(a) /\ ff[a] = amount /\ gg[a] = q
    BY <1>1, <1>2, <1>3
  <1> HIDE DEF f, g, ff, gg
  <1>5. FF = F - StakeOf(a) + amount /\ GG = G - UnbondingOf(a) + q
    BY <1>4, StakersFinite, SumUpdate
  <1>6. F \in Int /\ G \in Int /\ FF \in Nat
    BY <1>4, StakersFinite, SumInt, SumNat
  <1>7. /\ totalStaked = F /\ putIn = totalStaked + G + released + slashed
        /\ totalStaked \in Nat /\ putIn \in Nat /\ released \in Nat /\ slashed \in Nat
    BY DEF VaultInv, StakeConserved, f, g
  <1>8. totalStaked' = FF /\ putIn' = totalStaked' + GG + released' + slashed'
    <2> DEFINE kept == putIn - released - slashed
               keptNext == putIn' - released' - slashed'
               x == StakeOf(a)
               y == UnbondingOf(a)
    <2>1. x \in Int /\ y \in Int /\ q \in Int
      BY <1>1, <1>3
    <2>2. FF \in Int /\ GG \in Int
      BY <1>4, StakersFinite, SumInt
    <2>3. /\ FF = F - x + amount /\ GG = G - y + q
          /\ keptNext - amount - q = kept - x - y
      BY <1>5 DEF Accounted
    <2>4. totalStaked' = FF
      <3>1. totalStaked' = F - x + amount
        BY <1>7 DEF Accounted
      <3> HIDE DEF F, FF, x
      <3> QED BY <2>3, <3>1
    <2>5. kept = F + G /\ kept \in Int
      <3> HIDE DEF F, G
      <3> QED BY <1>6, <1>7
    <2>6. keptNext \in Int /\ putIn' \in Int /\ released' \in Int /\ slashed' \in Int
      BY DEF Accounted
    <2>7. keptNext = FF + GG
      <3> HIDE DEF kept, keptNext, x, y, F, G, FF, GG, q
      <3> QED BY <1>6, <2>1, <2>2, <2>3, <2>5, <2>6
    <2>8. putIn' = keptNext + released' + slashed'
      <3> DEFINE p == putIn'  r == released'  z == slashed'
      <3>1. p \in Int /\ r \in Int /\ z \in Int
        BY <2>6
      <3> HIDE DEF p, r, z
      <3>2. p = p - r - z + r + z
        BY <3>1
      <3> QED BY <3>2 DEF p, r, z
    <2>9. putIn' = FF + GG + released' + slashed'
      <3> HIDE DEF keptNext, FF, GG
      <3> QED BY <2>7, <2>8
    <2> QED BY <2>4, <2>9
  <1>9. StakeConserved'
    BY <1>8 DEF StakeConserved, ff, gg
  <1> QED BY <1>2, <1>6, <1>8, <1>9 DEF VaultInv, Accounted

\* Locking a stake keeps the books.
LEMMA LockedBooks ==
  ASSUME VaultInv, NEW a \in Staker, NEW amount \in Nat, Locked(a, amount)
  PROVE  VaultInv' /\ \E queue \in [CompletionHeight -> Nat] : Moves(a, amount, queue)
  <1> DEFINE queue == [h \in CompletionHeight |-> 0]
  <1>1. queue \in [CompletionHeight -> Nat] /\ SumFunction(queue) = 0
    <2>1. queue \in [CompletionHeight -> Nat] /\ DOMAIN queue = CompletionHeight
          /\ \A h \in CompletionHeight : queue[h] = 0
      OBVIOUS
    <2> HIDE DEF queue
    <2> QED BY <2>1, HeightsFinite, SumZero
  <1>2. Moves(a, amount, queue)
    BY DEF Locked, Moves
  <1> HIDE DEF queue
  <1>3. StakeOf(a) = 0 /\ UnbondingOf(a) = 0
    BY DEF Locked, StakeOf, UnbondingOf
  <1>4. Accounted(a, amount, queue)
    BY <1>1, <1>3 DEF Locked, VaultInv, Accounted
  <1> QED BY <1>1, <1>2, <1>4, BooksBalance

\* So does slashing, which takes part of the stake.
LEMMA SlashedBooks ==
  ASSUME VaultInv, NEW a \in Staker, NEW bps \in Nat, Slashed(a, bps)
  PROVE  /\ VaultInv' /\ SlashAmount(a, bps) \in Nat /\ SlashAmount(a, bps) <= StakeOf(a)
         /\ \E queue \in [CompletionHeight -> Nat] :
              Moves(a, StakeOf(a) - SlashAmount(a, bps), queue)
  <1> DEFINE amount == stakes[a].amount
             queue == stakes[a].unbonding
             taken == SlashAmount(a, bps)
  <1>1. /\ stakes[a] \in StakeEntry /\ amount \in Nat /\ queue \in [CompletionHeight -> Nat]
        /\ StakeOf(a) = amount /\ UnbondingOf(a) = SumFunction(queue)
        /\ SumFunction(queue) \in Nat
    BY StakeFields DEF Slashed
  <1>2. taken \in Nat /\ taken <= amount
    <2> DEFINE effective == IF bps <= MaxSlashBps THEN bps ELSE MaxSlashBps
    <2>0. MaxSlashBps \in Nat /\ MaxSlashBps <= 10000
      BY StakeInputsTyped
    <2>1. effective \in Nat /\ effective <= 10000
      BY <2>0
    <2> HIDE DEF effective
    <2>2. (amount * effective) \div 10000 \in Nat /\ (amount * effective) \div 10000 <= amount
      BY <1>1, <2>1, SlashTakesPart
    <2> QED BY <2>2 DEF SlashAmount, effective
  <1>3. /\ stakes' = [stakes EXCEPT ![a].amount = amount - taken]
        /\ totalStaked' = totalStaked - taken /\ slashed' = slashed + taken
        /\ UNCHANGED <<chainHeight, putIn, released>>
    BY DEF Slashed, VaultInv
  <1> HIDE DEF taken
  <1>4. Moves(a, amount - taken, queue)
    BY <1>1, <1>3, StakeReplaced DEF VaultInv, Moves
  <1> HIDE DEF amount, queue
  <1>5. amount - taken \in Nat /\ Accounted(a, amount - taken, queue)
    BY <1>1, <1>2, <1>3 DEF VaultInv, Accounted
  <1>6. VaultInv'
    BY <1>1, <1>4, <1>5, BooksBalance
  <1> QED BY <1>1, <1>2, <1>4, <1>6 DEF taken

LEMMA AddStakeBooks ==
  ASSUME VaultInv, NEW a \in Staker, NEW amount \in Nat, AddStake(a, amount)
  PROVE  VaultInv' /\ \E new \in Nat, queue \in [CompletionHeight -> Nat] : Moves(a, new, queue)
  <1> DEFINE old == stakes[a].amount
             queue == stakes[a].unbonding
  <1>1. /\ stakes[a] \in StakeEntry /\ old \in Nat /\ queue \in [CompletionHeight -> Nat]
        /\ StakeOf(a) = old /\ UnbondingOf(a) = SumFunction(queue) /\ SumFunction(queue) \in Nat
    BY StakeFields DEF AddStake
  <1>2. /\ stakes' = [stakes EXCEPT ![a].amount = old + amount]
        /\ totalStaked' = totalStaked + amount /\ putIn' = putIn + amount
        /\ UNCHANGED <<chainHeight, released, slashed>>
    BY DEF AddStake, VaultInv
  <1>3. Moves(a, old + amount, queue)
    BY <1>1, <1>2, StakeReplaced DEF VaultInv, Moves
  <1> HIDE DEF old, queue
  <1>4. old + amount \in Nat /\ Accounted(a, old + amount, queue)
    BY <1>1, <1>2 DEF VaultInv, Accounted
  <1> QED BY <1>1, <1>3, <1>4, BooksBalance

\* What is taken out of the stake waits in the queue.
LEMMA BeginUnstakeBooks ==
  ASSUME VaultInv, NEW a \in Staker, NEW amount \in Nat, BeginUnstake(a, amount)
  PROVE  VaultInv' /\ \E new \in Nat, queue \in [CompletionHeight -> Nat] : Moves(a, new, queue)
  <1> DEFINE old == stakes[a].amount
             queue == stakes[a].unbonding
             when == chainHeight + UnbondingPeriod
             longer == [queue EXCEPT ![when] = queue[when] + amount]
  <1>1. /\ stakes[a] \in StakeEntry /\ old \in Nat /\ queue \in [CompletionHeight -> Nat]
        /\ StakeOf(a) = old /\ UnbondingOf(a) = SumFunction(queue) /\ SumFunction(queue) \in Nat
    BY StakeFields DEF BeginUnstake
  <1>2. when \in CompletionHeight
    BY StakeInputsTyped DEF VaultInv, CompletionHeight
  <1>3. /\ stakes' = [stakes EXCEPT ![a] = [stakes[a] EXCEPT !.amount = old - amount,
                                                              !.unbonding = longer]]
        /\ totalStaked' = totalStaked - amount /\ amount <= old
        /\ UNCHANGED <<chainHeight, putIn, released, slashed>>
    <2>1. stakes' = [stakes EXCEPT ![a].amount = old - amount,
                                   ![a].unbonding[when] = queue[when] + amount]
      BY DEF BeginUnstake, VaultInv
    <2>2. @ = [stakes EXCEPT ![a] = [stakes[a] EXCEPT !.amount = old - amount,
                                      !.unbonding[when] = queue[when] + amount]]
      BY <1>1 DEF VaultInv
    <2>3. [stakes[a] EXCEPT !.amount = old - amount, !.unbonding[when] = queue[when] + amount]
            = [stakes[a] EXCEPT !.amount = old - amount, !.unbonding = longer]
      BY <1>1 DEF StakeEntry
    <2> QED BY <2>1, <2>2, <2>3 DEF BeginUnstake
  <1>4. longer \in [CompletionHeight -> Nat] /\ longer[when] = queue[when] + amount
        /\ \A h \in CompletionHeight \ {when} : longer[h] = queue[h]
    BY <1>1, <1>2
  <1>5. SumFunction(longer) = SumFunction(queue) + amount
    <2> HIDE DEF queue, when, longer
    <2>1. queue \in [CompletionHeight -> Int] /\ longer \in [CompletionHeight -> Int]
      BY <1>1, <1>4
    <2>2. SumFunction(longer) = SumFunction(queue) - queue[when] + longer[when]
      BY <1>2, <1>4, <2>1, HeightsFinite, SumUpdate
    <2>3. queue[when] \in Nat
      BY <1>1, <1>2
    <2> QED BY <1>1, <1>4, <2>2, <2>3
  <1>6. Moves(a, old - amount, longer)
    <2> HIDE DEF old, longer
    <2>1. [stakes[a] EXCEPT !.amount = old - amount, !.unbonding = longer]
            = [amount |-> old - amount, unbonding |-> longer]
      BY <1>1, StakeReplaced
    <2> QED BY <1>3, <2>1 DEF Moves
  <1> HIDE DEF old, queue, when, longer
  <1>7. old - amount \in Nat /\ Accounted(a, old - amount, longer)
    BY <1>1, <1>3, <1>5 DEF VaultInv, Accounted
  <1> QED BY <1>4, <1>6, <1>7, BooksBalance

\* What is due leaves the queue, and the rest stays.
LEMMA CompleteUnbondingBooks ==
  ASSUME VaultInv, NEW a \in Staker, CompleteUnbonding(a)
  PROVE  VaultInv' /\ \E queue \in [CompletionHeight -> Nat] : Moves(a, StakeOf(a), queue)
  <1> DEFINE amount == stakes[a].amount
             queue == stakes[a].unbonding
             due == Due(queue)
             waiting == Waiting(queue)
  <1>1. /\ stakes[a] \in StakeEntry /\ amount \in Nat /\ queue \in [CompletionHeight -> Nat]
        /\ StakeOf(a) = amount /\ UnbondingOf(a) = SumFunction(queue)
        /\ SumFunction(queue) \in Nat
    BY StakeFields DEF CompleteUnbonding
  <1>2. /\ due \in [CompletionHeight -> Nat] /\ waiting \in [CompletionHeight -> Nat]
        /\ \A h \in CompletionHeight : queue[h] = due[h] + waiting[h]
    BY <1>1 DEF Due, Waiting
  <1>3. /\ stakes' = [stakes EXCEPT ![a].unbonding = waiting]
        /\ released' = released + SumFunction(due)
        /\ UNCHANGED <<totalStaked, chainHeight, putIn, slashed>>
    BY DEF CompleteUnbonding, VaultInv
  <1> HIDE DEF due, waiting
  <1>4. Moves(a, amount, waiting)
    BY <1>1, <1>3, StakeReplaced DEF VaultInv, Moves
  <1> HIDE DEF amount, queue
  <1>5. SumFunction(queue) = SumFunction(due) + SumFunction(waiting)
    <2>1. /\ queue \in [CompletionHeight -> Int] /\ due \in [CompletionHeight -> Int]
          /\ waiting \in [CompletionHeight -> Int]
      BY <1>1, <1>2
    <2> QED BY <1>2, <2>1, HeightsFinite, SumPlus
  <1>6. SumFunction(due) \in Nat /\ SumFunction(waiting) \in Nat
    BY <1>2, HeightsFinite, SumNat
  <1>7. Accounted(a, amount, waiting)
    BY <1>1, <1>3, <1>5, <1>6 DEF VaultInv, Accounted
  <1>8. VaultInv'
    BY <1>1, <1>2, <1>4, <1>7, BooksBalance
  <1> QED BY <1>1, <1>2, <1>4, <1>8

\* A validator that the engine writes down is one.
LEMMA ValidatorTyped ==
  ASSUME NEW a \in Staker, NEW stake \in Nat
  PROVE  /\ Validator(a, stake) \in ValidatorInfo /\ Validator(a, stake).address = a
         /\ Validator(a, stake).stake = stake /\ Validator(a, stake).weight = Weight(stake)
  <1>1. Weight(stake) \in Nat
    BY StakeInputsTyped DEF Weight
  <1> QED BY <1>1 DEF Validator, ValidatorInfo

\* What the engine holds of a validator follows the vault.
Follows(v) ==
  /\ v.address \notin movedDirectly => v.stake = StakeOf(v.address)
  /\ v.weight = Weight(v.stake)

Distinct(vs) == \A i, k \in DOMAIN vs : i # k => vs[i].address # vs[k].address

LEMMA FollowsVault ==
  EngineFollowsVault <=>
    Distinct(validators) /\ \A i \in DOMAIN validators : Follows(validators[i])
  BY DEF EngineFollowsVault, Distinct, Follows

\* Who follows still does when somebody else's stake changed, or nobody's.
LEMMA OthersFollow ==
  ASSUME VaultInv, NEW a \in Staker, NEW amount \in Nat, NEW queue \in [CompletionHeight -> Nat],
         Moves(a, amount, queue), movedDirectly \subseteq movedDirectly',
         NEW v \in ValidatorInfo, Follows(v), v.address # a
  PROVE  Follows(v)'
  <1>1. v.address \in Staker \ {a}
    BY DEF ValidatorInfo
  <1>2. StakeOf(v.address)' = StakeOf(v.address)
    BY <1>1, StakeAfter
  <1> QED BY <1>2 DEF Follows

\* The engine as it is, after a call to the vault that changed one staker's stake.
LEMMA DirectMoveFollows ==
  ASSUME StakingInv, NEW a \in Staker, NEW amount \in Nat,
         NEW queue \in [CompletionHeight -> Nat], Moves(a, amount, queue),
         UNCHANGED engineVars,
         movedDirectly' = movedDirectly \cup {a} \/ (amount = StakeOf(a) /\ UNCHANGED movedDirectly)
  PROVE  EngineTyped' /\ ProposerIsValidator' /\ EngineFollowsVault'
  <1>1. /\ validators' = validators /\ currentProposer' = currentProposer
        /\ \A i \in DOMAIN validators : validators[i] \in ValidatorInfo /\ Follows(validators[i])
        /\ Distinct(validators) /\ VaultInv /\ EngineTyped
        /\ validators \in Seq(ValidatorInfo)
    BY FollowsVault DEF StakingInv, EngineTyped, engineVars
  <1>2. ASSUME NEW v \in ValidatorInfo, Follows(v)
        PROVE  Follows(v)'
    <2>1. CASE v.address # a
      BY <1>1, <1>2, <2>1, OthersFollow
    <2>2. CASE v.address = a
      <3>1. StakeOf(a)' = amount
        BY <1>1, StakeAfter
      <3> QED BY <1>2, <2>2, <3>1 DEF Follows
    <2> QED BY <2>1, <2>2
  <1>3. \A i \in DOMAIN validators : Follows(validators[i])'
    <2>1. \A v : v \in ValidatorInfo /\ Follows(v) => Follows(v)'
      BY <1>2
    <2> QED BY <1>1, <2>1 DEF Follows
  <1>4. EngineFollowsVault'
    BY <1>1, <1>3 DEF EngineFollowsVault, Distinct, Follows
  <1>5. ProposerIsValidator'
    BY <1>1 DEF StakingInv, ProposerIsValidator, Position
  <1> QED BY <1>1, <1>4, <1>5 DEF EngineTyped

\* Where the validators that swap_remove leaves were before.
Source(i, m) == IF m = i THEN Len(validators) ELSE m

\* What swap_remove leaves are the other validators.
LEMMA LeftOver ==
  ASSUME validators \in Seq(ValidatorInfo), NEW i \in DOMAIN validators
  PROVE  /\ DOMAIN WithoutPosition(i) = 1 .. Len(validators) - 1
         /\ WithoutPosition(i) \in Seq(ValidatorInfo)
         /\ \A m \in DOMAIN WithoutPosition(i) :
              /\ Source(i, m) \in DOMAIN validators /\ Source(i, m) # i
              /\ WithoutPosition(i)[m] = validators[Source(i, m)]
              /\ \A k \in DOMAIN WithoutPosition(i) : Source(i, m) = Source(i, k) => m = k
  <1>1. /\ Len(validators) - 1 \in Nat /\ Len(validators) \in DOMAIN validators
        /\ DOMAIN validators = 1 .. Len(validators) /\ Len(validators) \in Nat
        /\ \A m \in 1 .. Len(validators) - 1 : m \in DOMAIN validators
        /\ \A m \in DOMAIN validators : validators[m] \in ValidatorInfo
    OBVIOUS
  <1>2. DOMAIN WithoutPosition(i) = 1 .. Len(validators) - 1
    BY DEF WithoutPosition
  <1>3. \A m \in 1 .. Len(validators) - 1 : WithoutPosition(i)[m] \in ValidatorInfo
    BY <1>1 DEF WithoutPosition
  <1>4. WithoutPosition(i) \in Seq(ValidatorInfo)
    BY <1>1, <1>3 DEF WithoutPosition
  <1>5. \A m \in 1 .. Len(validators) - 1 :
          /\ Source(i, m) \in DOMAIN validators /\ Source(i, m) # i
          /\ WithoutPosition(i)[m] = validators[Source(i, m)]
          /\ \A k \in 1 .. Len(validators) - 1 : Source(i, m) = Source(i, k) => m = k
    BY <1>1 DEF Source, WithoutPosition
  <1> QED BY <1>2, <1>4, <1>5

\* A validator whose place was not taken away is still there, at its place or at the one that
\* swap_remove filled.
LEMMA OthersStay ==
  ASSUME validators \in Seq(ValidatorInfo), NEW i \in DOMAIN validators,
         NEW k \in DOMAIN validators, k # i
  PROVE  \E m \in DOMAIN WithoutPosition(i) : WithoutPosition(i)[m] = validators[k]
  <1>1. Len(validators) \in Nat /\ DOMAIN validators = 1 .. Len(validators)
    OBVIOUS
  <1>2. DOMAIN WithoutPosition(i) = 1 .. Len(validators) - 1
    BY LeftOver
  <1>3. CASE k = Len(validators)
    <2>1. i \in 1 .. Len(validators) - 1
      BY <1>1, <1>3
    <2>2. WithoutPosition(i)[i] = validators[k]
      BY <1>3, <2>1 DEF WithoutPosition
    <2> QED BY <1>2, <2>1, <2>2
  <1>4. CASE k # Len(validators)
    <2>1. k \in 1 .. Len(validators) - 1
      BY <1>1, <1>4
    <2>2. WithoutPosition(i)[k] = validators[k]
      BY <2>1 DEF WithoutPosition
    <2> QED BY <1>2, <2>1, <2>2
  <1> QED BY <1>3, <1>4

\* A proposer that was picked is a validator.
LEMMA PickIsValidator ==
  ASSUME validators \in Seq(ValidatorInfo), CanPropose, NEW height
  PROVE  \E m \in DOMAIN validators : ProposerAt(height) = validators[m].address
  <1>1. Len(validators) \in DOMAIN validators
    BY StakeInputsTyped DEF CanPropose
  <1> DEFINE Ahead == {m \in DOMAIN validators : height % TotalVotingPower < Cumulative(m)}
             First == {m \in Ahead : \A k \in Ahead : m <= k}
  <1>2. ProposerAt(height) = IF First = {} THEN validators[Len(validators)].address
                             ELSE validators[CHOOSE m \in First : TRUE].address
    BY DEF ProposerAt
  <1>3. CASE First = {}
    BY <1>1, <1>2, <1>3
  <1>4. CASE First # {}
    <2>1. (CHOOSE m \in First : TRUE) \in First
      BY <1>4
    <2>2. (CHOOSE m \in First : TRUE) \in DOMAIN validators
      BY <2>1
    <2> HIDE DEF First
    <2> QED BY <1>2, <1>4, <2>2
  <1> QED BY <1>3, <1>4

\* A registration puts one validator at the end.
LEMMA RegisterKeepsInv ==
  ASSUME StakingInv, NEW a \in Staker, NEW amount \in Nat, RegisterValidator(a, amount)
  PROVE  StakingInv'
  <1> DEFINE new == Validator(a, amount)
             n == Len(validators)
  <1>1. /\ VaultInv /\ EngineTyped /\ validators \in Seq(ValidatorInfo)
        /\ n \in Nat /\ DOMAIN validators = 1 .. n
        /\ \A i \in DOMAIN validators : validators[i] \in ValidatorInfo /\ Follows(validators[i])
                                        /\ validators[i].address # a
        /\ Distinct(validators)
    BY FollowsVault DEF StakingInv, EngineTyped, RegisterValidator, Position
  <1>2. VaultInv' /\ \E queue \in [CompletionHeight -> Nat] : Moves(a, amount, queue)
    BY <1>1, LockedBooks DEF RegisterValidator
  <1>3. PICK queue \in [CompletionHeight -> Nat] : Moves(a, amount, queue)
    BY <1>2
  <1>4. /\ validators' = Append(validators, new) /\ currentProposer' = currentProposer
        /\ movedDirectly' = movedDirectly
    BY DEF RegisterValidator
  <1>5. /\ new \in ValidatorInfo /\ new.address = a /\ new.stake = amount
        /\ new.weight = Weight(amount)
    BY ValidatorTyped
  <1> HIDE DEF new
  <1>6. /\ validators' \in Seq(ValidatorInfo) /\ DOMAIN validators' = 1 .. n + 1
        /\ \A i \in 1 .. n : validators'[i] = validators[i]
        /\ validators'[n + 1] = new
    BY <1>1, <1>4, <1>5
  <1>7. StakeOf(a)' = amount
    BY <1>1, <1>3, StakeAfter
  <1>8. \A v \in ValidatorInfo : Follows(v) /\ v.address # a => Follows(v)'
    BY <1>1, <1>3, <1>4, OthersFollow
  <1>9. \A i \in DOMAIN validators' : Follows(validators[i])'
    <2>1. ASSUME NEW i \in 1 .. n
          PROVE  /\ validators'[i].address \notin movedDirectly' =>
                      validators'[i].stake = StakeOf(validators[i].address)'
                 /\ validators'[i].weight = Weight(validators'[i].stake)
      BY <1>1, <1>6, <1>8 DEF Follows
    <2>2. /\ validators'[n + 1].stake = StakeOf(a)'
          /\ validators'[n + 1].weight = Weight(validators'[n + 1].stake)
      BY <1>5, <1>6, <1>7
    <2> QED BY <1>1, <1>5, <1>6, <2>1, <2>2 DEF Follows
  <1>10. Distinct(validators')
    BY <1>1, <1>5, <1>6 DEF Distinct
  <1>11. EngineFollowsVault'
    BY <1>9, <1>10 DEF EngineFollowsVault, Distinct, Follows
  <1>12. ProposerIsValidator'
    BY <1>1, <1>4, <1>6 DEF StakingInv, ProposerIsValidator, Position
  <1> QED BY <1>1, <1>2, <1>4, <1>6, <1>11, <1>12 DEF StakingInv, EngineTyped

\* A removal takes one validator out, and the last one fills its place.
LEMMA RemoveKeepsInv ==
  ASSUME StakingInv, NEW a \in Staker, RemoveValidator(a)
  PROVE  StakingInv'
  <1>1. PICK i \in Position(a) :
          /\ validators' = WithoutPosition(i)
          /\ currentProposer' = IF currentProposer = a THEN None ELSE currentProposer
          /\ UNCHANGED <<stakes, totalStaked, chainHeight, stakeHistory>>
    BY DEF RemoveValidator
  <1>2. i \in DOMAIN validators /\ validators[i].address = a
    BY DEF Position
  <1>3. /\ validators \in Seq(ValidatorInfo) /\ VaultInv /\ EngineTyped
        /\ \A k \in DOMAIN validators : Follows(validators[k])
        /\ Distinct(validators) /\ UNCHANGED movedDirectly
    BY <1>1, FollowsVault DEF StakingInv, EngineTyped, stakeHistory
  <1>4. /\ validators' \in Seq(ValidatorInfo)
        /\ \A m \in DOMAIN validators' :
             /\ Source(i, m) \in DOMAIN validators /\ validators'[m] = validators[Source(i, m)]
             /\ \A k \in DOMAIN validators' : Source(i, m) = Source(i, k) => m = k
    BY <1>1, <1>2, <1>3, LeftOver
  <1>5. \A b : StakeOf(b)' = StakeOf(b) /\ UnbondingOf(b)' = UnbondingOf(b)
    BY <1>1 DEF StakeOf, UnbondingOf
  <1>6. VaultInv'
    BY <1>1, <1>3, <1>5 DEF VaultInv, StakeConserved, stakeHistory
  <1>7. EngineFollowsVault'
    <2>1. Distinct(validators')
      BY <1>3, <1>4 DEF Distinct
    <2>2. \A m \in DOMAIN validators' : Follows(validators[m])'
      BY <1>3, <1>4, <1>5 DEF Follows
    <2> QED BY <2>1, <2>2 DEF EngineFollowsVault, Distinct, Follows
  <1>8. ProposerIsValidator'
    <2>1. SUFFICES ASSUME currentProposer' # None
                   PROVE  \E m \in DOMAIN validators' : validators'[m].address = currentProposer'
      BY DEF ProposerIsValidator, Position
    <2>2. currentProposer' = currentProposer /\ currentProposer # a /\ currentProposer # None
      BY <1>1, <2>1
    <2>3. PICK k \in DOMAIN validators : validators[k].address = currentProposer
      BY <2>2 DEF StakingInv, ProposerIsValidator, Position
    <2>4. k # i
      BY <1>2, <2>2, <2>3
    <2>5. \E m \in DOMAIN WithoutPosition(i) : WithoutPosition(i)[m] = validators[k]
      BY <1>2, <1>3, <2>4, OthersStay
    <2> QED BY <1>1, <2>2, <2>3, <2>5
  <1> QED BY <1>1, <1>3, <1>4, <1>6, <1>7, <1>8 DEF StakingInv, EngineTyped

\* A slash through the engine lowers the copies of the slashed stake with it.
LEMMA SlashKeepsInv ==
  ASSUME StakingInv, NEW a \in Staker, NEW bps \in Nat, SlashValidator(a, bps)
  PROVE  StakingInv'
  <1> DEFINE taken == SlashAmount(a, bps)
             left == StakeOf(a) - taken
             lower(i) == Validator(a, Lowered(validators[i].stake, taken))
  <1>1. /\ validators \in Seq(ValidatorInfo) /\ VaultInv /\ EngineTyped
        /\ Distinct(validators) /\ UNCHANGED <<movedDirectly, currentProposer>>
        /\ \A i \in DOMAIN validators : validators[i] \in ValidatorInfo /\ Follows(validators[i])
    BY FollowsVault DEF StakingInv, EngineTyped, SlashValidator
  <1>2. /\ VaultInv' /\ taken \in Nat /\ taken <= StakeOf(a) /\ StakeOf(a) \in Nat
        /\ \E queue \in [CompletionHeight -> Nat] : Moves(a, left, queue)
    BY <1>1, SlashedBooks, HoldingsTyped DEF SlashValidator
  <1>3. PICK queue \in [CompletionHeight -> Nat] : Moves(a, left, queue)
    BY <1>2
  <1>4. /\ validators' = [i \in DOMAIN validators |->
             IF validators[i].address = a THEN lower(i) ELSE validators[i]]
    BY DEF SlashValidator
  <1> HIDE DEF taken
  <1>5. left \in Nat
    BY <1>2
  <1>6. \A i \in DOMAIN validators :
          LET stake == Lowered(validators[i].stake, taken)
          IN  /\ lower(i) \in ValidatorInfo /\ lower(i).address = a
              /\ lower(i).stake = stake /\ lower(i).weight = Weight(stake)
    <2>1. ASSUME NEW i \in DOMAIN validators
          PROVE  Lowered(validators[i].stake, taken) \in Nat
      <3>1. validators[i].stake \in Nat
        BY <1>1 DEF ValidatorInfo
      <3> QED BY <1>2, <3>1 DEF Lowered
    <2> QED BY <2>1, ValidatorTyped
  <1> HIDE DEF lower, left
  <1>7. /\ DOMAIN validators' = DOMAIN validators
        /\ \A i \in DOMAIN validators :
             /\ validators'[i] \in ValidatorInfo
             /\ validators'[i].address = validators[i].address
    BY <1>1, <1>4, <1>6
  <1>8. validators' \in Seq(ValidatorInfo)
    BY <1>1, <1>4, <1>7
  <1>9. StakeOf(a)' = left
    BY <1>1, <1>3, <1>5, StakeAfter
  <1>10. \A v \in ValidatorInfo : Follows(v) /\ v.address # a => Follows(v)'
    BY <1>1, <1>3, <1>5, OthersFollow
  <1>11. ASSUME NEW i \in DOMAIN validators
         PROVE  Follows(validators[i])'
    <2>1. CASE validators[i].address # a
      BY <1>1, <1>4, <1>10, <2>1 DEF Follows
    <2>2. CASE validators[i].address = a
      <3>1. validators'[i] = lower(i)
        BY <1>4, <2>2
      <3>2. ASSUME a \notin movedDirectly
            PROVE  Lowered(validators[i].stake, taken) = left
        BY <1>1, <1>2, <2>2, <3>2 DEF Follows, Lowered, left
      <3> QED BY <1>1, <1>6, <1>9, <3>1, <3>2 DEF Follows
    <2> QED BY <2>1, <2>2
  <1>12. EngineFollowsVault'
    BY <1>1, <1>7, <1>11 DEF EngineFollowsVault, Distinct, Follows
  <1>13. ProposerIsValidator'
    BY <1>1, <1>7 DEF StakingInv, ProposerIsValidator, Position
  <1> QED BY <1>1, <1>2, <1>8, <1>12, <1>13 DEF StakingInv, EngineTyped

\* StakingInv holds at the start, and every step keeps it.
LEMMA StakingInvariant == StakingInit /\ [][StakingNext]_stakingVars => []StakingInv
  <1>1. ASSUME StakingInit PROVE StakingInv
    <2> DEFINE f == [b \in Staker |-> StakeOf(b)]
               g == [b \in Staker |-> UnbondingOf(b)]
    <2>1. /\ DOMAIN f = Staker /\ \A b \in Staker : f[b] = 0
          /\ DOMAIN g = Staker /\ \A b \in Staker : g[b] = 0
      BY <1>1 DEF StakingInit, StakeOf, UnbondingOf
    <2>2. SumFunction(f) = 0 /\ SumFunction(g) = 0
      <3> HIDE DEF f, g
      <3> QED BY <2>1, StakersFinite, SumZero
    <2>3. VaultInv
      BY <1>1, <2>2, StakeInputsTyped DEF StakingInit, VaultInv, StakeConserved
    <2> QED BY <1>1, <2>3 DEF StakingInit, StakingInv, EngineTyped, ProposerIsValidator,
          EngineFollowsVault
  <1>2. ASSUME StakingInv, [StakingNext]_stakingVars
        PROVE  StakingInv'
    <2> USE <1>2
    <2>0. VaultInv /\ EngineTyped
      BY DEF StakingInv
    <2>1. CASE UNCHANGED <<stakes, totalStaked, putIn, released, slashed>>
               /\ chainHeight' \in 0 .. MaxChainHeight
               /\ UNCHANGED <<validators, currentProposer, movedDirectly>>
      <3>1. \A b : StakeOf(b)' = StakeOf(b) /\ UnbondingOf(b)' = UnbondingOf(b)
        BY <2>1 DEF StakeOf, UnbondingOf
      <3>2. VaultInv'
        BY <2>0, <2>1, <3>1 DEF VaultInv, StakeConserved
      <3> QED BY <2>1, <3>1, <3>2 DEF StakingInv, EngineTyped, ProposerIsValidator, Position,
            EngineFollowsVault
    <2>2. CASE ChainGrows \/ UNCHANGED stakingVars
      <3>1. chainHeight' \in 0 .. MaxChainHeight
        BY <2>0, <2>2, StakeInputsTyped DEF VaultInv, ChainGrows, stakingVars
      <3> QED BY <2>1, <2>2, <3>1 DEF ChainGrows, stakingVars, engineVars, stakeHistory
    <2>3. ASSUME NEW a \in Staker, NEW amount \in StakeAmounts,
                 Stake(a, amount) \/ AddStake(a, amount) \/ BeginUnstake(a, amount)
          PROVE  StakingInv'
      <3>1. amount \in Nat /\ movedDirectly' = movedDirectly \cup {a} /\ UNCHANGED engineVars
        BY <2>3, StakeInputsTyped DEF Stake, AddStake, BeginUnstake
      <3>2. VaultInv' /\ \E new \in Nat, queue \in [CompletionHeight -> Nat] :
                           Moves(a, new, queue)
        BY <2>0, <2>3, <3>1, LockedBooks, AddStakeBooks, BeginUnstakeBooks DEF Stake
      <3> QED BY <3>1, <3>2, DirectMoveFollows DEF StakingInv
    <2>4. ASSUME NEW a \in Staker, NEW amount \in StakeAmounts, RegisterValidator(a, amount)
          PROVE  StakingInv'
      BY <2>4, RegisterKeepsInv, StakeInputsTyped
    <2>5. ASSUME NEW a \in Staker, CompleteUnbonding(a)
          PROVE  StakingInv'
      <3>1. VaultInv' /\ \E queue \in [CompletionHeight -> Nat] : Moves(a, StakeOf(a), queue)
        BY <2>0, <2>5, CompleteUnbondingBooks
      <3>2. StakeOf(a) \in Nat /\ UNCHANGED engineVars /\ UNCHANGED movedDirectly
        BY <2>0, <2>5, HoldingsTyped DEF CompleteUnbonding
      <3> QED BY <3>1, <3>2, DirectMoveFollows DEF StakingInv
    <2>6. ASSUME NEW a \in Staker, RemoveValidator(a)
          PROVE  StakingInv'
      BY <2>6, RemoveKeepsInv
    <2>7. ASSUME NEW a \in Staker, NEW bps \in SlashBps, Slash(a, bps)
          PROVE  StakingInv'
      <3>1. bps \in Nat /\ movedDirectly' = movedDirectly \cup {a} /\ UNCHANGED engineVars
        BY <2>7, StakeInputsTyped DEF Slash
      <3>2. /\ VaultInv' /\ StakeOf(a) - SlashAmount(a, bps) \in Nat
            /\ \E queue \in [CompletionHeight -> Nat] :
                 Moves(a, StakeOf(a) - SlashAmount(a, bps), queue)
        BY <2>0, <2>7, <3>1, SlashedBooks, HoldingsTyped DEF Slash
      <3> HIDE DEF SlashAmount, StakeOf
      <3> QED BY <3>1, <3>2, DirectMoveFollows DEF StakingInv
    <2>8. ASSUME NEW a \in Staker, NEW bps \in SlashBps, SlashValidator(a, bps)
          PROVE  StakingInv'
      BY <2>8, SlashKeepsInv, StakeInputsTyped
    <2>9. ASSUME NEW height, SelectProposer(height)
          PROVE  StakingInv'
      <3>1. PICK m \in DOMAIN validators : ProposerAt(height) = validators[m].address
        BY <2>0, <2>9, PickIsValidator DEF SelectProposer, EngineTyped
      <3>2. /\ currentProposer' = validators[m].address
            /\ UNCHANGED <<stakes, totalStaked, validators, chainHeight, stakeHistory>>
        BY <2>9, <3>1 DEF SelectProposer
      <3>3. validators[m].address \in Staker
        <4>1. validators[m] \in ValidatorInfo
          BY <2>0 DEF EngineTyped
        <4> QED BY <4>1 DEF ValidatorInfo
      <3>4. \A b : StakeOf(b)' = StakeOf(b) /\ UnbondingOf(b)' = UnbondingOf(b)
        BY <3>2 DEF StakeOf, UnbondingOf
      <3>5. VaultInv'
        BY <2>0, <3>2, <3>4 DEF VaultInv, StakeConserved, stakeHistory
      <3>6. EngineFollowsVault'
        BY <3>2, <3>4 DEF StakingInv, EngineFollowsVault, stakeHistory
      <3>7. ProposerIsValidator'
        BY <3>2 DEF ProposerIsValidator, Position
      <3> QED BY <2>0, <3>2, <3>3, <3>5, <3>6, <3>7 DEF StakingInv, EngineTyped, stakeHistory
    <2> QED BY <2>2, <2>3, <2>4, <2>5, <2>6, <2>7, <2>8, <2>9 DEF StakingNext
  <1> QED BY <1>1, <1>2, PTL

\* Whoever is the current proposer is a validator, after any registrations, removals and
\* slashes (pos/engine.rs:84).
THEOREM ProposerIsAlwaysValidator == StakingSpec => []ProposerIsValidator
  <1>1. StakingInv => ProposerIsValidator
    BY DEF StakingInv
  <1> QED BY <1>1, StakingInvariant, PTL DEF StakingSpec

\* Every token staked is in somebody's stake, unbonding, released or slashed, and the total
\* that the vault keeps is the sum of the stakes (staking.rs:117, 170, 195, 240).
THEOREM StakesAreConserved == StakingSpec => []StakeConserved
  <1>1. StakingInv => StakeConserved
    BY DEF StakingInv, VaultInv
  <1> QED BY <1>1, StakingInvariant, PTL DEF StakingSpec

\* The engine's copy of a stake is the vault's, after any slashes and removals, for every
\* validator whose stake nobody changed in the vault directly (pos/engine.rs:226).
THEOREM EngineKeepsUp == StakingSpec => []EngineFollowsVault
  <1>1. StakingInv => EngineFollowsVault
    BY DEF StakingInv
  <1> QED BY <1>1, StakingInvariant, PTL DEF StakingSpec

LEMMA ModOf ==
  ASSUME NEW t \in Nat, t # 0, NEW q \in Nat, NEW s \in 0 .. t - 1
  PROVE  (q * t + s) % t = s
  <1> DEFINE n == q * t + s
  <1>1. n \in Nat
    OBVIOUS
  <1>2. n = (n \div t) * t + (n % t) /\ n % t \in 0 .. t - 1 /\ n \div t \in Nat
    <2> HIDE DEF n
    <2> QED BY <1>1, QuotientAndRest
  <1> DEFINE d == n \div t  r == n % t
  <1>3. d * t + r = q * t + s /\ d \in Nat /\ r \in 0 .. t - 1
    BY <1>2
  <1> HIDE DEF d, r
  <1>4. r = s
    BY <1>3, DivUnique
  <1> QED BY <1>4 DEF r

\* Of any t numbers in a row, as many have their remainder between lo and hi as there are
\* remainders between them.
LEMMA RemaindersInWindow ==
  ASSUME NEW t \in Nat, t # 0, NEW first \in Nat, NEW lo \in 0 .. t, NEW hi \in lo .. t
  PROVE  Cardinality({h \in first .. first + t - 1 : lo <= h % t /\ h % t < hi}) = hi - lo
  <1> DEFINE H == {h \in first .. first + t - 1 : lo <= h % t /\ h % t < hi}
             S == lo .. hi - 1
             rem == [h \in H |-> h % t]
             start == first % t
             turns == first \div t
  <1>1. /\ start \in 0 .. t - 1 /\ turns \in Nat /\ first = turns * t + start
        /\ turns * t \in Nat
    <2>1. start \in 0 .. t - 1 /\ turns \in Nat /\ first = turns * t + start
      BY QuotientAndRest
    <2> HIDE DEF start, turns
    <2> QED BY <2>1
  <1>2. \A h \in H : h \in Nat /\ h % t \in S
    <2>1. \A h \in H : h \in Nat /\ h % t \in 0 .. t - 1
      BY QuotientAndRest
    <2> QED BY <2>1
  <1>3. rem \in Injection(H, S)
    <2>1. ASSUME NEW g \in H, NEW h \in H, g % t = h % t, g < h
          PROVE  FALSE
      <3> DEFINE p == g \div t  q == h \div t  r == g % t
      <3>1. /\ g = p * t + r /\ h = q * t + r /\ p \in Nat /\ q \in Nat /\ r \in 0 .. t - 1
            /\ g \in Nat /\ h \in Nat /\ h - g < t
        <4>1. g \in Nat /\ h \in Nat /\ h - g < t
          BY <1>2
        <4>2. g = p * t + r /\ p \in Nat /\ r \in 0 .. t - 1
          BY <4>1, QuotientAndRest
        <4>3. h = q * t + (h % t) /\ q \in Nat
          BY <4>1, QuotientAndRest
        <4>4. h % t = r
          BY <2>1
        <4> HIDE DEF p, q, r
        <4> QED BY <4>1, <4>2, <4>3, <4>4
      <3> HIDE DEF p, q, r
      <3>2. p * t \in Nat /\ q * t \in Nat
        BY <3>1
      <3>3. p < q => p * t + t <= q * t
        BY <3>1, MultiplesApart
      <3>4. q < p => q * t + t <= p * t
        BY <3>1, MultiplesApart
      <3>5. p = q \/ p < q \/ q < p
        BY <3>1
      <3> QED BY <2>1, <3>1, <3>2, <3>3, <3>4, <3>5
    <2>2. \A g, h \in H : rem[g] = rem[h] => g = h
      <3>1. \A g, h \in H : g < h \/ h < g \/ g = h
        BY <1>2
      <3>2. \A h \in H : rem[h] = h % t
        OBVIOUS
      <3> HIDE DEF H, rem
      <3> QED BY <2>1, <3>1, <3>2
    <2>3. rem \in [H -> S]
      BY <1>2
    <2> QED BY <2>2, <2>3 DEF Injection, IsInjective
  <1>4. rem \in Surjection(H, S)
    <2>1. ASSUME NEW s \in S
          PROVE  \E h \in H : rem[h] = s
      <3>0. s \in 0 .. t - 1 /\ s \in Nat
        OBVIOUS
      <3> HIDE DEF start, turns
      <3>1. CASE s >= start
        <4> DEFINE h == turns * t + s
        <4>1. h % t = s
          BY <1>1, <3>0, ModOf
        <4>2. h \in first .. first + t - 1
          BY <1>1, <3>0, <3>1
        <4> HIDE DEF h
        <4>3. h \in H /\ rem[h] = s
          BY <4>1, <4>2
        <4> QED BY <4>3
      <3>2. CASE s < start
        <4> DEFINE h == (turns + 1) * t + s
        <4>1. h % t = s
          BY <1>1, <3>0, ModOf
        <4>2. (turns + 1) * t = turns * t + t
          BY <1>1
        <4>3. h \in first .. first + t - 1
          BY <1>1, <3>0, <3>2, <4>2
        <4> HIDE DEF h
        <4>4. h \in H /\ rem[h] = s
          BY <4>1, <4>3
        <4> QED BY <4>4
      <3>3. s >= start \/ s < start
        BY <1>1, <3>0
      <3> QED BY <3>1, <3>2, <3>3
    <2>2. rem \in [H -> S]
      BY <1>2
    <2> QED BY <2>1, <2>2 DEF Surjection
  <1>5. IsFiniteSet(S) /\ Cardinality(S) = hi - lo
    <2>1. CASE lo = hi
      <3>1. S = {}
        BY <2>1
      <3> QED BY <2>1, <3>1, FS_EmptySet
    <2>2. CASE lo < hi
      BY <2>2, FS_Interval
    <2> QED BY <2>1, <2>2
  <1>6. Cardinality(H) = Cardinality(S)
    <2> HIDE DEF H, S, rem
    <2> QED BY <1>3, <1>4, <1>5, FS_Injection
  <1> QED BY <1>5, <1>6

\* The slots of the first validators, one after the other.
LEMMA CumulativeGrows ==
  ASSUME validators \in Seq(ValidatorInfo)
  PROVE  /\ Cumulative(0) = 0
         /\ \A i \in 0 .. Len(validators) : Cumulative(i) \in Nat
         /\ \A i \in DOMAIN validators :
              validators[i].weight \in Nat
              /\ Cumulative(i) = Cumulative(i - 1) + validators[i].weight
  <1> DEFINE Part(i) == [k \in 1 .. i |-> validators[k].weight]
  <1>1. /\ Len(validators) \in Nat /\ DOMAIN validators = 1 .. Len(validators)
        /\ \A i \in DOMAIN validators : validators[i].weight \in Nat
    <2>1. \A i \in DOMAIN validators : validators[i] \in ValidatorInfo
      OBVIOUS
    <2> QED BY <2>1 DEF ValidatorInfo
  <1>2. ASSUME NEW i \in 0 .. Len(validators)
        PROVE  IsFiniteSet(1 .. i) /\ Part(i) \in [1 .. i -> Nat]
    <2>1. i \in Int /\ 1 \in Int
      BY <1>1
    <2>2. IsFiniteSet(1 .. i)
      BY <2>1, FS_Interval
    <2>3. \A k \in 1 .. i : validators[k].weight \in Nat
      BY <1>1
    <2> QED BY <2>2, <2>3
  <1>3. \A i \in 0 .. Len(validators) : Cumulative(i) \in Nat
    <2> SUFFICES ASSUME NEW i \in 0 .. Len(validators) PROVE Cumulative(i) \in Nat
      OBVIOUS
    <2>1. IsFiniteSet(1 .. i) /\ Part(i) \in [1 .. i -> Nat] /\ Cumulative(i) = SumFunction(Part(i))
      BY <1>2 DEF Cumulative
    <2> HIDE DEF Part
    <2> QED BY <2>1, SumNat
  <1>4. Cumulative(0) = 0
    <2>1. 1 .. 0 = {} /\ DOMAIN Part(0) = {} /\ Cumulative(0) = SumFunction(Part(0))
      BY DEF Cumulative
    <2> HIDE DEF Part
    <2> QED BY <2>1, FS_EmptySet, SumZero
  <1>5. ASSUME NEW i \in DOMAIN validators
        PROVE  Cumulative(i) = Cumulative(i - 1) + validators[i].weight
    <2>1. /\ i - 1 \in 0 .. Len(validators) /\ i \notin 1 .. i - 1
          /\ (1 .. i - 1) \cup {i} = 1 .. i /\ i \in Nat
      BY <1>1
    <2> DEFINE S == 1 .. i - 1
               f == Part(i - 1)
               g == Part(i)
    <2>2. /\ IsFiniteSet(S) /\ f \in [S -> Int] /\ g \in [S \cup {i} -> Int] /\ i \notin S
          /\ g[i] = validators[i].weight /\ \A k \in S : g[k] = f[k]
      BY <1>1, <1>2, <2>1
    <2>3. Cumulative(i) = SumFunction(g) /\ Cumulative(i - 1) = SumFunction(f)
      BY DEF Cumulative
    <2> HIDE DEF f, g, S
    <2>4. SumFunction(g) = SumFunction(f) + g[i]
      <3> DEFINE more == S \cup {i}
      <3>1. IsFiniteSet(more) /\ i \in more /\ more \ {i} = S
        BY <2>2, FS_AddElement
      <3>2. DOMAIN g = more /\ DOMAIN f = S /\ g \in [more -> Int]
        BY <2>2
      <3> HIDE DEF more
      <3>3. SumFunctionOnSet(g, more) = g[i] + SumFunctionOnSet(g, more \ {i})
        BY <3>1, <3>2, SumOnTakeOut
      <3>4. SumFunctionOnSet(g, S) = SumFunctionOnSet(f, S)
        BY <2>2, SumOnAgree
      <3>5. SumFunctionOnSet(f, S) \in Int /\ g[i] \in Int
        BY <2>2, <3>1, <3>2, SumOnInt
      <3>6. SumFunction(g) = SumFunctionOnSet(g, more) /\ SumFunction(f) = SumFunctionOnSet(f, S)
        BY <3>2, Zenon DEF SumFunction
      <3>7. SumFunctionOnSet(g, more) = g[i] + SumFunctionOnSet(f, S)
        BY <3>1, <3>3, <3>4, Zenon
      <3> DEFINE before == SumFunctionOnSet(f, S)
                 weight == g[i]
      <3>8. weight + before = before + weight
        <4>1. weight \in Int /\ before \in Int
          BY <3>5
        <4> HIDE DEF weight, before
        <4> QED BY <4>1
      <3> QED BY <3>6, <3>7, <3>8, Zenon
    <2> QED BY <2>2, <2>3, <2>4
  <1> QED BY <1>1, <1>3, <1>4, <1>5

LEMMA CumulativeOrdered ==
  ASSUME validators \in Seq(ValidatorInfo), NEW i \in 0 .. Len(validators),
         NEW k \in i .. Len(validators)
  PROVE  Cumulative(i) <= Cumulative(k)
  <1> DEFINE n == Len(validators)
             Bad == {m \in i .. n : ~(Cumulative(i) <= Cumulative(m))}
  <1>1. /\ n \in Nat /\ DOMAIN validators = 1 .. n
        /\ \A m \in 0 .. n : Cumulative(m) \in Nat
        /\ \A m \in 1 .. n : validators[m].weight \in Nat
                              /\ Cumulative(m) = Cumulative(m - 1) + validators[m].weight
    BY CumulativeGrows
  <1> HIDE DEF n
  <1>2. ASSUME Bad # {}
        PROVE  FALSE
    <2>1. Bad \in SUBSET Nat
      BY <1>1 DEF n
    <2>2. PICK m \in Bad : \A l \in Bad : m <= l
      <3> HIDE DEF Bad
      <3> QED BY <1>2, <2>1, LeastNat
    <2>3. m \in i .. n /\ ~(Cumulative(i) <= Cumulative(m)) /\ m # i /\ i \in 0 .. n
      BY <1>1 DEF n
    <2>4. m \in 1 .. n /\ m - 1 \in i .. n /\ m - 1 \in 0 .. n /\ m - 1 \notin Bad
      BY <1>1, <2>2, <2>3
    <2>5. Cumulative(i) <= Cumulative(m - 1)
      BY <2>4
    <2> DEFINE x == Cumulative(i)  y == Cumulative(m - 1)  z == Cumulative(m)
               w == validators[m].weight
    <2>6. x <= y /\ z = y + w /\ x \in Nat /\ y \in Nat /\ w \in Nat /\ ~(x <= z)
      BY <1>1, <2>3, <2>4, <2>5
    <2> HIDE DEF x, y, z, w
    <2> QED BY <2>6
  <1> QED BY <1>2 DEF n

\* The slot of a height belongs to one validator, whom the walk finds.
LEMMA SlotHasOwner ==
  ASSUME validators \in Seq(ValidatorInfo), CanPropose, NEW height \in Nat
  PROVE  \E i \in DOMAIN validators :
           /\ ProposerAt(height) = validators[i].address
           /\ Cumulative(i - 1) <= height % TotalVotingPower
           /\ height % TotalVotingPower < Cumulative(i)
  <1> DEFINE n == Len(validators)
             slot == height % TotalVotingPower
             Ahead == {i \in DOMAIN validators : slot < Cumulative(i)}
             First == {i \in Ahead : \A k \in Ahead : i <= k}
  <1>1. /\ n \in Nat /\ n # 0 /\ DOMAIN validators = 1 .. n
        /\ Cumulative(0) = 0 /\ \A i \in 0 .. n : Cumulative(i) \in Nat
    BY CumulativeGrows, StakeInputsTyped DEF CanPropose
  <1>2. TotalVotingPower = Cumulative(n) /\ TotalVotingPower \in Nat /\ TotalVotingPower # 0
    BY <1>1 DEF TotalVotingPower, CanPropose
  <1>3. slot \in Nat /\ slot < Cumulative(n)
    <2>1. slot \in 0 .. TotalVotingPower - 1
      BY <1>2, QuotientAndRest
    <2> QED BY <1>2, <2>1
  <1> HIDE DEF slot, n
  <1>4. Ahead \in SUBSET Nat /\ Ahead # {}
    BY <1>1, <1>3
  <1>5. First # {}
    <2>1. \E i \in Ahead : \A k \in Ahead : i <= k
      <3> HIDE DEF Ahead
      <3> QED BY <1>4, LeastNat
    <2> QED BY <2>1
  <1> DEFINE i == CHOOSE m \in First : TRUE
  <1>6. i \in First
    BY <1>5
  <1>7. ProposerAt(height) = validators[i].address
    BY <1>5 DEF ProposerAt, slot
  <1> HIDE DEF i
  <1>8. /\ i \in 1 .. n /\ slot < Cumulative(i) /\ \A k \in 1 .. n : slot < Cumulative(k) => i <= k
    BY <1>1, <1>6
  <1>9. Cumulative(i - 1) <= slot
    <2>1. CASE i = 1
      BY <1>1, <1>3, <2>1
    <2>2. CASE i # 1
      <3>1. i - 1 \in 1 .. n /\ i - 1 \in 0 .. n /\ ~(i <= i - 1)
        BY <1>1, <1>8, <2>2
      <3>2. ~(slot < Cumulative(i - 1))
        BY <1>8, <3>1
      <3>3. Cumulative(i - 1) \in Nat
        BY <1>1, <3>1
      <3> QED BY <1>3, <3>2, <3>3
    <2> QED BY <2>1, <2>2
  <1> QED BY <1>1, <1>7, <1>8, <1>9 DEF slot

\* As long as the set of validators stays the same, each proposes its weight's worth of any
\* total-weight blocks in a row (pos/engine.rs:117-126), for every number of validators and
\* all weights.
THEOREM RotationIsFair == StakingSpec => []RoundRobinIsFair
  <1>1. ASSUME StakingInv, CanPropose, NEW i \in DOMAIN validators,
               NEW first \in 0 .. TotalVotingPower
        PROVE  Cardinality({h \in first .. first + TotalVotingPower - 1 :
                 ProposerAt(h) = validators[i].address}) = validators[i].weight
    <2> DEFINE T == TotalVotingPower
               lo == Cumulative(i - 1)
               hi == Cumulative(i)
               n == Len(validators)
    <2>1. validators \in Seq(ValidatorInfo) /\ Distinct(validators)
      BY <1>1, FollowsVault DEF StakingInv, EngineTyped
    <2>2. /\ n \in Nat /\ DOMAIN validators = 1 .. n
          /\ \A k \in 0 .. n : Cumulative(k) \in Nat
          /\ validators[i].weight \in Nat /\ hi = lo + validators[i].weight
      BY <2>1, CumulativeGrows
    <2>3. T = Cumulative(n) /\ T \in Nat /\ T # 0 /\ first \in Nat
      BY <1>1, <2>2 DEF TotalVotingPower, CanPropose
    <2>4. i - 1 \in 0 .. n /\ i \in 0 .. n /\ n \in i .. n
      BY <2>2
    <2>5. hi <= T
      BY <2>1, <2>3, <2>4, CumulativeOrdered
    <2>6. lo \in Nat /\ hi \in Nat
      BY <2>2, <2>4
    <2>7. lo \in 0 .. T /\ hi \in lo .. T
      <3> HIDE DEF lo, hi, T
      <3> QED BY <2>2, <2>3, <2>5, <2>6
    <2>8. ASSUME NEW h \in first .. first + T - 1
          PROVE  ProposerAt(h) = validators[i].address <=> lo <= h % T /\ h % T < hi
      <3>1. h \in Nat
        BY <2>3
      <3>2. PICK k \in DOMAIN validators :
              /\ ProposerAt(h) = validators[k].address
              /\ Cumulative(k - 1) <= h % T /\ h % T < Cumulative(k)
        BY <1>1, <2>1, <3>1, SlotHasOwner
      <3>3. h % T \in Nat
        <4>1. h % T \in 0 .. T - 1
          BY <2>3, <3>1, QuotientAndRest
        <4> QED BY <4>1
      <3>4. k \in 1 .. n /\ i \in 1 .. n /\ k - 1 \in 0 .. n
        BY <2>2
      <3>5. CASE k = i
        BY <3>2, <3>5
      <3>6. CASE k # i
        <4>1. ProposerAt(h) # validators[i].address
          BY <2>1, <3>2, <3>6 DEF Distinct
        <4>2. CASE k < i
          <5>1. i - 1 \in k .. n /\ k \in 0 .. n
            BY <2>2, <3>4, <4>2
          <5>2. Cumulative(k) <= lo /\ Cumulative(k) \in Nat
            BY <2>1, <2>2, <5>1, CumulativeOrdered
          <5>3. ~(lo <= h % T)
            <6> HIDE DEF lo
            <6> QED BY <2>6, <3>2, <3>3, <5>2
          <5> QED BY <4>1, <5>3
        <4>3. CASE i < k
          <5>1. k - 1 \in i .. n
            BY <2>2, <3>4, <4>3
          <5>2. hi <= Cumulative(k - 1) /\ Cumulative(k - 1) \in Nat
            BY <2>1, <2>2, <2>4, <3>4, <5>1, CumulativeOrdered
          <5>3. ~(h % T < hi)
            <6> HIDE DEF hi
            <6> QED BY <2>6, <3>2, <3>3, <5>2
          <5> QED BY <4>1, <5>3
        <4> QED BY <2>2, <3>4, <3>6, <4>2, <4>3
      <3> QED BY <3>5, <3>6
    <2>9. {h \in first .. first + T - 1 : ProposerAt(h) = validators[i].address}
            = {h \in first .. first + T - 1 : lo <= h % T /\ h % T < hi}
      BY <2>8
    <2> HIDE DEF lo, hi, T
    <2>10. Cardinality({h \in first .. first + T - 1 : lo <= h % T /\ h % T < hi}) = hi - lo
      BY <2>3, <2>7, RemaindersInWindow
    <2>11. hi - lo = validators[i].weight
      BY <2>2, <2>6
    <2> QED BY <2>9, <2>10, <2>11 DEF T
  <1>2. StakingInv => RoundRobinIsFair
    BY <1>1 DEF RoundRobinIsFair
  <1> QED BY <1>2, StakingInvariant, PTL DEF StakingSpec

----------------------------------------------------------------------------
(* Block sync *)

\* A request's next block is one of its blocks, and no request goes beyond the best peer.
SyncInv ==
  /\ SyncTypeOK /\ bestPeerHeight <= MaxPeerHeight
  /\ \A r \in underWay : r.next <= r.last

\* Of more heights than there are pending requests, one is free: the walk ends, at a height
\* beyond the chain's.
LEMMA CandidateIsFree ==
  ASSUME SyncInv, NEW batch \in BatchSizes
  PROVE  Candidate(batch) \in Nat /\ Candidate(batch) > localHeight
  <1> DEFINE n == Cardinality(pendingRequests)
             Starts == {localHeight + 1 + k * batch : k \in 0 .. n}
             Free == Starts \ pendingRequests
  <1>1. IsFiniteSet(pendingRequests)
    <2>1. IsFiniteSet(1 .. MaxPeerHeight)
      BY FS_Interval, BatchesTyped
    <2> QED BY <2>1, FS_Subset DEF SyncInv, SyncTypeOK
  <1>2. n \in Nat /\ localHeight \in Nat /\ batch \in Nat /\ batch # 0
    BY <1>1, FS_CardinalityType, BatchesTyped DEF SyncInv, SyncTypeOK
  <1> HIDE DEF n
  <1>3. \A k \in 0 .. n : k * batch \in Nat
    BY <1>2
  <1>4. \A h \in Starts : h \in Nat /\ h > localHeight
    BY <1>2, <1>3
  <1>5. Free # {}
    <2>1. SUFFICES ASSUME Starts \subseteq pendingRequests PROVE FALSE
      OBVIOUS
    <2> DEFINE walk == [k \in 0 .. n |-> localHeight + 1 + k * batch]
    <2>3. \A i, k \in 0 .. n : i # k => i * batch # k * batch
      <3>1. ASSUME NEW i \in 0 .. n, NEW k \in 0 .. n, i < k
            PROVE  i * batch # k * batch
        <4> DEFINE d == k - i
        <4>1. d \in Nat /\ d >= 1 /\ k = i + d /\ i \in Nat
          BY <1>2, <3>1
        <4> HIDE DEF d
        <4>2. k * batch = i * batch + d * batch /\ i * batch \in Nat
          BY <1>2, <4>1
        <4>3. d * batch >= 1 /\ d * batch \in Nat
          BY <1>2, <4>1
        <4> QED BY <4>2, <4>3
      <3> QED BY <1>2, <3>1
    <2>4. walk \in Injection(0 .. n, pendingRequests)
      <3>1. \A i, k \in 0 .. n : walk[i] = walk[k] => i = k
        BY <1>2, <1>3, <2>3
      <3>2. walk \in [0 .. n -> pendingRequests]
        BY <2>1
      <3> QED BY <3>1, <3>2 DEF Injection, IsInjective
    <2>5. Cardinality(0 .. n) = n + 1
      BY <1>2, FS_Interval
    <2>6. Cardinality(0 .. n) <= Cardinality(pendingRequests)
      <3> HIDE DEF walk
      <3> QED BY <1>1, <2>4, FS_Injection
    <2> QED BY <1>2, <2>5, <2>6 DEF n
  <1>6. \E h \in Free : \A g \in Free : h <= g
    <2>1. Free \in SUBSET Nat
      BY <1>4
    <2> HIDE DEF Free
    <2> QED BY <1>5, <2>1, LeastNat
  <1>7. Candidate(batch) \in Free
    BY <1>6 DEF Candidate, n
  <1> QED BY <1>4, <1>7

LEMMA MinOfTwo ==
  ASSUME NEW x \in Nat, NEW y \in Nat
  PROVE  Min({x, y}) \in {x, y} /\ Min({x, y}) <= x /\ Min({x, y}) <= y
  <1>1. \E m \in {x, y} : \A k \in {x, y} : m <= k
    OBVIOUS
  <1> QED BY <1>1 DEF Min

\* SyncInv holds at the start, and every step keeps it.
LEMMA SyncInvariant == SyncInit /\ [][SyncNext]_syncVars => []SyncInv
  <1>1. SyncInit => SyncInv
    BY BatchesTyped DEF SyncInit, SyncInv, SyncTypeOK
  <1>2. ASSUME SyncInv, [SyncNext]_syncVars
        PROVE  SyncInv'
    <2> USE <1>2 DEF SyncInv, SyncTypeOK
    <2>1. ASSUME NEW h \in 1 .. MaxPeerHeight, UpdatePeerHeight(h)
          PROVE  SyncInv'
      BY <2>1 DEF UpdatePeerHeight
    <2>2. ASSUME NEW batch \in BatchSizes, GetBlocksToRequest(batch)
          PROVE  SyncInv'
      <3> DEFINE start == Candidate(batch)
                 room == bestPeerHeight - start + 1
                 count == Min({batch, room})
                 last == start + count - 1
                 new == [next |-> start, last |-> last]
      <3>1. start \in Nat /\ start > localHeight
        BY <2>2, CandidateIsFree
      <3>2. start <= bestPeerHeight
        BY <2>2 DEF GetBlocksToRequest
      <3>3. room \in Nat /\ room >= 1 /\ batch \in Nat /\ batch >= 1
        BY <3>1, <3>2, BatchesTyped
      <3>4. count \in {batch, room} /\ count <= room
        <4> HIDE DEF room
        <4> QED BY <3>3, MinOfTwo
      <3> HIDE DEF start, count
      <3>5. /\ start \in 1 .. MaxPeerHeight /\ last \in 1 .. MaxPeerHeight /\ start <= last
        BY <3>1, <3>2, <3>3, <3>4, BatchesTyped
      <3>6. /\ pendingRequests' = pendingRequests \cup {start}
            /\ underWay' = underWay \cup {new}
            /\ UNCHANGED <<localHeight, bestPeerHeight, lost>>
        BY <2>2 DEF GetBlocksToRequest, start, count
      <3> HIDE DEF last
      <3> QED BY <3>5, <3>6
    <2>3. ASSUME NEW r \in underWay, ReceiveBlock(r)
          PROVE  SyncInv'
      <3>1. r \in [next : 1 .. MaxPeerHeight, last : 1 .. MaxPeerHeight] /\ r.next <= r.last
        OBVIOUS
      <3>2. /\ pendingRequests' = pendingRequests \ {r.next}
            /\ localHeight' = IF r.next > localHeight THEN r.next ELSE localHeight
            /\ UNCHANGED <<bestPeerHeight, lost>>
        BY <2>3 DEF ReceiveBlock, MarkReceived
      <3>0. /\ localHeight' \in Nat /\ bestPeerHeight' \in Nat /\ lost' \in Nat
            /\ bestPeerHeight' <= MaxPeerHeight /\ pendingRequests' \subseteq 1 .. MaxPeerHeight
        <4>1. localHeight' \in {r.next, localHeight} /\ r.next \in Nat
          BY <3>1, <3>2, BatchesTyped
        <4>2. localHeight' \in Nat
          BY <4>1
        <4> QED BY <3>2, <4>2
      <3>3. CASE r.next = r.last
        <4>1. underWay' \subseteq underWay
          BY <2>3, <3>3 DEF ReceiveBlock
        <4> QED BY <3>0, <4>1
      <3>4. CASE r.next # r.last
        <4> DEFINE rest == [r EXCEPT !.next = r.next + 1]
        <4>1. r.next + 1 \in 1 .. MaxPeerHeight /\ r.next + 1 <= r.last
          BY <3>1, <3>4, BatchesTyped
        <4>2. /\ rest \in [next : 1 .. MaxPeerHeight, last : 1 .. MaxPeerHeight]
              /\ rest.next <= rest.last
          BY <3>1, <4>1
        <4>3. underWay' = (underWay \ {r}) \cup {rest}
          BY <2>3, <3>4 DEF ReceiveBlock
        <4> HIDE DEF rest
        <4> QED BY <3>0, <4>2, <4>3
      <3> QED BY <3>3, <3>4
    <2>4. ASSUME NEW r \in underWay, LoseAnswer(r)
          PROVE  SyncInv'
      BY <2>4 DEF LoseAnswer
    <2>5. CASE UpdateLocalHeight
      BY <2>5 DEF UpdateLocalHeight
    <2>6. CASE UNCHANGED syncVars
      BY <2>6 DEF syncVars
    <2> QED BY <1>2, <2>1, <2>2, <2>3, <2>4, <2>5, <2>6 DEF SyncNext
  <1> QED BY <1>1, <1>2, PTL

----------------------------------------------------------------------------
(* The three parts together *)

\* A step of one part is a step or a stutter of each.
LEMMA PartsTakeTurns ==
  ConsensusSpec => /\ FinalitySpec
                   /\ SyncInit /\ [][SyncNext]_syncVars
                   /\ StakingInit /\ [][StakingNext]_stakingVars
  <1>1. ConsensusInit => FinalityInit /\ SyncInit /\ StakingInit
    BY DEF ConsensusInit
  <1>2. [ConsensusNext]_consensusVars =>
          [FinalityNext]_finalityVars /\ [SyncNext]_syncVars /\ [StakingNext]_stakingVars
    BY DEF ConsensusNext, consensusVars
  <1> QED BY <1>1, <1>2, PTL DEF ConsensusSpec, FinalitySpec

\* Whichever part moves, all of their records keep their types: no height that is asked for
\* is beyond the best peer's (network/sync.rs:76, 81), and no total of stakes or unbonding
\* amount goes below zero (staking.rs:170, 240).
THEOREM ConsensusTypeCorrect == ConsensusSpec => []ConsensusTypeOK
  <1>1. FinalityInv /\ SyncInv /\ StakingInv => ConsensusTypeOK
    BY DEF FinalityInv, SyncInv, StakingInv, VaultInv, EngineTyped, StakingTypeOK,
       ConsensusTypeOK
  <1> QED BY <1>1, PartsTakeTurns, FinalityInvariant, SyncInvariant, StakingInvariant, PTL
=============================================================================
