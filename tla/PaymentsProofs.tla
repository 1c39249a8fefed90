-------------------------- MODULE PaymentsProofs --------------------------
(* Theorems about payment channels and the batches that settle them, for every value of *)
(* their constants. *)
EXTENDS Payments, Sums, Sequences

\* What a channel's record says about heights: a period begins after the last change, and
\* a channel that ended did so above the height at which it was opened.
HeightsInOrder ==
  \A c \in ChannelId : channels[c] # None =>
    /\ c.openedAt <= height
    /\ Is(c, {"Closing", "Disputed"}) =>
         /\ changedAt[c] <= channels[c].since
         /\ c.openedAt <= channels[c].since
    /\ Is(c, {"Closed", "Expired"}) => c.openedAt < height
    /\ changedAt[c] <= height

ChannelInv == TypeOK /\ BalancesSplitDeposit /\ HeightsInOrder

\* The parts of the ids of channels.
LEMMA IdFields ==
  ASSUME NEW c \in ChannelId
  PROVE  c.openedAt \in Nat
  BY ChannelIdsTyped

\* A sum of two amounts, wrapped.
LEMMA WrapType ==
  ASSUME NEW n \in Int
  PROVE  Wrap(n) \in Amount /\ Wrap(n) \in Nat
  BY ChannelInputsTyped, DivMod DEF Wrap, Amount

LEMMA WrapPlus ==
  ASSUME NEW n \in Int, NEW k \in Int
  PROVE  Wrap(Wrap(n) + k) = Wrap(n + k)
  BY ChannelInputsTyped, ModPlus DEF Wrap

LEMMA WrapSmall ==
  ASSUME NEW n \in Amount
  PROVE  Wrap(n) = n
  BY ChannelInputsTyped, ModSmall DEF Wrap, Amount

\* One wrap around of a sum of two amounts.
LEMMA WrapSum ==
  ASSUME NEW x \in Amount, NEW y \in Amount
  PROVE  \/ x + y \in Amount /\ Wrap(x + y) = x + y
         \/ x + y \notin Amount /\ Wrap(x + y) = x + y - AmountModulus
  <1>1. AmountModulus \in Nat \ {0} /\ x \in Nat /\ y \in Nat /\ x < AmountModulus
        /\ y < AmountModulus
    BY ChannelInputsTyped DEF Amount
  <1>2. CASE x + y < AmountModulus
    <2>1. x + y \in Amount
      BY <1>1, <1>2 DEF Amount
    <2> QED BY <2>1, WrapSmall
  <1>3. CASE ~(x + y < AmountModulus)
    <2>1. x + y - AmountModulus \in Amount /\ x + y \notin Amount
      BY <1>1, <1>3 DEF Amount
    <2>2. PICK m \in Amount : m = x + y - AmountModulus
      BY <2>1
    <2>a. m \in Int
      BY DEF Amount
    <2>b. PICK q \in Int : q = 1
      OBVIOUS
    <2>3. (m + AmountModulus * q) % AmountModulus = m % AmountModulus
      BY <1>1, <2>a, ModPeriod
    <2>4. m + AmountModulus * q = x + y
      BY <1>1, <2>2, <2>b DEF Amount
    <2>5. m % AmountModulus = m
      BY WrapSmall DEF Wrap
    <2> QED BY <2>1, <2>2, <2>3, <2>4, <2>5 DEF Wrap
  <1> QED BY <1>2, <1>3

\* An entry of the map of channels, when there is one, is a record with its fields.
LEMMA ChannelFields ==
  ASSUME TypeOK, NEW c \in ChannelId, channels[c] # None
  PROVE  /\ channels[c] \in Channel
         /\ channels[c].deposit \in Amount /\ channels[c].senderBalance \in Amount
         /\ channels[c].receiverBalance \in Amount
         /\ channels[c].deposit \in Nat /\ channels[c].senderBalance \in Nat
         /\ channels[c].receiverBalance \in Nat /\ channels[c].nonce \in Nat
         /\ channels[c].since \in Nat /\ channels[c].status \in Status
  BY DEF TypeOK, Channel, Amount

\* The balances of record ch add up to its deposit, and if exact holds without wrapping.
Splits(ch, exact) ==
  /\ Wrap(ch.senderBalance + ch.receiverBalance) = ch.deposit
  /\ exact => ch.senderBalance + ch.receiverBalance = ch.deposit

LEMMA SplitsOf ==
  ASSUME BalancesSplitDeposit, NEW c \in ChannelId, channels[c] # None
  PROVE  Splits(channels[c], c \notin wrapped)
  BY DEF BalancesSplitDeposit, Splits

\* What splits the deposit in one record does so in another with the same amounts, and as
\* long as fewer channels have wrapped, exactly.
LEMMA SplitsSame ==
  ASSUME NEW ch \in Channel, NEW new \in Channel, NEW exact \in BOOLEAN,
         Splits(ch, exact),
         new.senderBalance = ch.senderBalance, new.receiverBalance = ch.receiverBalance,
         new.deposit = ch.deposit
  PROVE  Splits(new, exact)
  BY DEF Splits

\* What a step on c leaves behind: the other channels and the height are as before, and at c
\* is a channel whose balances add up and whose heights are in order.
GoodStep(c) ==
  /\ channels' = [channels EXCEPT ![c] = channels'[c]] /\ channels'[c] \in Channel
  /\ UNCHANGED height
  /\ changedAt' = changedAt \/ changedAt' = [changedAt EXCEPT ![c] = height]
  /\ deposited' \in Nat /\ paidOut' \in Nat /\ replaced' \in Nat
  /\ wrapped' \in {wrapped, wrapped \cup {c}}
  /\ Splits(channels'[c], c \notin wrapped')
  /\ c.openedAt <= height
  /\ channels'[c].status \in {"Closing", "Disputed"} =>
       changedAt'[c] <= channels'[c].since /\ c.openedAt <= channels'[c].since
  /\ channels'[c].status \in {"Closed", "Expired"} => c.openedAt < height
  /\ changedAt'[c] <= height

LEMMA GoodStepKeepsInv ==
  ASSUME ChannelInv, NEW c \in ChannelId, GoodStep(c)
  PROVE  ChannelInv'
  <1>1. channels'[c] # None
    BY NoneIsNoChannel DEF GoodStep
  <1>2. \A d \in ChannelId \ {c} : channels'[d] = channels[d] /\ changedAt'[d] = changedAt[d]
    BY DEF GoodStep, ChannelInv, TypeOK
  <1>3. TypeOK'
    BY DEF GoodStep, ChannelInv, TypeOK
  <1>4. BalancesSplitDeposit'
    <2>1. \A d \in ChannelId \ {c} : d \notin wrapped' => d \notin wrapped
      BY DEF GoodStep
    <2>2. \A d \in ChannelId \ {c} : channels'[d] # None =>
            /\ Wrap(channels'[d].senderBalance + channels'[d].receiverBalance)
                 = channels'[d].deposit
            /\ d \notin wrapped' =>
                 channels'[d].senderBalance + channels'[d].receiverBalance
                   = channels'[d].deposit
      BY <1>2, <2>1 DEF ChannelInv, BalancesSplitDeposit
    <2>3. /\ Wrap(channels'[c].senderBalance + channels'[c].receiverBalance)
              = channels'[c].deposit
          /\ c \notin wrapped' =>
               channels'[c].senderBalance + channels'[c].receiverBalance = channels'[c].deposit
      BY DEF GoodStep, Splits
    <2> QED BY <2>2, <2>3 DEF BalancesSplitDeposit
  <1>5. HeightsInOrder'
    BY <1>1, <1>2 DEF GoodStep, ChannelInv, HeightsInOrder, Is
  <1> QED BY <1>3, <1>4, <1>5 DEF ChannelInv

\* What taking an update leaves at a channel.
LEMMA AppliedFields ==
  ASSUME TypeOK, NEW c \in ChannelId, channels[c] # None, NEW u \in Update, Acceptable(c, u)
  PROVE  /\ Applied(c, u) \in Channel
         /\ Splits(Applied(c, u), u.senderBalance + u.receiverBalance \in Amount)
         /\ Applied(c, u).status = channels[c].status
         /\ Applied(c, u).deposit = channels[c].deposit
  <1>1. channels[c] \in Channel
    BY ChannelFields
  <1>2. u.nonce \in Nat /\ u.senderBalance \in Amount /\ u.receiverBalance \in Amount
    BY ChannelInputsTyped DEF Update
  <1>3. /\ Applied(c, u) \in Channel
        /\ Applied(c, u).senderBalance = u.senderBalance
        /\ Applied(c, u).receiverBalance = u.receiverBalance
        /\ Applied(c, u).status = channels[c].status
        /\ Applied(c, u).deposit = channels[c].deposit
    BY <1>1, <1>2 DEF Applied, Channel
  <1>4. Wrap(u.senderBalance + u.receiverBalance) = channels[c].deposit
    BY DEF Acceptable
  <1>5. u.senderBalance + u.receiverBalance \in Amount =>
          u.senderBalance + u.receiverBalance = channels[c].deposit
    BY <1>2, <1>4, WrapSmall
  <1> QED BY <1>3, <1>4, <1>5 DEF Splits

\* One sum at channel c is remembered when it leaves its width.
LEMMA WrappedAfter ==
  ASSUME NEW c \in ChannelId, NEW sums, wrapped \subseteq ChannelId,
         wrapped' = WrappedBy(c, sums)
  PROVE  /\ wrapped' \subseteq ChannelId /\ wrapped' \in {wrapped, wrapped \cup {c}}
         /\ c \notin wrapped' => c \notin wrapped /\ sums \subseteq Amount
  BY DEF WrappedBy

\* A top-up adds to the deposit and to one balance.
TopUpOf(ch, a) ==
  [ch EXCEPT !.deposit = Wrap(ch.deposit + a), !.senderBalance = Wrap(ch.senderBalance + a)]

LEMMA ToppedUp ==
  ASSUME NEW ch \in Channel, NEW exact \in BOOLEAN, Splits(ch, exact), NEW a \in Amount,
         NEW d, NEW x, d = ch.deposit, x = ch.senderBalance
  PROVE  /\ TopUpOf(ch, a) \in Channel /\ TopUpOf(ch, a).status = ch.status
         /\ TopUpOf(ch, a).deposit = Wrap(d + a)
         /\ exact /\ d + a \in Amount /\ x + a \in Amount => Splits(TopUpOf(ch, a), TRUE)
         /\ Splits(TopUpOf(ch, a), FALSE)
  <1>1. PICK y \in Amount : y = ch.receiverBalance
    BY DEF Channel
  <1>0. d \in Amount /\ x \in Amount
    BY DEF Channel
  <1> DEFINE new == TopUpOf(ch, a)
  <1>2. Wrap(d + a) \in Amount /\ Wrap(x + a) \in Amount
    BY <1>0, WrapType DEF Amount
  <1>3. /\ new \in Channel /\ new.status = ch.status /\ new.deposit = Wrap(d + a)
        /\ new.senderBalance = Wrap(x + a) /\ new.receiverBalance = y
    BY <1>1, <1>2 DEF Channel, TopUpOf
  <1>4. Wrap(x + y) = d /\ (exact => x + y = d)
    BY <1>1 DEF Splits
  <1>5. Wrap(Wrap(x + a) + y) = Wrap(d + a)
    <2>1. PICK n \in Int, k \in Int : n = x + a /\ k = x + y
      BY <1>0 DEF Amount
    <2>2. y \in Int /\ a \in Int
      BY DEF Amount
    <2>3. Wrap(Wrap(n) + y) = Wrap(n + y)
      BY <2>2, WrapPlus
    <2>4. Wrap(Wrap(k) + a) = Wrap(k + a)
      BY <2>2, WrapPlus
    <2>5. n + y = k + a
      BY <1>0, <2>1 DEF Amount
    <2> QED BY <1>4, <2>1, <2>3, <2>4, <2>5
  <1>6. ASSUME exact, d + a \in Amount, x + a \in Amount
        PROVE  Wrap(x + a) + y = Wrap(d + a)
    <2>1. Wrap(x + a) = x + a /\ Wrap(d + a) = d + a
      BY <1>6, WrapSmall
    <2>2. x + y = d
      BY <1>4, <1>6
    <2> QED BY <1>0, <2>1, <2>2 DEF Amount
  <1> HIDE DEF new
  <1>7. exact /\ d + a \in Amount /\ x + a \in Amount => Splits(new, TRUE)
    BY <1>3, <1>5, <1>6 DEF Splits
  <1>8. Splits(new, FALSE)
    BY <1>3, <1>5 DEF Splits
  <1> QED BY <1>3, <1>7, <1>8 DEF new

\* Every operation is such a step.
LEMMA ChannelInvStep ==
  ASSUME ChannelInv, NEW c \in ChannelId, ChannelStep(c)
  PROVE  ChannelInv'
  <1> USE DEF ChannelInv
  <1>0. /\ height \in Nat /\ c.openedAt \in Nat /\ changedAt \in [ChannelId -> Nat]
        /\ deposited \in Nat /\ paidOut \in Nat /\ replaced \in Nat
        /\ wrapped \subseteq ChannelId
    BY IdFields DEF TypeOK
  <1>1. ASSUME NEW a \in Deposits, OpenChannel(c, a)
        PROVE  ChannelInv'
    <2> DEFINE new == [deposit |-> a, senderBalance |-> a, receiverBalance |-> 0, nonce |-> 0,
                       status |-> "Open", since |-> 0]
    <2>1. a \in Nat /\ a \in Amount /\ 0 \in Amount
      BY ChannelInputsTyped DEF Amount
    <2>2. new \in Channel /\ Splits(new, c \notin wrapped) /\ new.status = "Open"
      <3>1. /\ new \in Channel /\ new.status = "Open" /\ new.senderBalance = a
            /\ new.receiverBalance = 0 /\ new.deposit = a
        BY <2>1 DEF Channel, Status
      <3>2. a + 0 = a /\ Wrap(a + 0) = a
        BY <2>1, WrapSmall
      <3> HIDE DEF new
      <3> QED BY <3>1, <3>2 DEF Splits
    <2>3. Held(c) \in Nat
      BY ChannelFields DEF Held
    <2>4. /\ channels' = [channels EXCEPT ![c] = new]
          /\ changedAt' = [changedAt EXCEPT ![c] = height]
          /\ deposited' \in Nat /\ paidOut' \in Nat /\ replaced' \in Nat
          /\ c.openedAt = height /\ UNCHANGED <<height, wrapped>>
      BY <1>0, <1>1, <2>1, <2>3 DEF OpenChannel
    <2> HIDE DEF new
    <2>9. GoodStep(c)
      BY <1>0, <2>2, <2>4 DEF GoodStep, TypeOK
    <2> QED BY <2>9, GoodStepKeepsInv
  <1>2. ASSUME NEW a \in Deposits, TopUp(c, a)
        PROVE  ChannelInv'
    <2> DEFINE new == TopUpOf(channels[c], a)
               sums == {channels[c].deposit + a, channels[c].senderBalance + a}
    <2>1. a \in Amount /\ a \in Nat /\ channels[c] # None /\ channels[c].status = "Open"
      BY <1>2, ChannelInputsTyped DEF TopUp, Is, Amount
    <2>2. /\ channels[c] \in Channel /\ c.openedAt <= height
          /\ Splits(channels[c], c \notin wrapped)
      BY <2>1, ChannelFields, SplitsOf DEF HeightsInOrder
    <2>a. PICK d, x : d = channels[c].deposit /\ x = channels[c].senderBalance
      OBVIOUS
    <2>b. PICK exact \in BOOLEAN : exact = (c \notin wrapped)
      OBVIOUS
    <2>3. /\ new \in Channel /\ new.status = "Open"
          /\ c \notin wrapped /\ d + a \in Amount /\ x + a \in Amount => Splits(new, TRUE)
          /\ Splits(new, FALSE)
      BY <2>1, <2>2, <2>a, <2>b, ToppedUp
    <2>4. /\ channels' = [channels EXCEPT ![c] = new]
          /\ changedAt' = [changedAt EXCEPT ![c] = height]
          /\ deposited' \in Nat /\ paidOut' \in Nat /\ replaced' \in Nat /\ UNCHANGED height
          /\ wrapped' = WrappedBy(c, sums)
      BY <1>0, <1>2, <2>1 DEF TopUp, TopUpOf, Amount
    <2>5. /\ wrapped' \in {wrapped, wrapped \cup {c}}
          /\ c \notin wrapped' => c \notin wrapped /\ sums \subseteq Amount
      <3> HIDE DEF sums, new
      <3> QED BY <1>0, <2>4, WrappedAfter
    <2>6. Splits(new, c \notin wrapped')
      <3>1. c \notin wrapped' => c \notin wrapped /\ d + a \in Amount /\ x + a \in Amount
        BY <2>5, <2>a
      <3> HIDE DEF new
      <3> QED BY <2>3, <3>1 DEF Splits
    <2> HIDE DEF new, sums
    <2>9. GoodStep(c)
      BY <1>0, <2>2, <2>3, <2>4, <2>5, <2>6 DEF GoodStep, TypeOK
    <2> QED BY <2>9, GoodStepKeepsInv
  <1>3. ASSUME NEW u \in Update, UpdateChannel(c, u)
        PROVE  ChannelInv'
    <2>1. channels[c] # None /\ channels[c].status = "Open" /\ Acceptable(c, u)
      BY <1>3 DEF UpdateChannel, Is
    <2> DEFINE sum == u.senderBalance + u.receiverBalance
    <2>2. /\ Applied(c, u) \in Channel /\ Applied(c, u).status = "Open"
          /\ Splits(Applied(c, u), sum \in Amount)
      BY <2>1, AppliedFields
    <2>3. c.openedAt <= height
      BY <2>1 DEF HeightsInOrder
    <2>4. /\ channels' = [channels EXCEPT ![c] = Applied(c, u)]
          /\ changedAt' = [changedAt EXCEPT ![c] = height]
          /\ deposited' \in Nat /\ paidOut' \in Nat /\ replaced' \in Nat /\ UNCHANGED height
          /\ wrapped' = WrappedBy(c, {sum})
      BY <1>0, <1>3 DEF UpdateChannel
    <2> HIDE DEF sum
    <2>5. /\ wrapped' \in {wrapped, wrapped \cup {c}}
          /\ c \notin wrapped' => {sum} \subseteq Amount
      BY <1>0, <2>4, WrappedAfter
    <2>6. Splits(Applied(c, u), c \notin wrapped')
      BY <2>2, <2>5 DEF Splits
    <2>9. GoodStep(c)
      BY <1>0, <2>2, <2>3, <2>4, <2>5, <2>6 DEF GoodStep, TypeOK
    <2> QED BY <2>9, GoodStepKeepsInv
  <1>4. ASSUME NEW u \in Update, NEW who \in Address, DisputeChannel(c, u, who)
        PROVE  ChannelInv'
    <2> DEFINE new == [Applied(c, u) EXCEPT !.status = "Disputed", !.since = height]
    <2> DEFINE sum == u.senderBalance + u.receiverBalance
    <2>1. channels[c] # None /\ Acceptable(c, u)
      BY <1>4 DEF DisputeChannel, Is
    <2>2. Applied(c, u) \in Channel /\ Splits(Applied(c, u), sum \in Amount)
      BY <2>1, AppliedFields
    <2>3. /\ new \in Channel /\ new.status = "Disputed" /\ new.since = height
          /\ new.senderBalance = Applied(c, u).senderBalance
          /\ new.receiverBalance = Applied(c, u).receiverBalance
          /\ new.deposit = Applied(c, u).deposit
      BY <1>0, <2>2 DEF Channel, Status
    <2>4. c.openedAt <= height
      BY <2>1 DEF HeightsInOrder
    <2>5. /\ channels' = [channels EXCEPT ![c] = new]
          /\ changedAt' = [changedAt EXCEPT ![c] = height]
          /\ deposited' \in Nat /\ paidOut' \in Nat /\ replaced' \in Nat /\ UNCHANGED height
          /\ wrapped' = WrappedBy(c, {sum})
      BY <1>0, <1>4 DEF DisputeChannel
    <2> HIDE DEF new, sum
    <2>6. /\ wrapped' \in {wrapped, wrapped \cup {c}}
          /\ c \notin wrapped' => {sum} \subseteq Amount
      BY <1>0, <2>5, WrappedAfter
    <2>7. Splits(new, c \notin wrapped')
      BY <2>2, <2>3, <2>6 DEF Splits
    <2>9. GoodStep(c)
      BY <1>0, <2>3, <2>4, <2>5, <2>6, <2>7 DEF GoodStep, TypeOK
    <2> QED BY <2>9, GoodStepKeepsInv
  <1>5. ASSUME NEW who \in Address, CloseChannel(c, who)
        PROVE  ChannelInv'
    <2> DEFINE new == [channels[c] EXCEPT !.status = "Closing", !.since = height]
    <2>1. channels[c] # None
      BY <1>5 DEF CloseChannel, Is
    <2>2. /\ channels[c] \in Channel /\ c.openedAt <= height /\ changedAt[c] <= height
          /\ Splits(channels[c], c \notin wrapped)
      BY <2>1, ChannelFields, SplitsOf DEF HeightsInOrder
    <2>3. /\ new \in Channel /\ new.status = "Closing" /\ new.since = height
          /\ Splits(new, c \notin wrapped)
      BY <1>0, <2>2, SplitsSame DEF Channel, Status
    <2>4. /\ channels' = [channels EXCEPT ![c] = new] /\ UNCHANGED <<height, history>>
      BY <1>5, <2>2 DEF CloseChannel, Channel, TypeOK
    <2> HIDE DEF new
    <2>9. GoodStep(c)
      BY <1>0, <2>2, <2>3, <2>4 DEF GoodStep, TypeOK, history
    <2> QED BY <2>9, GoodStepKeepsInv
  <1>6. ASSUME FinalizeChannel(c)
        PROVE  ChannelInv'
    <2> DEFINE new == [channels[c] EXCEPT !.status = "Closed"]
    <2>1. channels[c] # None /\ channels[c].status \in {"Closing", "Disputed"}
      BY <1>6 DEF FinalizeChannel, Is
    <2>2. /\ channels[c] \in Channel /\ channels[c].since \in Nat
          /\ c.openedAt <= channels[c].since /\ changedAt[c] <= height
          /\ Splits(channels[c], c \notin wrapped)
          /\ channels[c].senderBalance \in Nat /\ channels[c].receiverBalance \in Nat
      BY <2>1, ChannelFields, SplitsOf DEF HeightsInOrder, Is, Amount
    <2>3. /\ new \in Channel /\ new.status = "Closed"
          /\ Splits(new, c \notin wrapped)
      BY <2>2, SplitsSame DEF Channel, Status
    <2>4. c.openedAt < height
      BY <1>0, <1>6, <2>2, ChannelInputsTyped DEF FinalizeChannel
    <2>5. /\ channels' = [channels EXCEPT ![c] = new]
          /\ UNCHANGED <<height, deposited, replaced, changedAt, wrapped>> /\ paidOut' \in Nat
      BY <1>0, <1>6, <2>2 DEF FinalizeChannel
    <2> HIDE DEF new
    <2>9. GoodStep(c)
      BY <1>0, <2>2, <2>3, <2>4, <2>5 DEF GoodStep, TypeOK
    <2> QED BY <2>9, GoodStepKeepsInv
  <1>7. ASSUME CheckExpired(c)
        PROVE  ChannelInv'
    <2> DEFINE new == [channels[c] EXCEPT !.status = "Expired"]
    <2>1. channels[c] # None
      BY <1>7 DEF CheckExpired, Is
    <2>2. /\ channels[c] \in Channel /\ changedAt[c] <= height
          /\ Splits(channels[c], c \notin wrapped)
      BY <2>1, ChannelFields, SplitsOf DEF HeightsInOrder
    <2>3. /\ new \in Channel /\ new.status = "Expired"
          /\ Splits(new, c \notin wrapped)
      BY <2>2, SplitsSame DEF Channel, Status
    <2>4. c.openedAt < height
      BY <1>0, <1>7, ChannelInputsTyped DEF CheckExpired
    <2>5. channels' = [channels EXCEPT ![c] = new] /\ UNCHANGED <<height, history>>
      BY <1>7 DEF CheckExpired
    <2> HIDE DEF new
    <2>9. GoodStep(c)
      BY <1>0, <2>2, <2>3, <2>4, <2>5 DEF GoodStep, TypeOK, history
    <2> QED BY <2>9, GoodStepKeepsInv
  <1> QED BY <1>1, <1>2, <1>3, <1>4, <1>5, <1>6, <1>7 DEF ChannelStep

\* ChannelInv holds at the start, and every step keeps it.
LEMMA ChannelInvariant == Spec => []ChannelInv
  <1>1. Init => ChannelInv
    BY DEF Init, ChannelInv, TypeOK, BalancesSplitDeposit, HeightsInOrder
  <1>2. ASSUME ChannelInv, [Next]_vars
        PROVE  ChannelInv'
    <2>1. CASE NextHeight
      BY <1>2, <2>1, IdFields DEF NextHeight, history, ChannelInv, TypeOK, BalancesSplitDeposit,
         HeightsInOrder, Is
    <2>2. CASE \E c \in ChannelId : ChannelStep(c)
      BY <1>2, <2>2, ChannelInvStep
    <2>3. CASE UNCHANGED vars
      BY <1>2, <2>3 DEF vars, history, ChannelInv, TypeOK, BalancesSplitDeposit,
         HeightsInOrder, Is
    <2> QED BY <1>2, <2>1, <2>2, <2>3 DEF Next
  <1> QED BY <1>1, <1>2, PTL DEF Spec

\* The records of channels keep their types, whatever is called and in whatever order.
THEOREM ChannelTypeCorrect == Spec => []TypeOK
  <1>1. ChannelInv => TypeOK
    BY DEF ChannelInv
  <1> QED BY <1>1, ChannelInvariant, PTL

\* The two balances of a channel add up to its deposit as the code adds, through updates,
\* disputes and top-ups (channel/manager.rs:123, 193, 260), and exactly unless one of the
\* channel's sums left its width, so that finalize_channel then pays what was put in.
THEOREM PayoutIsCovered == Spec => []BalancesSplitDeposit
  <1>1. ChannelInv => BalancesSplitDeposit
    BY DEF ChannelInv
  <1> QED BY <1>1, ChannelInvariant, PTL

\* An operation on a channel writes no other channel.
LEMMA StepAtOneChannel ==
  ASSUME channels \in [ChannelId -> Channel \cup {None}], NEW c \in ChannelId, ChannelStep(c)
  PROVE  channels' = [channels EXCEPT ![c] = channels'[c]]
  <1>1. ASSUME NEW a \in Deposits, OpenChannel(c, a)
        PROVE  channels' = [channels EXCEPT ![c] = channels'[c]]
    BY <1>1 DEF OpenChannel
  <1>2. ASSUME NEW a \in Deposits, TopUp(c, a)
        PROVE  channels' = [channels EXCEPT ![c] = channels'[c]]
    BY <1>2 DEF TopUp
  <1>3. ASSUME NEW u \in Update, UpdateChannel(c, u)
        PROVE  channels' = [channels EXCEPT ![c] = channels'[c]]
    BY <1>3 DEF UpdateChannel
  <1>4. ASSUME NEW u \in Update, NEW who \in Address, DisputeChannel(c, u, who)
        PROVE  channels' = [channels EXCEPT ![c] = channels'[c]]
    BY <1>4 DEF DisputeChannel
  <1>5. ASSUME NEW who \in Address, CloseChannel(c, who)
        PROVE  channels' = [channels EXCEPT ![c] = channels'[c]]
    BY <1>5 DEF CloseChannel
  <1>6. CASE FinalizeChannel(c)
    BY <1>6 DEF FinalizeChannel
  <1>7. CASE CheckExpired(c)
    BY <1>7 DEF CheckExpired
  <1> QED BY <1>1, <1>2, <1>3, <1>4, <1>5, <1>6, <1>7 DEF ChannelStep

\* Every operation but an opening asks for a channel that has not ended.
LEMMA StepNeedsLiveChannel ==
  ASSUME NEW c \in ChannelId, ChannelStep(c)
  PROVE  c.openedAt = height \/ Is(c, {"Open", "Closing", "Disputed"})
  <1> DEFINE Live == Is(c, {"Open", "Closing", "Disputed"})
  <1>1. ASSUME NEW a \in Deposits, OpenChannel(c, a)
        PROVE  c.openedAt = height
    BY <1>1 DEF OpenChannel
  <1>2. ASSUME NEW a \in Deposits, TopUp(c, a)
        PROVE  Live
    BY <1>2 DEF TopUp, Is
  <1>3. ASSUME NEW u \in Update, UpdateChannel(c, u)
        PROVE  Live
    BY <1>3 DEF UpdateChannel, Is
  <1>4. ASSUME NEW u \in Update, NEW who \in Address, DisputeChannel(c, u, who)
        PROVE  Live
    BY <1>4 DEF DisputeChannel, Is
  <1>5. ASSUME NEW who \in Address, CloseChannel(c, who)
        PROVE  Live
    BY <1>5 DEF CloseChannel, Is
  <1>6. ASSUME FinalizeChannel(c)
        PROVE  Live
    BY <1>6 DEF FinalizeChannel, Is
  <1>7. ASSUME CheckExpired(c)
        PROVE  Live
    BY <1>7 DEF CheckExpired, Is
  <1> QED BY <1>1, <1>2, <1>3, <1>4, <1>5, <1>6, <1>7 DEF ChannelStep

\* No operation but finalize_channel closes a channel for good.
LEMMA OnlyFinalizeCloses ==
  ASSUME TypeOK, NEW c \in ChannelId, ChannelStep(c), ~Is(c, {"Closed"}), Is(c, {"Closed"})'
  PROVE  FinalizeChannel(c)
  <1>0. /\ channels \in [ChannelId -> Channel \cup {None}] /\ height \in Nat
        /\ channels'[c].status = "Closed"
    BY DEF TypeOK, Is
  <1>1. ASSUME NEW a \in Deposits, OpenChannel(c, a)
        PROVE  FALSE
    BY <1>0, <1>1 DEF OpenChannel
  <1>2. ASSUME NEW a \in Deposits, TopUp(c, a)
        PROVE  FALSE
    BY <1>0, <1>2, ChannelFields DEF TopUp, Is, Channel
  <1>3. ASSUME NEW u \in Update, UpdateChannel(c, u)
        PROVE  FALSE
    BY <1>0, <1>3, AppliedFields DEF UpdateChannel, Is
  <1>4. ASSUME NEW u \in Update, NEW who \in Address, DisputeChannel(c, u, who)
        PROVE  FALSE
    BY <1>0, <1>4, AppliedFields DEF DisputeChannel, Is, Channel
  <1>5. ASSUME NEW who \in Address, CloseChannel(c, who)
        PROVE  FALSE
    BY <1>0, <1>5, ChannelFields DEF CloseChannel, Is, Channel
  <1>6. ASSUME CheckExpired(c)
        PROVE  FALSE
    BY <1>0, <1>6, ChannelFields DEF CheckExpired, Is, Channel
  <1> QED BY <1>1, <1>2, <1>3, <1>4, <1>5, <1>6 DEF ChannelStep

\* A closed or expired channel never changes again (channel/manager.rs:88, 228, 313): its
\* opening height has passed, and every other operation asks for another status.
THEOREM EndIsFinal == Spec => EndedStaysEnded
  <1>1. ASSUME ChannelInv, [Next]_vars, NEW c \in ChannelId, Is(c, {"Closed", "Expired"})
        PROVE  channels'[c] = channels[c]
    <2>1. /\ channels[c] # None /\ channels[c].status \in {"Closed", "Expired"}
          /\ c.openedAt < height /\ height \in Nat /\ c.openedAt \in Nat
          /\ channels \in [ChannelId -> Channel \cup {None}]
      BY <1>1, IdFields DEF Is, ChannelInv, TypeOK, HeightsInOrder
    <2>2. CASE NextHeight \/ UNCHANGED vars
      BY <2>2 DEF NextHeight, vars
    <2>3. ASSUME NEW d \in ChannelId, ChannelStep(d)
          PROVE  channels'[c] = channels[c]
      <3>1. d # c
        <4>1. d.openedAt = height \/ Is(d, {"Open", "Closing", "Disputed"})
          BY <2>3, StepNeedsLiveChannel
        <4> QED BY <2>1, <4>1 DEF Is
      <3>2. channels' = [channels EXCEPT ![d] = channels'[d]]
        BY <2>1, <2>3, StepAtOneChannel
      <3> QED BY <2>1, <3>1, <3>2
    <2> QED BY <1>1, <2>2, <2>3 DEF Next
  <1>2. ChannelInv /\ [Next]_vars =>
          [\A c \in ChannelId : Is(c, {"Closed", "Expired"}) => channels'[c] = channels[c]]_vars
    BY <1>1
  <1> QED BY <1>2, ChannelInvariant, PTL DEF Spec, EndedStaysEnded

\* A payout comes at least a dispute period after the last change of the balances
\* (channel/manager.rs:200, 228).
THEOREM PayoutWaitsForPeriod == Spec => PeriodAfterLastChange
  <1>1. ASSUME ChannelInv, [Next]_vars, NEW c \in ChannelId,
               ~Is(c, {"Closed"}), Is(c, {"Closed"})'
        PROVE  height >= changedAt[c] + DisputePeriod
    <2>1. channels \in [ChannelId -> Channel \cup {None}]
      BY <1>1 DEF ChannelInv, TypeOK
    <2>2. CASE NextHeight \/ UNCHANGED vars
      BY <1>1, <2>2 DEF NextHeight, vars, Is
    <2>3. ASSUME NEW d \in ChannelId, ChannelStep(d)
          PROVE  height >= changedAt[c] + DisputePeriod
      <3>0. d = c
        <4>1. channels' = [channels EXCEPT ![d] = channels'[d]]
          BY <2>1, <2>3, StepAtOneChannel
        <4> QED BY <1>1, <2>1, <4>1 DEF Is
      <3>1. FinalizeChannel(c)
        <4>1. TypeOK /\ ChannelStep(c)
          BY <1>1, <2>3, <3>0 DEF ChannelInv
        <4> QED BY <1>1, <4>1, OnlyFinalizeCloses
      <3>2. /\ Is(c, {"Closing", "Disputed"}) /\ channels[c] # None
            /\ height >= channels[c].since + DisputePeriod
        BY <3>1 DEF FinalizeChannel, Is
      <3>3. changedAt[c] <= channels[c].since /\ channels[c].since \in Nat
            /\ changedAt[c] \in Nat /\ height \in Nat
        BY <1>1, <3>2, ChannelFields DEF ChannelInv, HeightsInOrder, TypeOK
      <3> QED BY <3>2, <3>3, ChannelInputsTyped
    <2> QED BY <1>1, <2>2, <2>3 DEF Next
  <1>2. ChannelInv /\ [Next]_vars =>
          [\A c \in ChannelId : ~Is(c, {"Closed"}) /\ Is(c, {"Closed"})' =>
             height >= changedAt[c] + DisputePeriod]_vars
    BY <1>1
  <1> QED BY <1>2, ChannelInvariant, PTL DEF Spec, PeriodAfterLastChange

----------------------------------------------------------------------------
(* Where the deposits are *)

\* What a channel holds is an amount.
LEMMA HeldType ==
  ASSUME TypeOK, NEW c \in ChannelId
  PROVE  Held(c) \in Nat
  BY ChannelFields DEF Held

LEMMA HeldTypeNext ==
  ASSUME TypeOK', NEW c \in ChannelId
  PROVE  Held(c)' \in Nat
  BY DEF TypeOK, Held, Channel, Amount

\* A step that writes one channel changes what all of them hold by what that one gains.
LEMMA HoldingsChange ==
  ASSUME TypeOK, TypeOK', NEW c \in ChannelId,
         channels' = [channels EXCEPT ![c] = channels'[c]]
  PROVE  /\ SumFunction([d \in ChannelId |-> Held(d)'])
              = SumFunction([d \in ChannelId |-> Held(d)]) - Held(c) + Held(c)'
         /\ SumFunction([d \in ChannelId |-> Held(d)]) \in Int
  <1> DEFINE f == [d \in ChannelId |-> Held(d)]
             g == [d \in ChannelId |-> Held(d)']
  <1>1. f \in [ChannelId -> Int] /\ g \in [ChannelId -> Int]
    BY HeldType, HeldTypeNext
  <1>2. \A d \in ChannelId \ {c} : g[d] = f[d]
    BY DEF TypeOK, Held, Is
  <1>3. SumFunction(g) = SumFunction(f) - f[c] + g[c]
    <2> HIDE DEF f, g
    <2> QED BY <1>1, <1>2, ChannelIdsFinite, SumUpdate
  <1>4. SumFunction(f) \in Int
    <2> HIDE DEF f, g
    <2> QED BY <1>1, ChannelIdsFinite, SumInt
  <1> QED BY <1>3, <1>4

\* What a channel that is replaced by the record new holds after the step.
LEMMA HeldAfter ==
  ASSUME TypeOK, NEW c \in ChannelId, NEW new \in Channel,
         channels' = [channels EXCEPT ![c] = new]
  PROVE  Held(c)' = IF new.status = "Closed" THEN 0 ELSE new.deposit
  BY NoneIsNoChannel DEF TypeOK, Held, Is

\* What was put in and is neither out again nor held by channel c.
Rest(c) == deposited - paidOut - replaced - Held(c)

\* A step at c leaves that as it is, or moves it by the width of amounts when a sum left it.
Kept(c) ==
  \E k \in {0, AmountModulus, -AmountModulus} :
    /\ Rest(c)' = Rest(c) + k
    /\ wrapped' = {} => wrapped = {} /\ k = 0

LEMMA StepMovesDeposit ==
  ASSUME ChannelInv, NEW c \in ChannelId, ChannelStep(c)
  PROVE  Kept(c)
  <1> DEFINE Goal == Kept(c)
  <1>0. /\ TypeOK /\ deposited \in Nat /\ paidOut \in Nat /\ replaced \in Nat /\ height \in Nat
        /\ Held(c) \in Nat /\ AmountModulus \in Nat \ {0} /\ wrapped \subseteq ChannelId
    BY HeldType, ChannelInputsTyped DEF ChannelInv, TypeOK
  <1>n. Rest(c) \in Int
    BY <1>0 DEF Rest
  <1>d. ASSUME wrapped' = {} => wrapped = {}, Rest(c)' = Rest(c)
        PROVE  Goal
    BY <1>n, <1>d DEF Kept
  <1>1. ASSUME NEW a \in Deposits, OpenChannel(c, a)
        PROVE  Goal
    <2> DEFINE new == [deposit |-> a, senderBalance |-> a, receiverBalance |-> 0, nonce |-> 0,
                       status |-> "Open", since |-> 0]
    <2>1. a \in Nat /\ a \in Amount /\ 0 \in Amount
      BY ChannelInputsTyped DEF Amount
    <2>2. new \in Channel /\ new.deposit = a /\ new.status = "Open"
      BY <2>1 DEF Channel, Status
    <2>3. channels' = [channels EXCEPT ![c] = new] /\ deposited' = deposited + a
          /\ replaced' = replaced + Held(c) /\ paidOut' = paidOut /\ wrapped' = wrapped
      BY <1>1 DEF OpenChannel
    <2> HIDE DEF new
    <2>4. Held(c)' = a
      BY <1>0, <2>2, <2>3, HeldAfter
    <2>5. Rest(c)' = Rest(c)
      BY <1>0, <2>1, <2>3, <2>4 DEF Rest
    <2> QED BY <1>d, <2>3, <2>5
  <1>a. channels[c] # None /\ channels[c].status # "Closed" =>
          /\ channels[c] \in Channel /\ Held(c) = channels[c].deposit
          /\ channels[c].senderBalance \in Amount /\ channels[c].receiverBalance \in Amount
          /\ channels[c].deposit \in Amount /\ Splits(channels[c], c \notin wrapped)
    BY <1>0, ChannelFields, SplitsOf DEF ChannelInv, Held, Is
  <1>2. ASSUME NEW a \in Deposits, TopUp(c, a)
        PROVE  Goal
    <2> DEFINE new == TopUpOf(channels[c], a)
               sums == {channels[c].deposit + a, channels[c].senderBalance + a}
    <2>1. a \in Amount /\ channels[c] # None /\ channels[c].status = "Open"
      BY <1>2, ChannelInputsTyped DEF TopUp, Is
    <2>2. PICK d \in Amount : d = channels[c].deposit
      BY <1>a, <2>1
    <2>3. new \in Channel /\ new.deposit = Wrap(d + a) /\ new.status = "Open"
      <3>1. PICK x : x = channels[c].senderBalance
        OBVIOUS
      <3>2. PICK exact \in BOOLEAN : exact = (c \notin wrapped)
        OBVIOUS
      <3>3. channels[c] \in Channel /\ Splits(channels[c], exact)
        BY <1>a, <2>1, <3>2
      <3> QED BY <2>1, <2>2, <3>1, <3>3, ToppedUp
    <2>4. channels' = [channels EXCEPT ![c] = new] /\ deposited' = deposited + a
          /\ UNCHANGED <<paidOut, replaced>> /\ wrapped' = WrappedBy(c, sums)
      BY <1>2 DEF TopUp, TopUpOf
    <2> HIDE DEF new
    <2>5. Held(c)' = Wrap(d + a) /\ Held(c) = d
      BY <1>0, <1>a, <2>1, <2>2, <2>3, <2>4, HeldAfter
    <2>6. wrapped' = {} => wrapped = {} /\ d + a \in Amount
      BY <1>0, <2>2, <2>4 DEF WrappedBy
    <2>7. CASE d + a \in Amount
      <3>1. Held(c)' = Held(c) + a
        BY <2>5, <2>7, WrapSmall
      <3>2. Rest(c)' = Rest(c)
        BY <1>0, <2>1, <2>4, <3>1 DEF Rest, Amount
      <3> QED BY <1>d, <2>6, <3>2
    <2>8. CASE d + a \notin Amount
      <3>1. Held(c)' = Held(c) + a - AmountModulus
        BY <2>1, <2>5, <2>8, WrapSum
      <3>2. Rest(c)' = Rest(c) + AmountModulus
        BY <1>0, <2>1, <2>4, <3>1 DEF Rest, Amount
      <3> QED BY <2>6, <2>8, <3>2 DEF Kept
    <2> QED BY <2>7, <2>8
  \* The operations that leave the deposit alone.
  <1>b. ASSUME NEW new \in Channel, channels' = [channels EXCEPT ![c] = new],
               channels[c] # None, channels[c].status # "Closed",
               new.deposit = channels[c].deposit, new.status # "Closed",
               UNCHANGED <<deposited, paidOut, replaced>>, wrapped' = {} => wrapped = {}
        PROVE  Goal
    <2>1. Held(c)' = Held(c)
      BY <1>0, <1>a, <1>b, HeldAfter
    <2>2. Rest(c)' = Rest(c)
      BY <1>b, <2>1 DEF Rest
    <2> QED BY <1>b, <1>d, <2>2
  <1>3. ASSUME NEW u \in Update, UpdateChannel(c, u)
        PROVE  Goal
    <2>1. channels[c] # None /\ channels[c].status = "Open" /\ Acceptable(c, u)
      BY <1>3 DEF UpdateChannel, Is
    <2>2. Applied(c, u) \in Channel /\ Applied(c, u).deposit = channels[c].deposit
          /\ Applied(c, u).status = "Open"
      BY <1>0, <1>a, <2>1, AppliedFields DEF Applied, Channel
    <2>3. wrapped' = {} => wrapped = {}
      BY <1>0, <1>3 DEF UpdateChannel, WrappedBy
    <2> QED BY <1>b, <1>3, <2>1, <2>2, <2>3 DEF UpdateChannel
  <1>4. ASSUME NEW u \in Update, NEW who \in Address, DisputeChannel(c, u, who)
        PROVE  Goal
    <2> DEFINE new == [Applied(c, u) EXCEPT !.status = "Disputed", !.since = height]
    <2>1. channels[c] # None /\ channels[c].status # "Closed" /\ Acceptable(c, u)
      BY <1>4 DEF DisputeChannel, Is
    <2>2. Applied(c, u) \in Channel /\ Applied(c, u).deposit = channels[c].deposit
      BY <1>0, <1>a, <2>1, AppliedFields DEF Applied, Channel
    <2>3. new \in Channel /\ new.deposit = channels[c].deposit /\ new.status = "Disputed"
      BY <1>0, <2>2 DEF Channel, Status
    <2>4. channels' = [channels EXCEPT ![c] = new] /\ UNCHANGED <<deposited, paidOut, replaced>>
          /\ (wrapped' = {} => wrapped = {})
      BY <1>0, <1>4 DEF DisputeChannel, WrappedBy
    <2> HIDE DEF new
    <2> QED BY <1>b, <2>1, <2>3, <2>4
  <1>5. ASSUME NEW who \in Address, CloseChannel(c, who)
        PROVE  Goal
    <2> DEFINE new == [channels[c] EXCEPT !.status = "Closing", !.since = height]
    <2>1. channels[c] # None /\ channels[c].status # "Closed"
      BY <1>5 DEF CloseChannel, Is
    <2>2. new \in Channel /\ new.deposit = channels[c].deposit /\ new.status = "Closing"
      BY <1>0, <1>a, <2>1 DEF Channel, Status
    <2>3. channels' = [channels EXCEPT ![c] = new]
          /\ UNCHANGED <<deposited, paidOut, replaced, wrapped>>
      BY <1>0, <1>5 DEF CloseChannel, Channel, TypeOK, history
    <2> HIDE DEF new
    <2> QED BY <1>b, <2>1, <2>2, <2>3
  <1>6. ASSUME FinalizeChannel(c)
        PROVE  Goal
    <2> DEFINE new == [channels[c] EXCEPT !.status = "Closed"]
    <2>1. channels[c] # None /\ channels[c].status # "Closed"
      BY <1>6 DEF FinalizeChannel, Is
    <2>2. new \in Channel /\ new.status = "Closed"
      BY <1>a, <2>1 DEF Channel, Status
    <2>3. channels' = [channels EXCEPT ![c] = new] /\ UNCHANGED <<deposited, replaced, wrapped>>
          /\ paidOut' = paidOut + channels[c].senderBalance + channels[c].receiverBalance
      BY <1>6 DEF FinalizeChannel
    <2> HIDE DEF new
    <2>4. Held(c)' = 0
      BY <1>0, <2>2, <2>3, HeldAfter
    <2>5. PICK x \in Amount, y \in Amount :
            x = channels[c].senderBalance /\ y = channels[c].receiverBalance
      BY <1>a, <2>1
    <2>6. /\ Held(c) = Wrap(x + y) /\ (c \notin wrapped => x + y = Held(c))
          /\ paidOut' = paidOut + x + y
      BY <1>a, <2>1, <2>3, <2>5 DEF Splits
    <2>7. CASE x + y \in Amount
      <3>1. Held(c) = x + y
        BY <2>6, <2>7, WrapSmall
      <3>2. Rest(c)' = Rest(c)
        BY <1>0, <2>3, <2>4, <2>6, <3>1 DEF Rest, Amount
      <3> QED BY <1>d, <2>3, <3>2
    <2>8. CASE x + y \notin Amount
      <3>1. Held(c) = x + y - AmountModulus
        BY <2>6, <2>8, WrapSum
      <3>2. Rest(c)' = Rest(c) + (-AmountModulus)
        BY <1>0, <2>3, <2>4, <2>6, <3>1 DEF Rest, Amount
      <3>3. c \in wrapped
        BY <1>0, <2>6, <3>1 DEF Amount
      <3> QED BY <2>3, <3>2, <3>3 DEF Kept
    <2> QED BY <2>7, <2>8
  <1>7. ASSUME CheckExpired(c)
        PROVE  Goal
    <2> DEFINE new == [channels[c] EXCEPT !.status = "Expired"]
    <2>1. channels[c] # None /\ channels[c].status # "Closed"
      BY <1>7 DEF CheckExpired, Is
    <2>2. new \in Channel /\ new.deposit = channels[c].deposit /\ new.status = "Expired"
      BY <1>a, <2>1 DEF Channel, Status
    <2>3. channels' = [channels EXCEPT ![c] = new]
          /\ UNCHANGED <<deposited, paidOut, replaced, wrapped>>
      BY <1>7 DEF CheckExpired, history
    <2> HIDE DEF new
    <2> QED BY <1>b, <2>1, <2>2, <2>3
  <1> QED BY <1>1, <1>2, <1>3, <1>4, <1>5, <1>6, <1>7 DEF ChannelStep

\* As long as no sum left its width, every token put into a channel is held there, was paid
\* out once, or was lost to a second opening of the same channel (channel/manager.rs:88, 123,
\* 193, 260), whatever the number of channels; and always up to multiples of that width.
THEOREM DepositsAreAccounted == Spec => []DepositsAccounted
  <1>1. Init => DepositsAccounted
    <2> SUFFICES ASSUME Init PROVE DepositsAccounted
      OBVIOUS
    <2> DEFINE f == [c \in ChannelId |-> Held(c)]
    <2>1. DOMAIN f = ChannelId /\ \A c \in ChannelId : f[c] = 0
      BY DEF Init, Held
    <2>2. SumFunction(f) = 0
      <3> HIDE DEF f
      <3> QED BY <2>1, ChannelIdsFinite, SumZero
    <2>3. Missing = 0
      BY <2>2 DEF Init, Missing
    <2>4. Wrap(0) = 0
      BY ChannelInputsTyped, WrapSmall DEF Amount
    <2> QED BY <2>3, <2>4 DEF DepositsAccounted
  <1>2. ASSUME ChannelInv, ChannelInv', DepositsAccounted, [Next]_vars
        PROVE  DepositsAccounted'
    <2>1. CASE NextHeight \/ UNCHANGED vars
      <3>1. UNCHANGED <<channels, deposited, paidOut, replaced, wrapped>>
        BY <2>1 DEF NextHeight, vars, history
      <3>2. [c \in ChannelId |-> Held(c)'] = [c \in ChannelId |-> Held(c)]
        BY <3>1 DEF Held, Is
      <3>3. Missing' = Missing
        BY <3>1, <3>2 DEF Missing
      <3> QED BY <1>2, <3>1, <3>3 DEF DepositsAccounted
    <2>2. ASSUME NEW c \in ChannelId, ChannelStep(c)
          PROVE  DepositsAccounted'
      <3> DEFINE before == SumFunction([d \in ChannelId |-> Held(d)])
                 after == SumFunction([d \in ChannelId |-> Held(d)'])
      <3>1. /\ TypeOK /\ TypeOK' /\ channels \in [ChannelId -> Channel \cup {None}]
            /\ deposited \in Nat /\ paidOut \in Nat /\ replaced \in Nat
            /\ deposited' \in Nat /\ paidOut' \in Nat /\ replaced' \in Nat
        BY <1>2 DEF ChannelInv, TypeOK
      <3>2. channels' = [channels EXCEPT ![c] = channels'[c]]
        BY <2>2, <3>1, StepAtOneChannel
      <3>3. after = before - Held(c) + Held(c)' /\ before \in Int
        BY <3>1, <3>2, HoldingsChange
      <3>4. PICK k \in {0, AmountModulus, -AmountModulus} :
              /\ Rest(c)' = Rest(c) + k
              /\ wrapped' = {} => wrapped = {} /\ k = 0
        BY <1>2, <2>2, StepMovesDeposit DEF Kept
      <3>5. Held(c) \in Nat /\ Held(c)' \in Nat /\ k \in Int
        BY <3>1, HeldType, HeldTypeNext, ChannelInputsTyped
      <3>6. Missing \in Int /\ Missing' = Missing + k
        <4>1. Missing = deposited - paidOut - replaced - before
          BY DEF Missing
        <4>2. Missing' = deposited' - paidOut' - replaced' - after
          BY DEF Missing
        <4> DEFINE out == deposited - paidOut - replaced
                   outNext == deposited' - paidOut' - replaced'
                   h == Held(c)
                   hNext == Held(c)'
        <4>3. out \in Int /\ outNext \in Int /\ h \in Int /\ hNext \in Int /\ k \in Int
          BY <3>1, <3>5
        <4>4. outNext - hNext = (out - h) + k
          BY <3>4 DEF Rest
        <4>5. Missing = out - before /\ Missing' = outNext - after
          BY <4>1, <4>2
        <4>6. after = before - h + hNext /\ before \in Int
          BY <3>3
        <4> HIDE DEF before, after, out, outNext, h, hNext
        <4> QED BY <4>3, <4>4, <4>5, <4>6
      <3>7. Wrap(Missing + k) = Wrap(Missing)
        <4>1. PICK m \in Int : m = Missing
          BY <3>6
        <4>2. \E q \in Int : k = AmountModulus * q
          <5>1. k = AmountModulus * 0 \/ k = AmountModulus * 1 \/ k = AmountModulus * (-1)
            BY ChannelInputsTyped
          <5> QED BY <5>1
        <4>3. PICK q \in Int : k = AmountModulus * q
          BY <4>2
        <4>4. (m + AmountModulus * q) % AmountModulus = m % AmountModulus
          BY ChannelInputsTyped, ModPeriod
        <4> QED BY <4>1, <4>3, <4>4 DEF Wrap
      <3> QED BY <1>2, <3>4, <3>6, <3>7 DEF DepositsAccounted
    <2> QED BY <1>2, <2>1, <2>2 DEF Next
  <1> QED BY <1>1, <1>2, ChannelInvariant, PTL DEF Spec

----------------------------------------------------------------------------
(* Batches.  Of a behavior of Payments the channels' part is a behavior of PaymentChannels, *)
(* and the batches' part one of BatchSettlement. *)

LEMMA PartsOfPayments ==
  PaymentsSpec => Spec /\ Settlement!Spec
  <1>1. PaymentsInit => Init /\ Settlement!Init
    BY DEF PaymentsInit
  <1>2. [PaymentsNext]_<<vars, settlementVars, part>>
          => [Next]_vars /\ [Settlement!Next]_(Settlement!vars)
    BY DEF PaymentsNext, vars, settlementVars, Settlement!vars, Settlement!history, history
  <1> QED BY <1>1, <1>2, PTL DEF PaymentsSpec, Spec, Settlement!Spec

\* The operators that BatchSettlement takes from the libraries are the libraries'.
LEMMA SameOperators ==
  /\ \A f : Settlement!SumFunction(f) = SumFunction(f) /\ Settlement!Range(f) = Range(f)
  /\ \A S : Settlement!Cardinality(S) = Cardinality(S)
  BY DEF Settlement!SumFunction, SumFunction, Settlement!SumFunctionOnSet, SumFunctionOnSet,
         Settlement!FoldFunctionOnSet, FoldFunctionOnSet, Settlement!MapThenFoldSet,
         MapThenFoldSet, Settlement!Range, Range, Settlement!Cardinality, Cardinality

LEMMA ChannelsInOf ==
  ASSUME NEW entries
  PROVE  Settlement!ChannelsOf(entries) = {entries[k].channel : k \in DOMAIN entries}
  BY SameOperators DEF Settlement!ChannelsOf, Range

\* A batch states a channel once.
OncePerBatch ==
  \A i \in DOMAIN batches :
    /\ Len(batches[i].settlements) \in 1 .. MaxBatchSize
    /\ \A k, m \in DOMAIN batches[i].settlements :
         batches[i].settlements[k].channel = batches[i].settlements[m].channel => k = m

\* Unless batches overlapped while they were pending, no two have a channel in common, for
\* what a completed one settles is refused afterwards; and the settled channels are those of
\* the completed batches.
Disjoint ==
  ~overlap =>
    /\ \A i, j \in DOMAIN batches : i # j =>
         \A k \in DOMAIN batches[i].settlements, m \in DOMAIN batches[j].settlements :
           batches[i].settlements[k].channel # batches[j].settlements[m].channel
    /\ \A c \in ChannelId :
         c \in settledChannels <=>
           \E i \in Settlement!Completed : \E k \in DOMAIN batches[i].settlements :
             batches[i].settlements[k].channel = c

\* What the completed batches settle together.
CompletedTotal ==
  SumFunction([i \in Settlement!Completed |-> Settlement!TotalOf(batches[i].settlements)])

TotalInv == ~repeat => totalSettled = Settlement!Saturated(CompletedTotal)

BatchInv == Settlement!TypeOK /\ OncePerBatch /\ Disjoint /\ TotalInv

LEMMA SaturatedPlus ==
  ASSUME NEW n \in Nat, NEW k \in Nat
  PROVE  /\ Settlement!Saturated(n) \in Nat
         /\ Settlement!Saturated(Settlement!Saturated(n) + k) = Settlement!Saturated(n + k)
  BY ChannelInputsTyped DEF Settlement!Saturated

\* What a list of entries states together.
LEMMA TotalOfNat ==
  ASSUME NEW entries \in Seq(Settlement!Entry)
  PROVE  Settlement!TotalOf(entries) \in Nat
  <1> DEFINE f == [k \in DOMAIN entries |-> entries[k].amount]
  <1>1. DOMAIN entries = 1 .. Len(entries) /\ Len(entries) \in Nat
    OBVIOUS
  <1>2. IsFiniteSet(DOMAIN entries)
    BY <1>1, FS_Interval
  <1>3. \A k \in DOMAIN entries : entries[k] \in Settlement!Entry
    OBVIOUS
  <1>4. f \in [DOMAIN entries -> Nat]
    BY <1>3, BatchInputsTyped DEF Settlement!Entry
  <1>5. SumFunction(f) \in Nat
    <2> HIDE DEF f
    <2> QED BY <1>2, <1>4, SumNat
  <1>6. Settlement!Saturated(SumFunction(f)) \in Nat
    <2> HIDE DEF f
    <2> QED BY <1>5, SaturatedPlus
  <1> QED BY <1>6, SameOperators DEF Settlement!TotalOf

\* A batch and its entries, by type.
LEMMA BatchFields ==
  ASSUME Settlement!TypeOK, NEW i \in DOMAIN batches
  PROVE  /\ batches[i] \in [settlements : Seq(Settlement!Entry), status : Settlement!BatchStatus]
         /\ batches[i].settlements \in Seq(Settlement!Entry)
         /\ batches[i].status \in {"Pending", "Completed"}
         /\ \A k \in DOMAIN batches[i].settlements :
              /\ batches[i].settlements[k] \in Settlement!Entry
              /\ batches[i].settlements[k].channel \in ChannelId
  <1> DEFINE B == [settlements : Seq(Settlement!Entry), status : Settlement!BatchStatus]
  <1>1. batches \in Seq(B)
    BY DEF Settlement!TypeOK
  <1>2. batches[i] \in B
    <2> HIDE DEF B
    <2> QED BY <1>1
  <1>3. batches[i].settlements \in Seq(Settlement!Entry)
    BY <1>2
  <1>4. PICK list \in Seq(Settlement!Entry) : list = batches[i].settlements
    BY <1>3
  <1>5. \A k \in DOMAIN list : list[k] \in Settlement!Entry
    BY <1>4
  <1>6. \A e \in Settlement!Entry : e.channel \in ChannelId
    BY DEF Settlement!Entry
  <1> QED BY <1>2, <1>4, <1>5, <1>6 DEF Settlement!BatchStatus

LEMMA CompletedIsFinite ==
  ASSUME Settlement!TypeOK
  PROVE  IsFiniteSet(DOMAIN batches) /\ IsFiniteSet(Settlement!Completed)
  <1>1. DOMAIN batches = 1 .. Len(batches) /\ Len(batches) \in Nat
    BY DEF Settlement!TypeOK
  <1>2. IsFiniteSet(DOMAIN batches)
    BY <1>1, FS_Interval
  <1> QED BY <1>2, FS_Subset DEF Settlement!Completed

LEMMA BatchInvInit == Settlement!Init => BatchInv
  <1> SUFFICES ASSUME Settlement!Init PROVE BatchInv
    OBVIOUS
  <1>1. Settlement!TypeOK
    <2>1. \A S : <<>> \in Seq(S)
      OBVIOUS
    <2>2. batches \in Seq([settlements : Seq(Settlement!Entry), status : Settlement!BatchStatus])
      <3> DEFINE S == [settlements : Seq(Settlement!Entry), status : Settlement!BatchStatus]
      <3>1. batches = <<>>
        BY DEF Settlement!Init
      <3> HIDE DEF S
      <3> QED BY <2>1, <3>1
    <2> QED BY <2>2 DEF Settlement!Init, Settlement!TypeOK
  <1>2. DOMAIN batches = {} /\ Settlement!Completed = {} /\ settledChannels = {}
    BY DEF Settlement!Init, Settlement!Completed
  <1>3. CompletedTotal = 0
    <2> DEFINE f == [i \in Settlement!Completed |-> Settlement!TotalOf(batches[i].settlements)]
    <2>1. DOMAIN f = {} /\ IsFiniteSet({})
      BY <1>2, FS_EmptySet
    <2>2. SumFunction(f) = 0
      <3> HIDE DEF f
      <3> QED BY <2>1, SumZero
    <2> QED BY <2>2 DEF CompletedTotal
  <1>4. Settlement!Saturated(0) = 0
    BY ChannelInputsTyped DEF Settlement!Saturated
  <1>5. TotalInv
    BY <1>3, <1>4 DEF TotalInv, Settlement!Init
  <1>6. OncePerBatch /\ Disjoint
    BY <1>2 DEF OncePerBatch, Disjoint
  <1> QED BY <1>1, <1>5, <1>6 DEF BatchInv

\* What create_batch appends, and what it leaves.
LEMMA CreatedBatch ==
  ASSUME Settlement!TypeOK, NEW n \in Nat, NEW entries \in [1 .. n -> Settlement!Entry],
         Settlement!CreateBatch(entries)
  PROVE  /\ entries \in Seq(Settlement!Entry) /\ DOMAIN entries = 1 .. Len(entries)
         /\ Len(entries) \in 1 .. MaxBatchSize
         /\ DOMAIN batches' = 1 .. Len(batches) + 1 /\ DOMAIN batches = 1 .. Len(batches)
         /\ Len(batches) \in Nat
         /\ \A i \in DOMAIN batches : batches'[i] = batches[i]
         /\ batches'[Len(batches) + 1] = [settlements |-> entries, status |-> "Pending"]
         /\ Settlement!TypeOK'
  <1>1. entries \in Seq(Settlement!Entry) /\ Len(entries) \in Nat
    OBVIOUS
  <1>2. entries # <<>> /\ Len(entries) <= MaxBatchSize
    BY DEF Settlement!CreateBatch, Settlement!Acceptable
  <1>3. batches' = Append(batches, [settlements |-> entries, status |-> "Pending"])
    BY DEF Settlement!CreateBatch
  <1>4. [settlements |-> entries, status |-> "Pending"]
          \in [settlements : Seq(Settlement!Entry), status : Settlement!BatchStatus]
    BY <1>1 DEF Settlement!BatchStatus
  <1>5. batches \in Seq([settlements : Seq(Settlement!Entry), status : Settlement!BatchStatus])
    BY DEF Settlement!TypeOK
  <1>6. overlap' \in BOOLEAN
    BY DEF Settlement!CreateBatch, Settlement!TypeOK
  <1>7. Settlement!TypeOK'
    BY <1>3, <1>4, <1>5, <1>6 DEF Settlement!CreateBatch, Settlement!TypeOK
  <1> QED BY <1>1, <1>2, <1>3, <1>5, <1>7, BatchInputsTyped

LEMMA CreateKeepsInv ==
  ASSUME BatchInv, NEW n \in Nat, NEW entries \in [1 .. n -> Settlement!Entry],
         Settlement!CreateBatch(entries)
  PROVE  BatchInv'
  <1> DEFINE new == Len(batches) + 1
  <1>a. /\ DOMAIN entries = 1 .. Len(entries) /\ Len(entries) \in 1 .. MaxBatchSize
        /\ DOMAIN batches' = 1 .. Len(batches) + 1 /\ DOMAIN batches = 1 .. Len(batches)
        /\ Len(batches) \in Nat
        /\ \A i \in DOMAIN batches : batches'[i] = batches[i]
        /\ batches'[new] = [settlements |-> entries, status |-> "Pending"]
        /\ Settlement!TypeOK'
    BY CreatedBatch DEF BatchInv
  <1>0. /\ Settlement!TypeOK /\ Settlement!TypeOK' /\ OncePerBatch /\ Disjoint /\ TotalInv
        /\ new \notin DOMAIN batches /\ DOMAIN batches' = DOMAIN batches \cup {new}
        /\ \A i \in DOMAIN batches : batches'[i] = batches[i]
        /\ batches'[new] = [settlements |-> entries, status |-> "Pending"]
        /\ DOMAIN entries = 1 .. Len(entries) /\ Len(entries) \in 1 .. MaxBatchSize
    BY <1>a DEF BatchInv
  <1>1. UNCHANGED <<settledChannels, totalSettled, repeat>>
    BY DEF Settlement!CreateBatch
  <1>2. Settlement!Completed' = Settlement!Completed
    BY <1>0 DEF Settlement!Completed
  <1> HIDE DEF new
  <1>3. OncePerBatch'
    <2>1. \A k, m \in DOMAIN entries : entries[k].channel = entries[m].channel => k = m
      BY <1>0 DEF Settlement!CreateBatch, Settlement!Acceptable
    <2> QED BY <1>0, <2>1 DEF OncePerBatch
  <1>4. Disjoint'
    <2> SUFFICES ASSUME ~overlap' PROVE Disjoint'
      BY DEF Disjoint
    <2>1. ~overlap
      BY DEF Settlement!CreateBatch
    <2>2. ASSUME NEW i \in DOMAIN batches, NEW k \in DOMAIN batches[i].settlements,
                 NEW m \in DOMAIN entries
          PROVE  batches[i].settlements[k].channel # entries[m].channel
      <3>1. batches[i].status \in {"Pending", "Completed"}
        BY <1>0, BatchFields
      <3>2. batches[i].settlements[k].channel \in ChannelId
        BY <1>0, BatchFields
      <3>3. CASE batches[i].status = "Completed"
        <4>1. batches[i].settlements[k].channel \in settledChannels
          BY <1>0, <2>1, <3>2, <3>3 DEF Disjoint, Settlement!Completed
        <4>2. entries[m].channel \notin settledChannels
          BY DEF Settlement!CreateBatch, Settlement!Acceptable
        <4> QED BY <4>1, <4>2
      <3>4. CASE batches[i].status = "Pending"
        <4>1. batches[i] \in Settlement!Range(batches)
          BY SameOperators DEF Range
        <4>2. Settlement!ChannelsOf(batches[i].settlements) \cap Settlement!ChannelsOf(entries) = {}
          BY <3>4, <4>1 DEF Settlement!CreateBatch
        <4> QED BY <4>2, ChannelsInOf
      <3> QED BY <3>1, <3>3, <3>4
    <2>3. \A i \in Settlement!Completed : i \in DOMAIN batches /\ batches'[i] = batches[i]
      BY <1>0 DEF Settlement!Completed
    <2>4. \A c \in ChannelId :
            c \in settledChannels <=>
              \E i \in Settlement!Completed : \E k \in DOMAIN batches[i].settlements :
                batches[i].settlements[k].channel = c
      BY <1>0, <2>1 DEF Disjoint
    <2>5. \A c \in ChannelId :
            c \in settledChannels' <=>
              \E i \in Settlement!Completed' : \E k \in DOMAIN batches'[i].settlements :
                batches'[i].settlements[k].channel = c
      BY <1>1, <1>2, <2>3, <2>4
    <2>6. \A i, j \in DOMAIN batches : i # j =>
            \A k \in DOMAIN batches[i].settlements, m \in DOMAIN batches[j].settlements :
              batches[i].settlements[k].channel # batches[j].settlements[m].channel
      BY <1>0, <2>1 DEF Disjoint
    <2>7. \A i, j \in DOMAIN batches' : i # j =>
            \A k \in DOMAIN batches'[i].settlements, m \in DOMAIN batches'[j].settlements :
              batches'[i].settlements[k].channel # batches'[j].settlements[m].channel
      BY <1>0, <2>2, <2>6
    <2> QED BY <2>5, <2>7 DEF Disjoint
  <1>5. TotalInv'
    <2>1. \A i \in Settlement!Completed : batches'[i] = batches[i]
      BY <1>0 DEF Settlement!Completed
    <2>2. CompletedTotal' = CompletedTotal
      BY <1>2, <2>1 DEF CompletedTotal
    <2> QED BY <1>0, <1>1, <2>2 DEF TotalInv
  <1> QED BY <1>0, <1>3, <1>4, <1>5 DEF BatchInv

\* What process_batch leaves of the batches.
LEMMA ProcessedBatch ==
  ASSUME Settlement!TypeOK, NEW i, Settlement!ProcessBatch(i)
  PROVE  /\ i \in DOMAIN batches /\ DOMAIN batches' = DOMAIN batches
         /\ \A j \in DOMAIN batches : batches'[j].settlements = batches[j].settlements
         /\ \A j \in DOMAIN batches \ {i} : batches'[j] = batches[j]
         /\ Settlement!Completed' = Settlement!Completed \cup {i}
         /\ Settlement!TypeOK'
  <1> DEFINE B == [settlements : Seq(Settlement!Entry), status : Settlement!BatchStatus]
             done == [batches[i] EXCEPT !.status = "Completed"]
             list == batches[i].settlements
  <1>1. i \in DOMAIN batches /\ batches \in Seq(B)
    BY DEF Settlement!ProcessBatch, Settlement!TypeOK
  <1>2. batches[i] \in B /\ list \in Seq(Settlement!Entry)
    BY <1>1, BatchFields
  <1>3. done \in B /\ done.settlements = list /\ done.status = "Completed"
    BY <1>2 DEF Settlement!BatchStatus
  <1>4. batches' = [batches EXCEPT ![i] = done]
    BY DEF Settlement!ProcessBatch
  <1>5. batches' \in Seq(B)
    <2> HIDE DEF B, done
    <2> QED BY <1>1, <1>3, <1>4
  <1>6. settledChannels' \subseteq ChannelId
    <2>1. Settlement!ChannelsOf(list) \subseteq ChannelId
      BY <1>1, BatchFields, ChannelsInOf
    <2> QED BY <2>1 DEF Settlement!ProcessBatch, Settlement!TypeOK
  <1>7. totalSettled' \in Nat /\ totalBatchesProcessed' \in Nat
    <2>1. Settlement!TotalOf(list) \in Nat
      BY <1>2, TotalOfNat
    <2> HIDE DEF list
    <2>2. totalSettled' = Settlement!Saturated(totalSettled + Settlement!TotalOf(list))
      BY DEF Settlement!ProcessBatch, list
    <2>3. totalSettled + Settlement!TotalOf(list) \in Nat
      BY <2>1 DEF Settlement!TypeOK
    <2>4. totalSettled' \in Nat
      BY <2>2, <2>3, SaturatedPlus
    <2> QED BY <2>4 DEF Settlement!ProcessBatch, Settlement!TypeOK
  <1>8. repeat' \in BOOLEAN /\ overlap' \in BOOLEAN
    BY DEF Settlement!ProcessBatch, Settlement!TypeOK
  <1>9. Settlement!TypeOK'
    BY <1>5, <1>6, <1>7, <1>8 DEF Settlement!TypeOK
  <1>10. /\ DOMAIN batches' = DOMAIN batches
         /\ \A j \in DOMAIN batches \ {i} : batches'[j] = batches[j]
         /\ batches'[i] = done
    BY <1>1, <1>4
  <1> QED BY <1>1, <1>3, <1>9, <1>10 DEF Settlement!Completed

LEMMA ProcessKeepsInv ==
  ASSUME BatchInv, NEW i, Settlement!ProcessBatch(i)
  PROVE  BatchInv'
  <1>0. /\ Settlement!TypeOK /\ OncePerBatch /\ Disjoint /\ TotalInv
        /\ i \in DOMAIN batches /\ DOMAIN batches' = DOMAIN batches
        /\ \A j \in DOMAIN batches : batches'[j].settlements = batches[j].settlements
        /\ Settlement!Completed' = Settlement!Completed \cup {i}
        /\ Settlement!TypeOK'
    BY ProcessedBatch DEF BatchInv
  <1>1. OncePerBatch'
    BY <1>0 DEF OncePerBatch
  <1>2. Disjoint'
    <2> SUFFICES ASSUME ~overlap' PROVE Disjoint'
      BY DEF Disjoint
    <2>1. ~overlap
      BY DEF Settlement!ProcessBatch
    <2>2. settledChannels' = settledChannels \cup
            {batches[i].settlements[k].channel : k \in DOMAIN batches[i].settlements}
      BY ChannelsInOf DEF Settlement!ProcessBatch
    <2>3. Settlement!Completed \subseteq DOMAIN batches
      BY DEF Settlement!Completed
    <2>4. \A c \in ChannelId :
            c \in settledChannels' <=>
              \E j \in Settlement!Completed' : \E k \in DOMAIN batches'[j].settlements :
                batches'[j].settlements[k].channel = c
      BY <1>0, <2>1, <2>2, <2>3 DEF Disjoint
    <2> QED BY <1>0, <2>1, <2>4 DEF Disjoint
  <1>3. TotalInv'
    <2> SUFFICES ASSUME ~repeat' PROVE totalSettled' = Settlement!Saturated(CompletedTotal')
      BY DEF TotalInv, Settlement!Saturated
    <2> DEFINE C == Settlement!Completed
               f == [j \in C |-> Settlement!TotalOf(batches[j].settlements)]
               g == [j \in C \cup {i} |-> Settlement!TotalOf(batches[j].settlements)]
    <2>1. ~repeat /\ i \notin C
      BY DEF Settlement!ProcessBatch, Settlement!Completed
    <2>2. IsFiniteSet(C) /\ C \subseteq DOMAIN batches
      BY <1>0, CompletedIsFinite DEF Settlement!Completed
    <2>3. \A j \in DOMAIN batches : Settlement!TotalOf(batches[j].settlements) \in Nat
      BY <1>0, BatchFields, TotalOfNat
    <2>4. f \in [C -> Int] /\ g \in [C \cup {i} -> Int] /\ \A j \in C : g[j] = f[j]
      BY <1>0, <2>2, <2>3
    <2>5. SumFunction(g) = SumFunction(f) + g[i]
      <3> HIDE DEF C, f, g
      <3> QED BY <2>1, <2>2, <2>4, SumExtend
    <2>6. g[i] = Settlement!TotalOf(batches[i].settlements)
      OBVIOUS
    <2>7. totalSettled' = Settlement!Saturated(totalSettled + g[i])
      BY <2>6 DEF Settlement!ProcessBatch
    <2>8. totalSettled = Settlement!Saturated(SumFunction(f))
      BY <1>0, <2>1 DEF TotalInv, CompletedTotal
    <2>9. CompletedTotal' = SumFunction(g)
      <3>1. \A j \in C \cup {i} : batches'[j].settlements = batches[j].settlements
        BY <1>0, <2>2
      <3>2. [j \in Settlement!Completed' |-> Settlement!TotalOf(batches'[j].settlements)] = g
        BY <1>0, <3>1
      <3>3. CompletedTotal' =
              SumFunction([j \in Settlement!Completed' |->
                             Settlement!TotalOf(batches'[j].settlements)])
        BY DEF CompletedTotal, Settlement!TotalOf
      <3> QED BY <3>2, <3>3
    <2>10. SumFunction(f) \in Nat /\ g[i] \in Nat
      <3>1. f \in [C -> Nat] /\ g[i] \in Nat
        BY <1>0, <2>2, <2>3, <2>6
      <3> HIDE DEF C, f, g
      <3> QED BY <2>2, <3>1, SumNat
    <2> HIDE DEF f, g
    <2>11. Settlement!Saturated(Settlement!Saturated(SumFunction(f)) + g[i])
             = Settlement!Saturated(SumFunction(f) + g[i])
      BY <2>10, SaturatedPlus
    <2> QED BY <2>5, <2>7, <2>8, <2>9, <2>11
  <1> QED BY <1>0, <1>1, <1>2, <1>3 DEF BatchInv

LEMMA BatchInvariant == Settlement!Spec => []BatchInv
  <1>1. ASSUME BatchInv, [Settlement!Next]_(Settlement!vars)
        PROVE  BatchInv'
    <2>1. CASE UNCHANGED Settlement!vars
      <3>1. UNCHANGED <<batches, settledChannels, totalSettled, totalBatchesProcessed, overlap,
                        repeat>>
        BY <2>1 DEF Settlement!vars, Settlement!history
      <3>2. Settlement!Completed' = Settlement!Completed
        BY <3>1 DEF Settlement!Completed
      <3> QED BY <1>1, <3>1, <3>2
          DEF BatchInv, Settlement!TypeOK, OncePerBatch, Disjoint, TotalInv, CompletedTotal,
              Settlement!TotalOf
    <2>2. ASSUME NEW n \in 0 .. MaxBatchSize + 1, NEW entries \in [1 .. n -> Settlement!Entry],
                 Settlement!CreateBatch(entries)
          PROVE  BatchInv'
      <3>1. n \in Nat
        BY BatchInputsTyped
      <3> QED BY <1>1, <2>2, <3>1, CreateKeepsInv
    <2>3. ASSUME NEW i, Settlement!ProcessBatch(i)
          PROVE  BatchInv'
      BY <1>1, <2>3, ProcessKeepsInv
    <2>4. ASSUME Settlement!Next
          PROVE  \/ \E n \in 0 .. MaxBatchSize + 1 : \E entries \in [1 .. n -> Settlement!Entry] :
                      Settlement!CreateBatch(entries)
                 \/ \E i : Settlement!ProcessBatch(i)
      BY <2>4 DEF Settlement!Next
    <2> QED BY <1>1, <2>1, <2>2, <2>3, <2>4
  <1> QED BY <1>1, BatchInvInit, PTL DEF Settlement!Spec

\* The types of both managers' state, for every number of channels and batches
\* (channel/manager.rs:14, batch_settlement/processor.rs:27).
THEOREM PaymentsTypeCorrect == PaymentsSpec => []PaymentsTypeOK
  <1>1. TypeOK /\ BatchInv => PaymentsTypeOK
    BY DEF PaymentsTypeOK, BatchInv
  <1> QED BY <1>1, PartsOfPayments, ChannelTypeCorrect, BatchInvariant, PTL

\* As long as no batch is processed twice and no two pending batches hold one channel, a
\* channel is settled once and the total is that of the completed batches, saturated
\* (batch_settlement/processor.rs:114, 190, 194), whatever is put into batches and in whatever
\* order they are processed.
THEOREM BatchesSettleOnce == PaymentsSpec => []SettledOnceInOrder
  <1>1. BatchInv => SettledOnceInOrder
    <2> SUFFICES ASSUME BatchInv, ~overlap, ~repeat
                 PROVE  /\ \A c \in ChannelId : Cardinality(Settlement!SettlementsOf(c)) =
                                               IF c \in settledChannels THEN 1 ELSE 0
                        /\ totalSettled = Settlement!Saturated(CompletedTotal)
      BY SameOperators
      DEF SettledOnceInOrder, Settlement!SettledOnceInOrder, CompletedTotal
    <2>1. totalSettled = Settlement!Saturated(CompletedTotal)
      BY DEF BatchInv, TotalInv
    <2>2. ASSUME NEW c \in ChannelId, c \notin settledChannels
          PROVE  Settlement!SettlementsOf(c) = {}
      BY <2>2 DEF BatchInv, Disjoint, Settlement!SettlementsOf
    <2>3. ASSUME NEW c \in ChannelId, c \in settledChannels
          PROVE  Cardinality(Settlement!SettlementsOf(c)) = 1
      <3>a. PICK i \in Settlement!Completed : \E k \in DOMAIN batches[i].settlements :
              batches[i].settlements[k].channel = c
        BY <2>3 DEF BatchInv, Disjoint
      <3>1. PICK k \in DOMAIN batches[i].settlements : batches[i].settlements[k].channel = c
        BY <3>a
      <3>2. \A j \in Settlement!Completed : j \in DOMAIN batches
        BY DEF Settlement!Completed
      <3>3. k \in 1 .. MaxBatchSize
        <4>1. batches[i].settlements \in Seq(Settlement!Entry)
          BY <3>2, BatchFields DEF BatchInv
        <4>2. Len(batches[i].settlements) \in 1 .. MaxBatchSize
          BY <3>2 DEF BatchInv, OncePerBatch
        <4>3. PICK list \in Seq(Settlement!Entry) : list = batches[i].settlements
          BY <4>1
        <4> QED BY <4>2, <4>3, BatchInputsTyped
      <3>4. ASSUME NEW j \in Settlement!Completed, NEW m \in DOMAIN batches[j].settlements,
                   batches[j].settlements[m].channel = c
            PROVE  j = i /\ m = k
        <4>1. i = j
          BY <3>1, <3>2, <3>4 DEF BatchInv, Disjoint
        <4> QED BY <3>1, <3>2, <3>4, <4>1 DEF BatchInv, OncePerBatch
      <3>5. <<i, k>> \in Settlement!SettlementsOf(c)
        BY <3>1, <3>3 DEF Settlement!SettlementsOf
      <3>6. \A place \in Settlement!SettlementsOf(c) :
              /\ place \in Settlement!Completed \X (1 .. MaxBatchSize)
              /\ place[1] = i /\ place[2] = k
        BY <3>4 DEF Settlement!SettlementsOf
      <3>7. Settlement!SettlementsOf(c) = {<<i, k>>}
        BY <3>5, <3>6
      <3> QED BY <3>7, FS_Singleton
    <2> QED BY <2>1, <2>2, <2>3, FS_EmptySet
  <1> QED BY <1>1, PartsOfPayments, BatchInvariant, PTL
=============================================================================
