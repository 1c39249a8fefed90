-------------------------- MODULE PaymentChannels --------------------------
(***************************************************************************)
(* Payment channels (channel/manager.rs): the sender's deposit, split      *)
(* between sender and receiver by states the two agree on off-chain, until *)
(* one of them closes the channel and the last state is paid out.          *)
(*                                                                         *)
(* Every operation is one &mut self call on ChannelManager, so it is one   *)
(* action.  A channel's id is the hash of sender, receiver and opening     *)
(* height, so it is these three.  Callers pass the chain's height, which   *)
(* only grows.  The manager does not see signatures: an update may state   *)
(* any balances.  Amounts are u128, and no call checks their sums, which   *)
(* wrap in the release build; AmountModulus stands for 2^128.  Heights and *)
(* periods, which the node sets, stay below 2^64.  The two indexes by      *)
(* party only serve queries.                                               *)
(***************************************************************************)
EXTENDS Integers, FiniteSets, Functions

CONSTANTS
  Address,
  ChannelId,       \* [sender, receiver, openedAt] of the channels that may be opened
  None,            \* a missing map entry
  Deposits,        \* amounts put in by opening and topping up
  Balances,        \* balances that an update may state
  Nonces,          \* nonces that an update may state
  AmountModulus,   \* amounts are u128: 2^128
  DisputePeriod,   \* default_dispute_period, in blocks
  Expiry           \* default_expiry, in blocks

\* Bounds of the exploration, which the code does not have.
CONSTANTS
  MaxHeight,       \* the height of the chain
  MaxDeposited     \* all deposits together

Status == {"Open", "Closing", "Disputed", "Closed", "Expired"}

Amount == 0 .. AmountModulus - 1

\* since is the height in Closing and Disputed, and in the others the last one there.
Channel ==
  [deposit : Amount, senderBalance : Amount, receiverBalance : Amount, nonce : Nat,
   status : Status, since : Nat]

ASSUME ChannelIdsTyped ==
  ChannelId \subseteq [sender : Address, receiver : Address, openedAt : Nat]
ASSUME ChannelInputsTyped ==
  /\ AmountModulus \in Nat \ {0}
  /\ Deposits \subseteq Amount /\ Balances \subseteq Amount /\ Nonces \subseteq Nat
  /\ DisputePeriod \in Nat \ {0} /\ Expiry \in Nat \ {0}
  /\ MaxHeight \in Nat /\ MaxDeposited \in Nat
ASSUME NoneIsNoChannel == None \notin Channel
ASSUME ChannelIdsFinite == IsFiniteSet(ChannelId)

VARIABLES
  channels,        \* Channel by id
  height           \* the height of the chain

\* History, which the code does not keep.
VARIABLES
  deposited,       \* tokens put into channels
  paidOut,         \* tokens that finalize_channel paid to the two parties
  replaced,        \* tokens in channels that a second opening replaced
  changedAt,       \* the height at which a channel's balances last changed
  wrapped          \* ids of channels for which a sum of amounts left its width

history == <<deposited, paidOut, replaced, changedAt, wrapped>>
vars == <<channels, height, history>>

Init ==
  /\ channels = [c \in ChannelId |-> None]
  /\ height = 0
  /\ deposited = 0 /\ paidOut = 0 /\ replaced = 0
  /\ changedAt = [c \in ChannelId |-> 0]
  /\ wrapped = {}

\* The sum of two amounts in the release build.
Wrap(n) == n % AmountModulus

\* What wrapped becomes when these sums are computed for channel c.
WrappedBy(c, sums) == IF sums \subseteq Amount THEN wrapped ELSE wrapped \cup {c}

Is(c, statuses) == channels[c] # None /\ channels[c].status \in statuses

Party(c, who) == who \in {c.sender, c.receiver}

\* A block is added to the chain.
NextHeight ==
  /\ height < MaxHeight
  /\ height' = height + 1
  /\ UNCHANGED <<channels, history>>

\* What channel c holds for its parties.
Held(c) == IF channels[c] = None \/ Is(c, {"Closed"}) THEN 0 ELSE channels[c].deposit

\* Mutant: the next channel of the same parties takes the id of the last one.
OpenAtAnyHeight(c, deposit) ==
  /\ c.sender # c.receiver /\ deposit # 0 /\ deposited + deposit <= MaxDeposited
  /\ channels' = [channels EXCEPT ![c] =
       [deposit |-> deposit, senderBalance |-> deposit, receiverBalance |-> 0, nonce |-> 0,
        status |-> "Open", since |-> 0]]
  /\ deposited' = deposited + deposit
  /\ replaced' = replaced + Held(c)
  /\ changedAt' = [changedAt EXCEPT ![c] = height]
  /\ UNCHANGED <<height, paidOut, wrapped>>

\* A channel that the same parties opened at the same height is replaced.
OpenChannel(c, deposit) ==
  /\ c.sender # c.receiver /\ deposit # 0 /\ c.openedAt = height
  /\ deposited + deposit <= MaxDeposited
  /\ channels' = [channels EXCEPT ![c] =
       [deposit |-> deposit, senderBalance |-> deposit, receiverBalance |-> 0, nonce |-> 0,
        status |-> "Open", since |-> 0]]
  /\ deposited' = deposited + deposit
  /\ replaced' = replaced + Held(c)
  /\ changedAt' = [changedAt EXCEPT ![c] = height]
  /\ UNCHANGED <<height, paidOut, wrapped>>

\* An update that the manager takes: newer, and the balances add up, as the sum comes out.
Acceptable(c, u) ==
  /\ u.nonce > channels[c].nonce
  /\ Wrap(u.senderBalance + u.receiverBalance) = channels[c].deposit

Update == [nonce : Nonces, senderBalance : Balances, receiverBalance : Balances]

Applied(c, u) ==
  [channels[c] EXCEPT !.nonce = u.nonce, !.senderBalance = u.senderBalance,
                      !.receiverBalance = u.receiverBalance]

UpdateChannel(c, u) ==
  /\ Is(c, {"Open"}) /\ Acceptable(c, u)
  /\ channels' = [channels EXCEPT ![c] = Applied(c, u)]
  /\ changedAt' = [changedAt EXCEPT ![c] = height]
  /\ wrapped' = WrappedBy(c, {u.senderBalance + u.receiverBalance})
  /\ UNCHANGED <<height, deposited, paidOut, replaced>>

\* Mutant: the close stores the start of a period that ends now.
CloseWithPeriodOver(c, who) ==
  /\ Party(c, who) /\ Is(c, {"Open"})
  /\ channels' = [channels EXCEPT ![c].status = "Closing", ![c].since = height - DisputePeriod]
  /\ UNCHANGED <<height, history>>

CloseChannel(c, who) ==
  /\ Party(c, who) /\ Is(c, {"Open"})
  /\ channels' = [channels EXCEPT ![c].status = "Closing", ![c].since = height]
  /\ UNCHANGED <<height, history>>

\* Mutant: the dispute runs out with the close that it answers.
DisputeKeepsPeriod(c, u, who) ==
  /\ Party(c, who) /\ Is(c, {"Open", "Closing"}) /\ Acceptable(c, u)
  /\ channels' = [channels EXCEPT ![c] =
       [Applied(c, u) EXCEPT !.status = "Disputed",
                             !.since = IF Is(c, {"Closing"}) THEN @ ELSE height]]
  /\ changedAt' = [changedAt EXCEPT ![c] = height]
  /\ wrapped' = WrappedBy(c, {u.senderBalance + u.receiverBalance})
  /\ UNCHANGED <<height, deposited, paidOut, replaced>>

\* dispute_channel starts the dispute period again; a disputed channel takes no answer.
DisputeChannel(c, u, who) ==
  /\ Party(c, who) /\ Is(c, {"Open", "Closing"}) /\ Acceptable(c, u)
  /\ channels' = [channels EXCEPT ![c] =
       [Applied(c, u) EXCEPT !.status = "Disputed", !.since = height]]
  /\ changedAt' = [changedAt EXCEPT ![c] = height]
  /\ wrapped' = WrappedBy(c, {u.senderBalance + u.receiverBalance})
  /\ UNCHANGED <<height, deposited, paidOut, replaced>>

\* Mutant: the channel stays as it was.
FinalizeAgain(c) ==
  /\ Is(c, {"Closing", "Disputed"}) /\ height >= channels[c].since + DisputePeriod
  /\ paidOut < MaxDeposited
  /\ paidOut' = paidOut + channels[c].senderBalance + channels[c].receiverBalance
  /\ UNCHANGED <<channels, height, deposited, replaced, changedAt, wrapped>>

\* finalize_channel, by anyone: the two balances are paid out.
FinalizeChannel(c) ==
  /\ Is(c, {"Closing", "Disputed"}) /\ height >= channels[c].since + DisputePeriod
  /\ channels' = [channels EXCEPT ![c].status = "Closed"]
  /\ paidOut' = paidOut + channels[c].senderBalance + channels[c].receiverBalance
  /\ UNCHANGED <<height, deposited, replaced, changedAt, wrapped>>

\* Mutant: the deposit grows, and nobody's balance.
TopUpDeposit(c, amount) ==
  /\ Is(c, {"Open"}) /\ amount # 0 /\ deposited + amount <= MaxDeposited
  /\ channels' = [channels EXCEPT ![c].deposit = Wrap(@ + amount)]
  /\ deposited' = deposited + amount
  /\ changedAt' = [changedAt EXCEPT ![c] = height]
  /\ wrapped' = WrappedBy(c, {channels[c].deposit + amount, channels[c].senderBalance + amount})
  /\ UNCHANGED <<height, paidOut, replaced>>

\* top_up, by anyone, to the sender's side.  The nonce stays, so a state agreed on before
\* no longer adds up.
TopUp(c, amount) ==
  /\ Is(c, {"Open"}) /\ amount # 0 /\ deposited + amount <= MaxDeposited
  /\ channels' = [channels EXCEPT ![c] =
       [@ EXCEPT !.deposit = Wrap(channels[c].deposit + amount),
                 !.senderBalance = Wrap(channels[c].senderBalance + amount)]]
  /\ deposited' = deposited + amount
  /\ changedAt' = [changedAt EXCEPT ![c] = height]
  /\ wrapped' = WrappedBy(c, {channels[c].deposit + amount, channels[c].senderBalance + amount})
  /\ UNCHANGED <<height, paidOut, replaced>>

\* check_expired; an open channel goes on until somebody calls it.  Nothing pays out what
\* an expired channel holds.
CheckExpired(c) ==
  /\ Is(c, {"Open"}) /\ height >= c.openedAt + Expiry
  /\ channels' = [channels EXCEPT ![c].status = "Expired"]
  /\ UNCHANGED <<height, history>>

ChannelStep(c) ==
  \/ \E a \in Deposits : OpenChannel(c, a) \/ TopUp(c, a)
  \/ \E u \in Update : UpdateChannel(c, u) \/ \E who \in Address : DisputeChannel(c, u, who)
  \/ \E who \in Address : CloseChannel(c, who)
  \/ FinalizeChannel(c)
  \/ CheckExpired(c)

Next == NextHeight \/ \E c \in ChannelId : ChannelStep(c)

Spec == Init /\ [][Next]_vars

----------------------------------------------------------------------------
(* Properties *)

\* Types of the manager's state.
TypeOK ==
  /\ channels \in [ChannelId -> Channel \cup {None}]
  /\ height \in Nat
  /\ deposited \in Nat /\ paidOut \in Nat /\ replaced \in Nat
  /\ changedAt \in [ChannelId -> Nat]
  /\ wrapped \subseteq ChannelId

\* In whatever order states, disputes and top-ups arrive, the parties' balances add up to
\* the deposit as the code adds, and exactly unless a sum of the channel's amounts left its
\* width (manager.rs:123, 193, 260).  After such a sum they are 2^128 apart, and
\* finalize_channel pays them out as they are.
BalancesSplitDeposit ==
  \A c \in ChannelId : channels[c] # None =>
    LET sum == channels[c].senderBalance + channels[c].receiverBalance
    IN /\ Wrap(sum) = channels[c].deposit
       /\ c \notin wrapped => sum = channels[c].deposit

\* Tokens put into channels and neither held there, nor paid out, nor lost when the same
\* parties opened a second channel at the same height.
Missing == deposited - paidOut - replaced - SumFunction([c \in ChannelId |-> Held(c)])

\* As long as no sum left its width, every token put into a channel is held there, was paid
\* out once, or was lost with a channel that another replaced (manager.rs:88); and at all
\* times what is missing or paid too much is a multiple of 2^128.
DepositsAccounted == Wrap(Missing) = 0 /\ (wrapped = {} => Missing = 0)

\* A channel that was paid out or expired never changes again, nor is its id given to another:
\* both need a later height than the opening's (manager.rs:88, 228, 313).
EndedStaysEnded ==
  [][\A c \in ChannelId : Is(c, {"Closed", "Expired"}) => channels'[c] = channels[c]]_vars

\* No state that was recorded less than a dispute period ago is paid out: whoever it
\* surprised has had the whole period (manager.rs:200, 228).
PeriodAfterLastChange ==
  [][\A c \in ChannelId : ~Is(c, {"Closed"}) /\ Is(c, {"Closed"})' =>
       height >= changedAt[c] + DisputePeriod]_vars
=============================================================================
