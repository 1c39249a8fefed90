----------------------------- MODULE MCManagers -----------------------------
(* An instance of Managers for TLC. *)
EXTENDS Managers, TLC

CONSTANTS u, v, s, t

\* One user deposits two amounts, and either of them twice.
MCDepositId == [user : {u}, amount : {1, 2}, at : {0, 1}]

\* Two users; requests below the minimum, and some that fill the limit together.
MCWithdrawalId == [user : {u}, credits : {1, 2, 3}, at : {0, 1}]
                    \cup [user : {v}, credits : {3}, at : {0}]

\* Half of it, rounded down.
Half(n) == n \div 2

\* Two charges for the same, and two that are refused.
MCBillingEvent ==
  {[id |-> i, user |-> u, provider |-> v, amount |-> 3] : i \in {1, 2}}
    \cup {[id |-> 3, user |-> u, provider |-> v, amount |-> 0],
          [id |-> 4, user |-> u, provider |-> u, amount |-> 1]}

\* The same proposal at two heights.
MCProposalId == [name : {"p"}, at : {0, 1}]

\* One schedule that vests in steps and whose product saturates, and one whose cliff is its
\* end; two of the first have a sum that wraps.
MCVestingSchedules ==
  {[total |-> 5, start |-> 0, cliff |-> 0, end |-> 3],
   [total |-> 2, start |-> 0, cliff |-> 2, end |-> 2]}

\* One subnet alone, none of them, two of which one has no weight, and two whose sum wraps.
MCSubnetWeights ==
  {s :> 2, <<>>, [x \in {s, t} |-> IF x = s THEN 3 ELSE 1],
   [x \in {s, t} |-> IF x = s THEN 0 ELSE 1], [x \in {s, t} |-> IF x = s THEN 5 ELSE 4]}

\* Stakes of which some give a product that wraps, and some a sum that does, also to 0.
MCProviderStakes ==
  {[x \in {s, t} |-> (u :> stake[1] @@ v :> stake[2])] :
     stake \in {<<2, 4>>, <<0, 3>>, <<0, 0>>, <<9, 8>>, <<30, 4>>, <<30, 2>>}}

\* A discount, and one above the maximum.
MCDiscountTiers ==
  {[reputation |-> 1, discount |-> 2500], [reputation |-> 2, discount |-> 9000]}

\* A limit of the day below that of the period, one of the month, a period of no blocks, and
\* one whose end is a height only when it begins at the first.
MCWalletTerms ==
  {[owner |-> u, limit |-> 2, length |-> 2, daily |-> 1, monthly |-> 0],
   [owner |-> u, limit |-> 1, length |-> 0, daily |-> 0, monthly |-> 2],
   [owner |-> u, limit |-> 1, length |-> 7, daily |-> 0, monthly |-> 0]}

MCDelegationId == [delegator : {u}, agent : {v}, at : {0}]

MCProgramId == [admin : {u}, at : {0, 1}]

MCCurves ==
  {[kind |-> "Linear", a |-> 1, b |-> 0], [kind |-> "Quadratic", a |-> 2, b |-> 0],
   [kind |-> "Sigmoid", a |-> 20, b |-> 5]}

\* One capability, two, and one twice.
MCCapabilityLists == {<<"code">>, <<"code", "data">>, <<"data", "data">>, <<>>}

\* A subnet that nobody can join until it is resumed.
MCSubnetConfigs == {[minStake |-> 2, maxProviders |-> 2, weight |-> 1, status |-> "Deprecated"]}

\* A subnet for two providers and one for one; a stake of 1 is too small for both.
MCDefaultSubnets ==
  <<[id |-> s, config |-> [minStake |-> 2, maxProviders |-> 2, weight |-> 0,
                           status |-> "Active"]],
    [id |-> t, config |-> [minStake |-> 2, maxProviders |-> 1, weight |-> 1,
                           status |-> "Active"]]>>

MCFailureDelta == -2
MCDisputeLossDelta == -6
=============================================================================
