---------------------------- MODULE AgentTokens ----------------------------
(***************************************************************************)
(* Tokens of agents on a bonding curve (agent_token/factory.rs, curve.rs): *)
(* a buyer's ISA goes into the token's reserve and a seller's comes out of *)
(* it.  Every division rounds down.                                        *)
(*                                                                         *)
(* Scale stands for SCALE.  The code finds the tokens that a sum buys by   *)
(* an integer square root or a binary search; here they are the largest    *)
(* number that the search finds.  The products of prices and amounts are   *)
(* taken to fit into u128, which nothing checks.                           *)
(***************************************************************************)
EXTENDS Common

CONSTANTS
  TokenAgent, TokenHolder, NoToken,   \* agents, addresses, and a missing map entry
  Curves,                             \* [kind, a, b]: Linear and Quadratic have no b
  Scale,                              \* SCALE
  TradeAmounts,                       \* what callers buy for and sell
  MaxTrades                           \* bound of the exploration

AgentToken == [curve : Curves, supply : Nat, reserve : Nat, holders : [TokenHolder -> Nat]]

ASSUME AgentTokensTyped ==
  /\ NoToken \notin AgentToken /\ Scale \in Nat \ {0} /\ TradeAmounts \subseteq Nat
  /\ IsFiniteSet(TokenHolder)
  /\ \A c \in Curves :
       c.kind \in {"Linear", "Quadratic", "Sigmoid"} /\ c.a \in Nat /\ c.b \in Nat

VARIABLES
  agentTokens,    \* AgentToken by agent
  bought, sold    \* history, by agent: how many purchases and sales there were

agentTokenVars == <<agentTokens, bought, sold>>

AgentTokensInit ==
  /\ agentTokens = [a \in TokenAgent |-> NoToken]
  /\ bought = [a \in TokenAgent |-> 0] /\ sold = [a \in TokenAgent |-> 0]

\* price_at.  A sigmoid is a slope between 20% and 80% of its midpoint b, from 5% to 95% of
\* its price a.
PriceAt(c, supply) ==
  LET low == c.b \div 5  high == (c.b * 4) \div 5 IN
  CASE c.kind = "Linear" -> (c.a * supply) \div Scale
    [] c.kind = "Quadratic" -> (((c.a * supply) \div Scale) * supply) \div Scale
    [] c.kind = "Sigmoid" ->
         IF supply <= low THEN c.a \div 20
         ELSE IF supply >= high THEN (c.a * 19) \div 20
         ELSE c.a \div 20 + (((c.a * 9) \div 10) * (supply - low)) \div (high - low)

\* What buy_cost asks for the tokens between two supplies, and sell_proceeds pays for them.
CurveCost(c, from, to) ==
  LET cube(n) == (n \div Scale) * (n \div Scale) * (n \div Scale) IN
  CASE c.kind = "Linear" -> (c.a * (to * to - from * from)) \div (2 * Scale)
    [] c.kind = "Quadratic" -> (c.a * (cube(to) - cube(from))) \div 3
    [] c.kind = "Sigmoid" -> ((PriceAt(c, from) + PriceAt(c, to)) * (to - from)) \div 2

\* tokens_for_isa
TokensFor(c, supply, isa) ==
  LET root(n) == CHOOSE r \in 0 .. n : r * r <= n /\ (r + 1) * (r + 1) > n
      most == isa \div Larger(PriceAt(c, supply), 1) + 1
  IN
  IF c.kind = "Linear"
  THEN IF c.a = 0 THEN 0
       ELSE Monus(root(supply * supply + (2 * Scale * isa) \div c.a), supply)
  ELSE IF c.kind = "Quadratic" /\ c.a = 0 THEN 0
  ELSE Max({n \in 0 .. most : CurveCost(c, supply, supply + n) <= isa})

CreateToken(a, curve) ==
  /\ agentTokens[a] = NoToken
  /\ agentTokens' = [agentTokens EXCEPT ![a] =
       [curve |-> curve, supply |-> 0, reserve |-> 0, holders |-> [h \in TokenHolder |-> 0]]]
  /\ UNCHANGED <<bought, sold>>

Buy(a, buyer, isa) ==
  /\ isa > 0 /\ agentTokens[a] # NoToken /\ bought[a] + sold[a] < MaxTrades
  /\ LET token == agentTokens[a]
         tokens == TokensFor(token.curve, token.supply, isa)
         cost == CurveCost(token.curve, token.supply, token.supply + tokens)
     IN
       /\ tokens > 0 /\ cost <= isa
       /\ agentTokens' = [agentTokens EXCEPT ![a] =
            [token EXCEPT !.supply = @ + tokens, !.reserve = @ + cost,
                          !.holders[buyer] = @ + tokens]]
  /\ bought' = [bought EXCEPT ![a] = @ + 1]
  /\ UNCHANGED sold

\* Mutant: the proceeds are computed after the supply was lowered.
SellFromNewSupply(a, seller, tokens) ==
  /\ tokens > 0 /\ agentTokens[a] # NoToken /\ bought[a] + sold[a] < MaxTrades
  /\ agentTokens[a].holders[seller] >= tokens
  /\ LET token == agentTokens[a]
         supply == token.supply - tokens
         proceeds == CurveCost(token.curve, Monus(supply, tokens), supply)
     IN
       /\ proceeds <= token.reserve
       /\ agentTokens' = [agentTokens EXCEPT ![a] =
            [token EXCEPT !.supply = supply, !.reserve = @ - proceeds,
                          !.holders[seller] = @ - tokens]]
  /\ sold' = [sold EXCEPT ![a] = @ + 1]
  /\ UNCHANGED bought

\* Refused if the reserve, which was rounded down at each purchase, does not cover it.
Sell(a, seller, tokens) ==
  /\ tokens > 0 /\ agentTokens[a] # NoToken /\ bought[a] + sold[a] < MaxTrades
  /\ agentTokens[a].holders[seller] >= tokens
  /\ LET token == agentTokens[a]
         proceeds == CurveCost(token.curve, token.supply - tokens, token.supply)
     IN
       /\ proceeds <= token.reserve
       /\ agentTokens' = [agentTokens EXCEPT ![a] =
            [token EXCEPT !.supply = @ - tokens, !.reserve = @ - proceeds,
                          !.holders[seller] = @ - tokens]]
  /\ sold' = [sold EXCEPT ![a] = @ + 1]
  /\ UNCHANGED bought

AgentTokensNext ==
  \E a \in TokenAgent :
    \/ \E curve \in Curves : CreateToken(a, curve)
    \/ \E holder \in TokenHolder, n \in TradeAmounts : Buy(a, holder, n) \/ Sell(a, holder, n)

----------------------------------------------------------------------------
(* Properties *)

\* Types of the tokens' state.
AgentTokensTypeOK ==
  /\ agentTokens \in [TokenAgent -> AgentToken \cup {NoToken}]
  /\ {bought, sold} \subseteq [TokenAgent -> Nat]

\* The integral, up to a supply of n and rounded down, of the price that a linear or a
\* quadratic curve is declared with: a * n / SCALE and a * n^2 / SCALE^2
\* (agent_token/curve.rs:10, 13).
Integral(c, n) ==
  IF c.kind = "Linear" THEN (c.a * (n * n)) \div (2 * Scale)
  ELSE (c.a * (n * n * n)) \div (3 * Scale * Scale)

\* A reserve is worth, within one unit per trade.
Follows(a, worth) ==
  /\ agentTokens[a].reserve <= worth + sold[a]
  /\ worth <= agentTokens[a].reserve + bought[a]

\* The holders have the supply.  On a linear curve the reserve is the integral of the price,
\* within one unit per trade, whoever trades in whatever pieces.  On a quadratic one it is in
\* the same way what the code would ask for the whole supply at once, which is not the
\* integral: pieces neither gain nor lose against that.  On a sigmoid they do, and the reserve
\* is only what buyers paid (agent_token/curve.rs:49, 70, factory.rs:103).
ReservesTrackCurve ==
  \A a \in TokenAgent : agentTokens[a] # NoToken =>
    LET token == agentTokens[a]  curve == token.curve IN
    /\ token.supply = SumOver(LAMBDA h : token.holders[h], TokenHolder)
    /\ curve.kind = "Linear" => Follows(a, Integral(curve, token.supply))
    /\ curve.kind = "Quadratic" => Follows(a, CurveCost(curve, 0, token.supply))

\* "ISA locked as reserve (tracks curve integral)" (agent_token/types.rs:38), on quadratic
\* curves.  buy_cost divides the supply by SCALE before it cubes it (agent_token/curve.rs:61),
\* so that it divides the integral by SCALE once more, and asks nothing for tokens up to the
\* next multiple of SCALE.
ReservesTrackIntegral ==
  \A a \in TokenAgent : agentTokens[a] # NoToken =>
    LET token == agentTokens[a] IN
    token.curve.kind = "Quadratic" => Follows(a, Integral(token.curve, token.supply))
=============================================================================
