------------------------------- MODULE Common -------------------------------
(***************************************************************************)
(* What the modules of the managers share: the block height that callers   *)
(* pass, which only grows, which manager a behavior is about, and the      *)
(* arithmetic of amounts.                                                  *)
(***************************************************************************)
EXTENDS Integers, FiniteSetsExt, Functions

CONSTANTS
  MaxNow,          \* bound of the exploration, which the code does not have
  HeightModulus    \* 2^64, where heights, durations and timestamps wrap

ASSUME HeightsTyped == MaxNow \in Nat /\ HeightModulus \in Nat /\ MaxNow < HeightModulus

VARIABLES
  now,     \* the height of the chain
  part     \* the manager that moves; the others stay as they are

ClockInit == now = 0

Tick == now < MaxNow /\ now' = now + 1 /\ UNCHANGED part

\* saturating_sub
Monus(x, y) == IF x > y THEN x - y ELSE 0

Larger(x, y) == IF x > y THEN x ELSE y

Smaller(x, y) == IF x > y THEN y ELSE x

\* The sum of f over a set.
SumOver(f(_), S) == SumFunction([x \in S |-> f(x)])
=============================================================================
