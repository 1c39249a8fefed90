---------------------------- MODULE MCConsensus ----------------------------
(* An instance of Consensus for TLC. *)
EXTENDS Consensus

CONSTANTS v1, v2, v3, a, b, c

\* Two blocks of one height and one above them.
MCBlock == {[height |-> 1, fork |-> 1], [height |-> 1, fork |-> 2], [height |-> 2, fork |-> 1]}

\* Three voters, of whom the first and any other are a quorum.
MCPower == [v \in {v1, v2, v3} |-> IF v = v1 THEN 2 ELSE 1]
=============================================================================
