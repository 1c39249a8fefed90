-------------------------- MODULE MCComputeMarket --------------------------
(* Instances of ComputeMarket for TLC. *)
EXTENDS ComputeMarket, TLC

CONSTANTS p1, p2, u, j1, j2

MCSupports == [p \in Provider |-> IF p = p1 THEN {"VM"} ELSE {"VM", "Browser"}]

\* p1 can take either job but not both; p2 is too small for the job that is open to all.
\* Only p1 changes its capacity, downwards.
MCCapacities == [p \in Provider |-> IF p = p1 THEN {2} ELSE {1}]
MCNewCapacities == [p \in Provider |-> IF p = p1 THEN {1} ELSE {}]

\* A job for p1 by name, and one for any provider, of a kind that p1 does not support.
MCRequests ==
  [j \in Job |->
     IF j = j1
     THEN {[user |-> u, provider |-> p1, kind |-> "VM", capacity |-> 1, escrow |-> 2]}
     ELSE {[user |-> u, provider |-> None, kind |-> "Browser", capacity |-> 2, escrow |-> 3]}]

Symmetry == Permutations(DisputeId)
=============================================================================
