------------------------------- MODULE Escrow -------------------------------
(***************************************************************************)
(* What a manager that holds value for others promises: what was put in is *)
(* held under a key until it leaves, to where it was meant to go or back,  *)
(* and it leaves once.  Putting in more under the same key drops what was  *)
(* held there: dropped counts what is lost in this way.                    *)
(***************************************************************************)
EXTENDS Integers

CONSTANTS Key, Value       \* keys, and amounts that may be put in

VARIABLES held, paid, returned, dropped

escrowVars == <<held, paid, returned, dropped>>

EscrowInit ==
  /\ held = [k \in Key |-> 0]
  /\ paid = 0 /\ returned = 0 /\ dropped = 0

PutIn(k, value) ==
  /\ held' = [held EXCEPT ![k] = value]
  /\ dropped' = dropped + held[k]
  /\ UNCHANGED <<paid, returned>>

PayOut(k) ==
  /\ held[k] > 0
  /\ held' = [held EXCEPT ![k] = 0]
  /\ paid' = paid + held[k]
  /\ UNCHANGED <<returned, dropped>>

GiveBack(k) ==
  /\ held[k] > 0
  /\ held' = [held EXCEPT ![k] = 0]
  /\ returned' = returned + held[k]
  /\ UNCHANGED <<paid, dropped>>

EscrowNext ==
  \E k \in Key : PayOut(k) \/ GiveBack(k) \/ \E value \in Value : PutIn(k, value)

EscrowSpec == EscrowInit /\ [][EscrowNext]_escrowVars
=============================================================================
