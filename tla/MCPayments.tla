----------------------------- MODULE MCPayments -----------------------------
(* An instance of Payments for TLC. *)
EXTENDS Payments

CONSTANTS a, b

\* Two channels of one pair, which differ in the height of their opening.
MCChannelId == [sender : {a}, receiver : {b}, openedAt : {0, 1}]
=============================================================================
