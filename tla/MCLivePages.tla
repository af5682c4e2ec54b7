------------------------------ MODULE MCLivePages ------------------------------
(***************************************************************************)
(* LivePages on a small instance: each of the views, two wallets, and a    *)
(* payment that is released and booked between the steps of the answers.   *)
(***************************************************************************)
EXTENDS LivePages

CONSTANTS w1, w2

MCWallets == {w1, w2}
=============================================================================
