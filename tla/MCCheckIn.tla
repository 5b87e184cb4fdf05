------------------------------ MODULE MCCheckIn ------------------------------
(* A small check-in device for TLC: one registered card and one that is not,
   the stranger with a check byte of 0, so that a number half stored over the
   initial 0 looks like 0 to card_id_judge.                                 *)
EXTENDS CheckIn, TLC

CONSTANTS registered, stranger

MCCard == {registered, stranger}
MCRegistered == {registered}
MCHiHalf == (registered :> 1) @@ (stranger :> 0) @@ (Zero :> 0)
=============================================================================
