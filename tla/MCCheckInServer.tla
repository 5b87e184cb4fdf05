--------------------------- MODULE MCCheckInServer ---------------------------
(* A small attendance server for TLC.  The first digits of a number are those of
   its upper word and the last those of its lower word.                     *)
EXTENDS CheckInServer

CONSTANTS a, b

MCHeads == [n \in Numbers(Card) |-> n.hi]
MCTails == [n \in Numbers(Card) |-> n.lo]
=============================================================================
