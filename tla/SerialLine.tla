----------------------------- MODULE SerialLine -----------------------------
(***************************************************************************)
(* What HalUARTWrite promises: what it accepts leaves the line unit by     *)
(* unit in the order in which it was accepted, nothing of it is lost,      *)
(* doubled or overtaken, and of a write either all is accepted or nothing. *)
(***************************************************************************)
EXTENDS Sequences

CONSTANT Writes       \* what may be written at once

VARIABLES waiting,    \* the units that have been accepted and have not left
          line        \* the units that have left

lineVars == <<waiting, line>>

LineInit == waiting = << >> /\ line = << >>

Accept(w) == waiting' = waiting \o w /\ UNCHANGED line

Leave == waiting # << >> /\ waiting' = Tail(waiting) /\ line' = Append(line, Head(waiting))

LineNext == Leave \/ \E w \in Writes : Accept(w)

LineSpec == LineInit /\ [][LineNext]_lineVars
=============================================================================
