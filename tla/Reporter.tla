------------------------------- MODULE Reporter -------------------------------
(***************************************************************************)
(* What the check-in device promises to its server, whatever its tasks do  *)
(* to each other: between two resets it sends one string at a time, and    *)
(* each digit of a string is one of a card scanned since the last reset.   *)
(* It does not promise that a string is the number of one card, nor that   *)
(* each scan is sent (main.c; module CheckIn implements this module).      *)
(***************************************************************************)
CONSTANTS Card, Nothing

VARIABLES scanned,  \* the cards scanned since the reset
          sent      \* the string being sent, or Nothing

reporterVars == <<scanned, sent>>

(* The numbers that words of the cards in S make up, and the strings of which
   the first digits are those of one such number and the last those of another. *)
Numbers(S) == [hi : S, lo : S]
Texts(S)   == [head : Numbers(S), tail : Numbers(S)]

ReporterInit == scanned = {} /\ sent = Nothing

Scan(c) ==
    /\ scanned' = scanned \cup {c}
    /\ UNCHANGED sent

Send(t) ==
    /\ sent = Nothing /\ t \in Texts(scanned)
    /\ sent' = t
    /\ UNCHANGED scanned

Finish ==
    /\ sent # Nothing
    /\ sent' = Nothing
    /\ UNCHANGED scanned

Reset == scanned' = {} /\ sent' = Nothing

ReporterNext ==
    \/ \E c \in Card : Scan(c)
    \/ \E t \in Texts(scanned) : Send(t)
    \/ Finish \/ Reset

ReporterSpec == ReporterInit /\ [][ReporterNext]_reporterVars
=============================================================================
