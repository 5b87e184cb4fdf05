------------------------------ MODULE Recognizer ------------------------------
(***************************************************************************)
(* What the speech recognition server promises to the voice client on the  *)
(* one connection between them: recordings are taken one at a time in the  *)
(* order they were sent, and each reply is a result of the recording that  *)
(* is being worked on.  How many replies a recording has, none included,   *)
(* is not promised (module AsrServer implements this module, and module    *)
(* VoiceClient uses it).                                                   *)
(***************************************************************************)
EXTENDS Naturals, Sequences

CONSTANTS Ids,       \* the ids of the grammar cmd.bnf
          MaxTurns   \* recordings the client makes

Turns == 1 .. MaxTurns

VARIABLES turns,  \* the number of recordings made
          up,     \* the recordings sent that the server has not taken
          cur,    \* the recording it works on, or 0
          down,   \* the replies the client has not read to their end
          peer    \* the server's end: "up", "fin" when it was closed, "rst" when reset

lineVars == <<turns, up, cur, down, peer>>

LineTypeOK ==
    /\ turns \in 0 .. MaxTurns
    /\ up \in Seq(Turns)
    /\ cur \in 0 .. MaxTurns
    /\ down \in Seq([of : Turns, id : Ids])
    /\ peer \in {"up", "fin", "rst"}

LineInit == turns = 0 /\ up = <<>> /\ cur = 0 /\ down = <<>> /\ peer = "up"

(* A recording is made, and is sent or is not. *)
Recording(isSent) ==
    /\ turns < MaxTurns
    /\ turns' = turns + 1
    /\ up' = IF isSent THEN Append(up, turns + 1) ELSE up
    /\ UNCHANGED <<cur, down, peer>>

Take ==
    /\ peer = "up" /\ cur = 0 /\ up # <<>>
    /\ cur' = Head(up) /\ up' = Tail(up)
    /\ UNCHANGED <<turns, down, peer>>

Answer(id) ==
    /\ peer = "up" /\ cur # 0
    /\ down' = Append(down, [of |-> cur, id |-> id])
    /\ UNCHANGED <<turns, up, cur, peer>>

Done ==
    /\ cur # 0
    /\ cur' = 0
    /\ UNCHANGED <<turns, up, down, peer>>

(* The server ends, and its kernel closes or resets the connection. *)
Gone ==
    /\ peer = "up"
    /\ peer' \in {"fin", "rst"}
    /\ cur' = 0 /\ up' = <<>>
    /\ UNCHANGED <<turns, down>>

(* The client reads n replies to their end. *)
Reads(n) ==
    /\ n <= Len(down)
    /\ down' = SubSeq(down, n + 1, Len(down))
    /\ UNCHANGED <<turns, up, cur, peer>>

(* What is sent to a closed end resets it. *)
SendsToGone ==
    /\ peer # "up" /\ turns < MaxTurns
    /\ turns' = turns + 1 /\ peer' = "rst"
    /\ UNCHANGED <<up, cur, down>>

ServerNext == Take \/ (\E id \in Ids : Answer(id)) \/ Done \/ Gone
ClientNext ==
    \/ \E isSent \in BOOLEAN : Recording(isSent)
    \/ \E n \in 1 .. Len(down) : Reads(n)
    \/ SendsToGone

RecognizerSpec == LineInit /\ [][ServerNext \/ ClientNext]_lineVars
=============================================================================
