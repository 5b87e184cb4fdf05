------------------------------ MODULE Attendance ------------------------------
(***************************************************************************)
(* What the attendance table promises.  Strings posted on a connection are *)
(* taken in the order they were posted; a string that is the number of a   *)
(* listed card may become one row for that card, every other string, and   *)
(* any string that meets bad luck on its way, is dropped.  So no row is    *)
(* invented, repeated or put before an earlier one of its connection.      *)
(***************************************************************************)
EXTENDS Naturals, Sequences

CONSTANTS Conn,    \* the connections
          Strings, \* the strings
          Listed,  \* the cards in qstr_card_id
          IdText   \* the string each of them is compared with

VARIABLES pending,  \* for each connection the strings that have not been taken
          rows      \* the cards of the table's rows

attendanceVars == <<pending, rows>>

AttendanceInit == pending = [k \in Conn |-> <<>>] /\ rows = <<>>

Post(k, t) ==
    /\ pending' = [pending EXCEPT ![k] = Append(@, t)]
    /\ UNCHANGED rows

Record(k, c) ==
    /\ pending[k] # <<>> /\ Head(pending[k]) = IdText[c]
    /\ pending' = [pending EXCEPT ![k] = Tail(@)]
    /\ rows' = Append(rows, c)

Drop(k, n) ==
    /\ pending' = [pending EXCEPT ![k] = SubSeq(@, n + 1, Len(@))]
    /\ UNCHANGED rows

(* The server ends, and with it every connection. *)
DropAll == pending' = [k \in Conn |-> <<>>] /\ UNCHANGED rows

(* The server starts and clears the table. *)
Clear == rows' = <<>> /\ UNCHANGED pending

AttendanceNext ==
    \/ \E k \in Conn : \/ \E t \in Strings : Post(k, t)
                       \/ \E c \in Listed : Record(k, c)
                       \/ \E n \in 1 .. Len(pending[k]) : Drop(k, n)
    \/ DropAll \/ Clear

AttendanceSpec == AttendanceInit /\ [][AttendanceNext]_attendanceVars
=============================================================================
