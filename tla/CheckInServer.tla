----------------------------- MODULE CheckInServer -----------------------------
(***************************************************************************)
(* The attendance server (the Qt program: widget.cpp, card_data.cpp), the  *)
(* TCP connections between it and the check-in device, and the device as   *)
(* module Reporter describes it.                                           *)
(*                                                                         *)
(* TCP is a stream: one run of the readyRead handler reads as many bytes   *)
(* as have arrived, which may be part of a string or several strings, and  *)
(* compares what it read with the listed numbers as one string.  Serial    *)
(* numbers have 11 to 13 digits, so only a read of exactly one string can  *)
(* be taken for one; that no listed number spans the end of one string and *)
(* the beginning of the next is assumed of the cards in use.               *)
(***************************************************************************)
EXTENDS Reporter, Naturals, Sequences

CONSTANTS Listed,       \* the cards in qstr_card_id
          Heads, Tails, \* the first and the last digits of each number
          MaxConn,      \* connections the device makes
          MaxStream,    \* strings under way on a connection
          MaxRows,      \* rows after which the device sends no more
          InsertFails   \* whether an insert may fail (database locked, disk full)

Conn    == 1 .. MaxConn
Strings == [head : {Heads[n] : n \in Numbers(Card)}, tail : {Tails[n] : n \in Numbers(Card)}]
DigitsOf(t) == [head |-> Heads[t.head], tail |-> Tails[t.tail]]
Id(c)   == [hi |-> c, lo |-> c]
IdText  == [c \in Listed |-> DigitsOf([head |-> Id(c), tail |-> Id(c)])]

ASSUME CheckInServerAssumption ==
    /\ Listed \subseteq Card
    /\ MaxConn \in Nat \ {0} /\ MaxStream \in Nat \ {0} /\ MaxRows \in Nat \ {0}
    /\ InsertFails \in BOOLEAN
    /\ \A c, d \in Listed : IdText[c] = IdText[d] => c = d

VARIABLES conn,    \* the device's connection, 0 before it has connected
          link,    \* each connection as the server sees it: "none", "backlog" until
                   \* the newConnection handler ran, "open", or "closed" with the program
          dead,    \* the connections whose other end is gone
          stream,  \* the strings on it that have not been read to their end
          half,    \* the connections of which the first such string has been begun
          server,  \* "off", "listening", or "deaf" when listen failed
          db,      \* "closed" when the database could not be opened, or "open"
          rows,    \* the table nima, which outlives the program
          textEdit \* the number the window shows, or Nothing

netVars    == <<link, dead, stream, half>>
serverVars == <<server, db, rows, textEdit>>
vars == <<reporterVars, conn, netVars, serverVars>>

(* The values of the connections, of the table and of what the window shows. *)
TypeOK ==
    /\ scanned \in SUBSET Card
    /\ sent \in Texts(Card) \cup {Nothing}
    /\ conn \in 0 .. MaxConn
    /\ link \in [Conn -> {"none", "backlog", "open", "closed"}]
    /\ dead \in SUBSET {k \in Conn : link[k] # "none"}
    /\ stream \in [Conn -> Seq(Strings)]
    /\ half \in SUBSET {k \in Conn : stream[k] # <<>>}
    /\ server \in {"off", "listening", "deaf"}
    /\ db \in {"closed", "open"}
    /\ rows \in Seq(Listed)
    /\ textEdit \in Strings \cup {Nothing}

Init ==
    /\ ReporterInit
    /\ conn = 0
    /\ link = [k \in Conn |-> "none"]
    /\ dead = {}
    /\ stream = [k \in Conn |-> <<>>]
    /\ half = {}
    /\ server = "off" /\ db = "closed" /\ rows = <<>> /\ textEdit = Nothing

-----------------------------------------------------------------------------
(* The device.                                                              *)

DeviceScans(c) == Scan(c) /\ UNCHANGED <<conn, netVars, serverVars>>

(* connect succeeds as soon as the server's kernel has the connection. *)
DeviceConnects ==
    /\ conn = 0 /\ server = "listening"
    /\ \E k \in Conn :
          /\ link[k] = "none" /\ \A j \in 1 .. k - 1 : link[j] # "none"
          /\ conn' = k
          /\ link' = [link EXCEPT ![k] = "backlog"]
    /\ UNCHANGED <<reporterVars, dead, stream, half, serverVars>>

(* send takes the string.  On a connection whose other end is gone it does so at
   most once more before it fails.                                          *)
DeviceSends(t) ==
    /\ conn # 0 /\ Len(stream[conn]) < MaxStream /\ Len(rows) < MaxRows
    /\ Send(t)
    /\ stream' = IF conn \in dead THEN stream
                 ELSE [stream EXCEPT ![conn] = Append(@, DigitsOf(t))]
    /\ UNCHANGED <<conn, link, dead, half, serverVars>>

DeviceFinishes == Finish /\ UNCHANGED <<conn, netVars, serverVars>>

(* Any reset: a failed send or connect, a crash.  The server is not told. *)
DeviceResets ==
    /\ Reset
    /\ conn' = 0
    /\ dead' = dead \cup ({conn} \ {0})
    /\ UNCHANGED <<link, stream, half, serverVars>>

DeviceNext ==
    \/ \E c \in Card : DeviceScans(c)
    \/ DeviceConnects
    \/ \E t \in Texts(scanned) : DeviceSends(t)
    \/ DeviceFinishes \/ DeviceResets

-----------------------------------------------------------------------------
(* The network: a connection breaks, and what its end had not yet sent is lost. *)

LinkBreaks(k) ==
    /\ link[k] \in {"backlog", "open"} /\ k \notin dead
    /\ dead' = dead \cup {k}
    /\ UNCHANGED <<reporterVars, conn, link, stream, half, serverVars>>

StreamLost(k) ==
    /\ k \in dead /\ stream[k] # <<>>
    /\ stream' = [stream EXCEPT ![k] = <<>>]
    /\ half' = half \ {k}
    /\ UNCHANGED <<reporterVars, conn, link, dead, serverVars>>

NetNext == \E k \in Conn : LinkBreaks(k) \/ StreamLost(k)

-----------------------------------------------------------------------------
(* The server.                                                              *)

(* The Widget constructor.  It goes on when the database does not open and when
   listen fails, and does not look at what "delete from nima" returned.     *)
Starts ==
    /\ server = "off"
    /\ server' \in {"listening", "deaf"}
    /\ \/ db' = "open" /\ (rows' = <<>> \/ (InsertFails /\ rows' = rows))
       \/ db' = "closed" /\ rows' = rows
    /\ textEdit' = Nothing
    /\ UNCHANGED <<reporterVars, conn, netVars>>

(* The window is closed or the program dies: its sockets go with it. *)
Stops ==
    /\ server # "off"
    /\ server' = "off" /\ db' = "closed" /\ textEdit' = Nothing
    /\ link' = [k \in Conn |-> IF link[k] = "none" THEN "none" ELSE "closed"]
    /\ dead' = {k \in Conn : link[k] # "none"}
    /\ stream' = [k \in Conn |-> <<>>]
    /\ half' = {}
    /\ UNCHANGED <<reporterVars, conn, rows>>

(* newConnection: the socket's readyRead gets its handler. *)
NewConnection(k) ==
    /\ server = "listening" /\ link[k] = "backlog"
    /\ link' = [link EXCEPT ![k] = "open"]
    /\ UNCHANGED <<reporterVars, conn, dead, stream, half, serverVars>>

(* qstr_card_data_check of what was read: m strings to their end and, if more,
   the beginning of the next.                                               *)
CheckOk(k, m, more) ==
    m = 1 /\ ~more /\ k \notin half /\ \E c \in Listed : Head(stream[k]) = IdText[c]

(* A slip for ReadsAll: the bytes stay in the socket. *)
PeeksAll(k, m, more) == UNCHANGED <<stream, half>>

(* readAll. *)
ReadsAll(k, m, more) ==
    /\ stream' = [stream EXCEPT ![k] = SubSeq(@, m + 1, Len(@))]
    /\ half' = IF more THEN half \cup {k} ELSE half \ {k}

(* sql_insert and the refreshed view; what exec returns is not looked at. *)
Inserts(c) ==
    \/ db = "open" /\ rows' = Append(rows, c)
    \/ (db = "closed" \/ InsertFails) /\ UNCHANGED rows

(* The readyRead handler. *)
ReadyRead(k, m, more) ==
    /\ link[k] = "open"
    /\ m \in 0 .. Len(stream[k]) /\ (m > 0 \/ more) /\ (more => m < Len(stream[k]))
    /\ ReadsAll(k, m, more)
    /\ \/ ~CheckOk(k, m, more) /\ textEdit' = Nothing /\ UNCHANGED rows
       \/ /\ CheckOk(k, m, more) /\ textEdit' = Head(stream[k])
          /\ \E c \in Listed : Head(stream[k]) = IdText[c] /\ Inserts(c)
    /\ UNCHANGED <<reporterVars, conn, link, dead, server, db>>

ServerNext ==
    \/ Starts \/ Stops
    \/ \E k \in Conn : NewConnection(k)
    \/ \E k \in Conn, m \in 0 .. MaxStream, more \in BOOLEAN : ReadyRead(k, m, more)

Next == DeviceNext \/ NetNext \/ ServerNext

Spec == Init /\ [][Next]_vars

-----------------------------------------------------------------------------
(* A string that has been begun can no longer become a row, and every other unread
   string may.                                                              *)
A == INSTANCE Attendance WITH
        pending <- [k \in Conn |-> IF k \in half THEN Tail(stream[k]) ELSE stream[k]]

(* card_data.cpp, widget.cpp: the table keeps the promise of module Attendance. *)
ImplementsAttendance == A!AttendanceSpec

=============================================================================
