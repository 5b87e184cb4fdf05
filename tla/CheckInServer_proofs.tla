------------------------- MODULE CheckInServer_proofs -------------------------
(***************************************************************************)
(* The attendance server keeps its types, and it implements module         *)
(* Attendance: for every set of listed cards, every number of connections  *)
(* and every length of their streams, no row is invented, repeated or put  *)
(* before an earlier one of its connection.                                *)
(*                                                                         *)
(* The argument: what is pending on a connection are the unread strings    *)
(* without the one that has been begun.  A read of m strings takes away m  *)
(* pending ones, one less when the first had been begun before, one more   *)
(* when it leaves another begun; only a read of exactly one string that    *)
(* was not begun can make a row, and it makes the row of that string.      *)
(***************************************************************************)
EXTENDS CheckInServer, SequenceTheorems, TLAPS

(* What is pending on a connection; the refinement mapping of A. *)
Pending == [k \in Conn |-> IF k \in half THEN Tail(stream[k]) ELSE stream[k]]

-----------------------------------------------------------------------------
(* Type correctness.                                                        *)

(* The device's connection is one that has been made. *)
Linked == conn # 0 => link[conn] # "none"

LEMMA StringsOfTexts ==
  ASSUME TypeOK, NEW t \in Texts(scanned)
  PROVE  t \in Texts(Card) /\ DigitsOf(t) \in Strings
  BY DEF TypeOK, Texts, Numbers, DigitsOf, Strings

LEMMA IdTextIsString ==
  ASSUME NEW c \in Listed
  PROVE  IdText[c] \in Strings
<1>1. c \in Card
  BY CheckInServerAssumption DEF CheckInServerAssumption
<1>2. Id(c) \in Numbers(Card)
  BY <1>1 DEF Id, Numbers
<1> QED BY <1>2 DEF IdText, DigitsOf, Strings

(* A read leaves the rest of a stream. *)
LEMMA RestIsSeq ==
  ASSUME NEW s \in Seq(Strings), NEW m \in 0 .. Len(s)
  PROVE  /\ SubSeq(s, m + 1, Len(s)) \in Seq(Strings)
         /\ Len(SubSeq(s, m + 1, Len(s))) = Len(s) - m
         /\ \A i \in 1 .. Len(s) - m : SubSeq(s, m + 1, Len(s))[i] = s[m + i]
<1>1. Len(s) \in Nat /\ m \in Nat /\ \A i \in 1 .. Len(s) : s[i] \in Strings
  BY LenProperties
<1>2. \A i \in m + 1 .. Len(s) : s[i] \in Strings
  BY <1>1
<1>3. /\ SubSeq(s, m + 1, Len(s)) \in Seq(Strings)
      /\ Len(SubSeq(s, m + 1, Len(s))) = IF m + 1 <= Len(s) THEN Len(s) - (m + 1) + 1 ELSE 0
      /\ \A i \in 1 .. Len(s) - (m + 1) + 1 : SubSeq(s, m + 1, Len(s))[i] = s[m + 1 + i - 1]
  BY <1>1, <1>2, SubSeqProperties
<1> QED BY <1>1, <1>3

LEMMA TypeStep ==
  ASSUME TypeOK, Linked, Next \/ UNCHANGED vars
  PROVE  TypeOK'
<1> USE DEF TypeOK
<1>1. CASE \E c \in Card : DeviceScans(c)
  BY <1>1 DEF DeviceScans, Scan, netVars, serverVars
<1>2. CASE DeviceConnects
  BY <1>2 DEF DeviceConnects, Conn, reporterVars, serverVars
<1>3. CASE \E t \in Texts(scanned) : DeviceSends(t)
  <2>1. PICK t \in Texts(scanned) : DeviceSends(t)
    BY <1>3
  <2>2. stream' \in [Conn -> Seq(Strings)] /\ \A k \in Conn : stream[k] # <<>> => stream'[k] # <<>>
    <3>1. CASE conn \in dead
      BY <2>1, <3>1 DEF DeviceSends
    <3>2. CASE conn \notin dead
      <4>1. stream' = [stream EXCEPT ![conn] = Append(@, DigitsOf(t))] /\ conn \in Conn
        BY <2>1, <3>2, CheckInServerAssumption DEF DeviceSends, Conn, CheckInServerAssumption
      <4>2. Append(stream[conn], DigitsOf(t)) \in Seq(Strings) /\ Append(stream[conn], DigitsOf(t)) # <<>>
        BY <4>1, StringsOfTexts, AppendProperties
      <4> QED BY <4>1, <4>2
    <3> QED BY <3>1, <3>2
  <2>3. half' \in SUBSET {k \in Conn : stream'[k] # <<>>} /\ dead' \in SUBSET {k \in Conn : link'[k] # "none"}
    BY <2>1, <2>2 DEF DeviceSends
  <2>4. scanned' \in SUBSET Card /\ sent' \in Texts(Card) \cup {Nothing}
    BY <2>1, StringsOfTexts DEF DeviceSends, Send
  <2> QED BY <2>1, <2>2, <2>3, <2>4 DEF DeviceSends, serverVars
<1>4. CASE DeviceFinishes
  BY <1>4 DEF DeviceFinishes, Finish, netVars, serverVars
<1>5. CASE DeviceResets
  <2>1. dead' \in SUBSET {k \in Conn : link'[k] # "none"}
    BY <1>5 DEF DeviceResets, Linked, Conn
  <2> QED BY <1>5, <2>1, CheckInServerAssumption DEF DeviceResets, Reset, serverVars, CheckInServerAssumption
<1>6. CASE \E k \in Conn : LinkBreaks(k)
  BY <1>6 DEF LinkBreaks, reporterVars, serverVars
<1>7. CASE \E k \in Conn : StreamLost(k)
  BY <1>7, EmptySeq DEF StreamLost, reporterVars, serverVars
<1>8. CASE Starts
  BY <1>8, EmptySeq DEF Starts, reporterVars, netVars
<1>9. CASE Stops
  BY <1>9, EmptySeq DEF Stops, reporterVars
<1>10. CASE \E k \in Conn : NewConnection(k)
  BY <1>10 DEF NewConnection, reporterVars, serverVars
<1>11. CASE \E k \in Conn, m \in 0 .. MaxStream, more \in BOOLEAN : ReadyRead(k, m, more)
  <2>1. PICK k \in Conn, m \in 0 .. MaxStream, more \in BOOLEAN : ReadyRead(k, m, more)
    BY <1>11
  <2> DEFINE s == stream[k]
  <2>2. /\ s \in Seq(Strings) /\ Len(s) \in Nat /\ m \in 0 .. Len(s) /\ (more => m < Len(s))
        /\ ReadsAll(k, m, more)
    BY <2>1, LenProperties DEF ReadyRead
  <2>3. /\ SubSeq(s, m + 1, Len(s)) \in Seq(Strings)
        /\ Len(SubSeq(s, m + 1, Len(s))) = Len(s) - m
    BY <2>2, RestIsSeq
  <2>4. stream' = [stream EXCEPT ![k] = SubSeq(s, m + 1, Len(s))]
    BY <2>2 DEF ReadsAll
  <2>5. more => SubSeq(s, m + 1, Len(s)) # <<>>
    <3>1. SubSeq(s, m + 1, Len(s)) = <<>> => Len(SubSeq(s, m + 1, Len(s))) = 0
      BY EmptySeq
    <3>2. more => Len(s) - m > 0
      BY <2>2
    <3> QED BY <2>3, <3>1, <3>2
  <2>6. half' \in SUBSET {j \in Conn : stream'[j] # <<>>}
    <3>1. /\ stream'[k] = SubSeq(s, m + 1, Len(s))
          /\ \A j \in Conn : j # k => stream'[j] = stream[j]
      BY <2>4
    <3>2. CASE more
      <4>1. half' = half \cup {k}
        BY <2>2, <3>2 DEF ReadsAll
      <4> QED BY <2>5, <3>1, <3>2, <4>1
    <3>3. CASE ~ more
      <4>1. half' = half \ {k}
        BY <2>2, <3>3 DEF ReadsAll
      <4> QED BY <3>1, <4>1
    <3> QED BY <3>2, <3>3
  <2>7. rows' \in Seq(Listed) /\ textEdit' \in Strings \cup {Nothing}
    <3>1. CASE ~ CheckOk(k, m, more) /\ textEdit' = Nothing /\ UNCHANGED rows
      BY <3>1
    <3>2. CASE /\ CheckOk(k, m, more) /\ textEdit' = Head(stream[k])
               /\ \E c \in Listed : Head(stream[k]) = IdText[c] /\ Inserts(c)
      <4>1. PICK c \in Listed : Head(stream[k]) = IdText[c] /\ Inserts(c)
        BY <3>2
      <4>2. Append(rows, c) \in Seq(Listed)
        BY AppendProperties
      <4>3. textEdit' \in Strings
        BY <3>2, <4>1, IdTextIsString
      <4> QED BY <4>1, <4>2, <4>3 DEF Inserts
    <3> QED BY <2>1, <3>1, <3>2 DEF ReadyRead
  <2>8. stream' \in [Conn -> Seq(Strings)]
    BY <2>3, <2>4
  <2>9. UNCHANGED <<scanned, sent, conn, link, dead, server, db>>
    BY <2>1 DEF ReadyRead, reporterVars
  <2> QED BY <2>6, <2>7, <2>8, <2>9
<1>12. CASE UNCHANGED vars
  BY <1>12 DEF vars, reporterVars, netVars, serverVars
<1> QED BY <1>1, <1>2, <1>3, <1>4, <1>5, <1>6, <1>7, <1>8, <1>9, <1>10, <1>11, <1>12
        DEF Next, DeviceNext, NetNext, ServerNext

LEMMA LinkedStep ==
  ASSUME TypeOK, Linked, Next \/ UNCHANGED vars
  PROVE  Linked'
<1> USE DEF TypeOK, Linked
<1>1. CASE DeviceConnects \/ DeviceResets
  BY <1>1 DEF DeviceConnects, DeviceResets, Conn
<1>2. CASE Stops
  BY <1>2 DEF Stops, Conn
<1>3. CASE \E k \in Conn : NewConnection(k)
  BY <1>3 DEF NewConnection, Conn
<1>4. CASE UNCHANGED <<conn, link>>
  BY <1>4
<1>5. (Next \/ UNCHANGED vars) => \/ DeviceConnects \/ DeviceResets \/ Stops
                                  \/ \E k \in Conn : NewConnection(k)
                                  \/ UNCHANGED <<conn, link>>
  BY DEF Next, DeviceNext, NetNext, ServerNext, DeviceScans, DeviceSends, DeviceFinishes, LinkBreaks,
         StreamLost, Starts, ReadyRead, vars, netVars
<1> QED BY <1>1, <1>2, <1>3, <1>4, <1>5

(* card_data.cpp, widget.cpp and the connections: types and links are kept. *)
THEOREM ServerTypes == Spec => [](TypeOK /\ Linked)
<1>1. Init => TypeOK /\ Linked
  <2>1. Init => stream \in [Conn -> Seq(Strings)] /\ rows \in Seq(Listed)
    BY EmptySeq DEF Init
  <2> QED BY <2>1, CheckInServerAssumption DEF Init, ReporterInit, TypeOK, Linked, Conn, CheckInServerAssumption
<1>2. TypeOK /\ Linked /\ [Next]_vars => TypeOK' /\ Linked'
  BY TypeStep, LinkedStep
<1> QED BY <1>1, <1>2, PTL DEF Spec
-----------------------------------------------------------------------------
(* The refinement of Attendance.                                            *)

LEMMA PendingProperties ==
  ASSUME TypeOK, NEW k \in Conn
  PROVE  /\ Pending[k] \in Seq(Strings)
         /\ Len(Pending[k]) = IF k \in half THEN Len(stream[k]) - 1 ELSE Len(stream[k])
         /\ k \in half => stream[k] # <<>>
<1>1. stream[k] \in Seq(Strings) /\ (k \in half => stream[k] # <<>>)
  BY DEF TypeOK
<1>2. CASE k \in half
  BY <1>1, <1>2, HeadTailProperties DEF Pending
<1>3. CASE k \notin half
  BY <1>1, <1>3 DEF Pending
<1> QED BY <1>1, <1>2, <1>3

(* To drop the first n strings of the tail is to drop one more of the whole. *)
LEMMA RestOfTail ==
  ASSUME NEW s \in Seq(Strings), s # <<>>, NEW n \in 0 .. Len(s) - 1
  PROVE  SubSeq(Tail(s), n + 1, Len(Tail(s))) = SubSeq(s, n + 2, Len(s))
<1> DEFINE t == Tail(s)
<1>1. /\ t \in Seq(Strings) /\ Len(t) = Len(s) - 1 /\ Len(s) \in Nat /\ n \in Nat
      /\ \A i \in 1 .. Len(t) : t[i] = s[i + 1]
  BY HeadTailProperties, LenProperties
<1>2. n \in 0 .. Len(t) /\ n + 1 \in 0 .. Len(s) /\ (n + 1) + 1 = n + 2
  BY <1>1
<1> HIDE DEF t
<1>3. /\ SubSeq(t, n + 1, Len(t)) \in Seq(Strings)
      /\ Len(SubSeq(t, n + 1, Len(t))) = Len(t) - n
      /\ \A i \in 1 .. Len(t) - n : SubSeq(t, n + 1, Len(t))[i] = t[n + i]
  BY <1>1, <1>2, RestIsSeq
<1> DEFINE m == n + 1
<1>4. m \in 0 .. Len(s) /\ m \in Nat /\ m = n + 1
  BY <1>1, <1>2
<1> HIDE DEF m
<1>5. /\ SubSeq(s, m + 1, Len(s)) \in Seq(Strings)
      /\ Len(SubSeq(s, m + 1, Len(s))) = Len(s) - m
      /\ \A i \in 1 .. Len(s) - m : SubSeq(s, m + 1, Len(s))[i] = s[m + i]
  BY <1>4, RestIsSeq
<1> DEFINE u == SubSeq(t, n + 1, Len(t))
           v == SubSeq(s, m + 1, Len(s))
<1>6. Len(u) = Len(v) /\ Len(u) = Len(s) - m
  BY <1>1, <1>3, <1>4, <1>5
<1>7. ASSUME NEW i \in 1 .. Len(u) PROVE u[i] = v[i]
  <2>1. i \in 1 .. Len(t) - n /\ i \in 1 .. Len(s) - m /\ i \in Nat /\ n + i \in 1 .. Len(t)
    BY <1>1, <1>4, <1>6
  <2>2. u[i] = t[n + i] /\ t[n + i] = s[(n + i) + 1] /\ v[i] = s[m + i]
    BY <1>1, <1>3, <1>5, <2>1
  <2>3. (n + i) + 1 = m + i
    BY <1>1, <1>4, <2>1
  <2> QED BY <2>2, <2>3
<1>8. u = v
  <2> HIDE DEF u, v
  <2> QED BY <1>3, <1>5, <1>6, <1>7, SeqEqual DEF u, v
<1>9. m + 1 = n + 2
  BY <1>1, <1>4
<1> QED BY <1>8, <1>9 DEF t

(* A change of one connection's stream and of whether its first string has been begun. *)
LEMMA PendingExcept ==
  ASSUME TypeOK, NEW k \in Conn, NEW p,
         DOMAIN stream' = Conn,
         \A j \in Conn \ {k} : stream'[j] = stream[j] /\ (j \in half' <=> j \in half),
         (IF k \in half' THEN Tail(stream'[k]) ELSE stream'[k]) = p
  PROVE  Pending' = [Pending EXCEPT ![k] = p]
  BY DEF Pending

(* A read takes n pending strings away. *)
LEMMA ReadDrops ==
  ASSUME TypeOK, TypeOK', NEW k \in Conn, NEW m \in 0 .. Len(stream[k]), NEW more \in BOOLEAN,
         m > 0 \/ more, more => m < Len(stream[k]), ReadsAll(k, m, more)
  PROVE  \E n \in 0 .. Len(Pending[k]) :
            Pending' = [Pending EXCEPT ![k] = SubSeq(Pending[k], n + 1, Len(Pending[k]))]
<1> DEFINE s == stream[k]
           r == SubSeq(s, m + 1, Len(s))
<1>1. /\ s \in Seq(Strings) /\ Len(s) \in Nat /\ m \in Nat /\ m <= Len(s)
      /\ k \in half => s # <<>>
      /\ Len(Pending[k]) = IF k \in half THEN Len(s) - 1 ELSE Len(s)
  BY PendingProperties, LenProperties DEF TypeOK
<1>2. /\ stream'[k] = r /\ DOMAIN stream' = Conn
      /\ \A j \in Conn \ {k} : stream'[j] = stream[j]
  BY DEF ReadsAll, TypeOK
<1>3. CASE more
  <2>1. half' = half \cup {k}
    BY <1>3 DEF ReadsAll
  <2>2. m + 1 \in 1 .. Len(s) /\ Len(s) \in m + 1 .. Len(s)
    BY <1>1, <1>3
  <2>3. Tail(r) = SubSeq(s, (m + 1) + 1, Len(s))
    BY <1>1, <2>2, HeadTailOfSubSeq
  <2>4. (m + 1) + 1 = m + 2
    BY <1>1
  <2>5. Pending' = [Pending EXCEPT ![k] = SubSeq(s, m + 2, Len(s))]
    <3>1. (IF k \in half' THEN Tail(stream'[k]) ELSE stream'[k]) = SubSeq(s, m + 2, Len(s))
      BY <1>2, <2>1, <2>3, <2>4
    <3>2. \A j \in Conn \ {k} : stream'[j] = stream[j] /\ (j \in half' <=> j \in half)
      BY <1>2, <2>1
    <3> QED BY <1>2, <3>1, <3>2, PendingExcept
  <2>6. CASE k \in half
    <3>1. Pending[k] = Tail(s) /\ m \in 0 .. Len(s) - 1
      BY <1>1, <2>2, <2>6 DEF Pending
    <3>2. SubSeq(Pending[k], m + 1, Len(Pending[k])) = SubSeq(s, m + 2, Len(s))
      BY <1>1, <2>6, <3>1, RestOfTail
    <3>3. m \in 0 .. Len(Pending[k])
      BY <1>1, <2>6, <3>1
    <3> QED BY <2>5, <3>2, <3>3
  <2>7. CASE k \notin half
    <3>1. Pending[k] = s /\ m + 1 \in 0 .. Len(Pending[k])
      BY <1>1, <2>2, <2>7 DEF Pending
    <3>2. SubSeq(Pending[k], (m + 1) + 1, Len(Pending[k])) = SubSeq(s, m + 2, Len(s))
      BY <2>4, <3>1
    <3> QED BY <2>5, <3>1, <3>2
  <2> QED BY <2>6, <2>7
<1>4. CASE ~ more
  <2>1. half' = half \ {k} /\ m >= 1
    BY <1>1, <1>4 DEF ReadsAll
  <2>2. Pending' = [Pending EXCEPT ![k] = r]
    <3>1. (IF k \in half' THEN Tail(stream'[k]) ELSE stream'[k]) = r
      BY <1>2, <2>1
    <3>2. \A j \in Conn \ {k} : stream'[j] = stream[j] /\ (j \in half' <=> j \in half)
      BY <1>2, <2>1
    <3> QED BY <1>2, <3>1, <3>2, PendingExcept
  <2>3. CASE k \in half
    <3>1. Pending[k] = Tail(s) /\ m - 1 \in 0 .. Len(s) - 1 /\ (m - 1) + 2 = m + 1
      BY <1>1, <2>1, <2>3 DEF Pending
    <3>2. SubSeq(Pending[k], (m - 1) + 1, Len(Pending[k])) = r
      BY <1>1, <2>3, <3>1, RestOfTail
    <3>3. m - 1 \in 0 .. Len(Pending[k])
      BY <1>1, <2>3, <3>1
    <3> QED BY <2>2, <3>2, <3>3
  <2>4. CASE k \notin half
    <3>1. Pending[k] = s /\ m \in 0 .. Len(Pending[k])
      BY <1>1, <2>4 DEF Pending
    <3> QED BY <2>2, <3>1
  <2> QED BY <2>3, <2>4
<1> QED BY <1>3, <1>4

(* To drop n strings is a step of Attendance or none. *)
LEMMA DropStep ==
  ASSUME TypeOK, NEW k \in Conn, NEW n \in 0 .. Len(Pending[k]), rows' = rows,
         Pending' = [Pending EXCEPT ![k] = SubSeq(Pending[k], n + 1, Len(Pending[k]))]
  PROVE  A!AttendanceNext \/ UNCHANGED A!attendanceVars
<1>1. Pending[k] \in Seq(Strings) /\ Len(Pending[k]) \in Nat
  BY PendingProperties, LenProperties
<1>2. CASE n = 0
  <2>1. SubSeq(Pending[k], n + 1, Len(Pending[k])) = Pending[k]
    BY <1>1, <1>2, SubSeqFull
  <2>2. Pending' = Pending
    BY <2>1 DEF Pending
  <2> QED BY <2>2 DEF Pending, A!attendanceVars
<1>3. CASE n # 0
  <2>1. n \in 1 .. Len(Pending[k])
    BY <1>1, <1>3
  <2>2. A!Drop(k, n)
    BY DEF A!Drop, Pending
  <2>3. \E i \in 1 .. Len(Pending[k]) : A!Drop(k, i)
    BY <2>1, <2>2
  <2> QED BY <2>3 DEF A!AttendanceNext, Pending
<1> QED BY <1>2, <1>3

(* A string that is sent is posted, or lost with the connection. *)
LEMMA SendStep ==
  ASSUME TypeOK, NEW t \in Texts(scanned), DeviceSends(t)
  PROVE  A!AttendanceNext \/ UNCHANGED A!attendanceVars
<1> DEFINE d == DigitsOf(t)
<1>1. conn \in Conn /\ half' = half /\ rows' = rows /\ d \in Strings
  BY StringsOfTexts, CheckInServerAssumption
     DEF DeviceSends, TypeOK, Conn, serverVars, CheckInServerAssumption
<1>2. CASE conn \in dead
  <2>1. stream' = stream
    BY <1>2 DEF DeviceSends
  <2> QED BY <1>1, <2>1 DEF A!attendanceVars
<1>3. CASE conn \notin dead
  <2>1. stream' = [stream EXCEPT ![conn] = Append(@, d)]
    BY <1>3 DEF DeviceSends
  <2>2. stream[conn] \in Seq(Strings) /\ DOMAIN stream' = Conn /\ stream'[conn] = Append(stream[conn], d)
    BY <1>1, <2>1 DEF TypeOK
  <2>3. (IF conn \in half' THEN Tail(stream'[conn]) ELSE stream'[conn]) = Append(Pending[conn], d)
    <3>1. conn \in half => stream[conn] # <<>>
      BY <1>1 DEF TypeOK
    <3>2. conn \in half => Tail(Append(stream[conn], d)) = Append(Tail(stream[conn]), d)
      BY <2>2, <3>1, HeadTailAppend
    <3> QED BY <1>1, <2>2, <3>2 DEF Pending
  <2>4. \A j \in Conn \ {conn} : stream'[j] = stream[j] /\ (j \in half' <=> j \in half)
    BY <1>1, <2>1 DEF TypeOK
  <2>5. Pending' = [Pending EXCEPT ![conn] = Append(Pending[conn], d)]
    BY <1>1, <2>2, <2>3, <2>4, PendingExcept
  <2>6. A!Post(conn, d)
    BY <1>1, <2>5 DEF A!Post, Pending
  <2> QED BY <1>1, <2>6 DEF A!AttendanceNext
<1> QED BY <1>2, <1>3

(* What is lost with a connection is dropped. *)
LEMMA LostStep ==
  ASSUME TypeOK, NEW k \in Conn, StreamLost(k)
  PROVE  A!AttendanceNext \/ UNCHANGED A!attendanceVars
<1> DEFINE n == Len(Pending[k])
<1>1. Pending[k] \in Seq(Strings) /\ n \in Nat /\ n \in 0 .. n /\ rows' = rows
  BY PendingProperties, LenProperties DEF StreamLost, serverVars
<1>2. SubSeq(Pending[k], n + 1, n) = <<>>
  BY <1>1, SubSeqEmpty
<1>3. Pending' = [Pending EXCEPT ![k] = <<>>]
  <2>1. stream' = [stream EXCEPT ![k] = <<>>] /\ half' = half \ {k}
    BY DEF StreamLost
  <2>2. DOMAIN stream' = Conn /\ (IF k \in half' THEN Tail(stream'[k]) ELSE stream'[k]) = <<>>
    BY <2>1 DEF TypeOK
  <2>3. \A j \in Conn \ {k} : stream'[j] = stream[j] /\ (j \in half' <=> j \in half)
    BY <2>1 DEF TypeOK
  <2> QED BY <2>2, <2>3, PendingExcept
<1> QED BY <1>1, <1>2, <1>3, DropStep

(* The readyRead handler makes the row of the string it read, or drops what it read. *)
LEMMA ReadStep ==
  ASSUME TypeOK, TypeOK', NEW k \in Conn, NEW m \in 0 .. MaxStream, NEW more \in BOOLEAN, ReadyRead(k, m, more)
  PROVE  A!AttendanceNext \/ UNCHANGED A!attendanceVars
<1>1. /\ m \in 0 .. Len(stream[k]) /\ (m > 0 \/ more) /\ (more => m < Len(stream[k]))
      /\ ReadsAll(k, m, more)
  BY DEF ReadyRead
<1>2. CASE rows' = rows
  <2>1. PICK n \in 0 .. Len(Pending[k]) :
              Pending' = [Pending EXCEPT ![k] = SubSeq(Pending[k], n + 1, Len(Pending[k]))]
    BY <1>1, ReadDrops
  <2> QED BY <1>2, <2>1, DropStep
<1>3. CASE rows' # rows
  <2>1. PICK c \in Listed : /\ CheckOk(k, m, more) /\ Head(stream[k]) = IdText[c]
                            /\ rows' = Append(rows, c)
    BY <1>3 DEF ReadyRead, Inserts
  <2>2. m = 1 /\ ~ more /\ k \notin half
    BY <2>1 DEF CheckOk
  <2>3. stream[k] \in Seq(Strings) /\ stream[k] # <<>> /\ Pending[k] = stream[k]
    BY <1>1, <2>2, EmptySeq DEF Pending, TypeOK
  <2>4. stream' = [stream EXCEPT ![k] = Tail(@)] /\ half' = half
    <3>1. Tail(stream[k]) = SubSeq(stream[k], m + 1, Len(stream[k]))
      BY <2>2, <2>3, TailIsSubSeq
    <3> QED BY <1>1, <2>2, <3>1 DEF ReadsAll
  <2>5. DOMAIN stream' = Conn /\ (IF k \in half' THEN Tail(stream'[k]) ELSE stream'[k]) = Tail(Pending[k])
    BY <2>2, <2>3, <2>4 DEF TypeOK
  <2>6. \A j \in Conn \ {k} : stream'[j] = stream[j] /\ (j \in half' <=> j \in half)
    BY <2>4 DEF TypeOK
  <2>7. Pending' = [Pending EXCEPT ![k] = Tail(Pending[k])]
    BY <2>5, <2>6, PendingExcept
  <2>8. A!Record(k, c)
    <3>1. Pending[k] # <<>> /\ Head(Pending[k]) = IdText[c]
      BY <2>1, <2>3
    <3> QED BY <2>1, <2>7, <3>1 DEF A!Record, Pending
  <2> QED BY <2>8 DEF A!AttendanceNext
<1> QED BY <1>2, <1>3

(* Each step of the server, its connections and the device is one of Attendance or none. *)
LEMMA AttendanceStep ==
  ASSUME TypeOK, TypeOK', Next \/ UNCHANGED vars
  PROVE  A!AttendanceNext \/ UNCHANGED A!attendanceVars
<1>1. CASE \E t \in Texts(scanned) : DeviceSends(t)
  BY <1>1, SendStep
<1>2. CASE \E k \in Conn : StreamLost(k)
  BY <1>2, LostStep
<1>3. CASE \E k \in Conn, m \in 0 .. MaxStream, more \in BOOLEAN : ReadyRead(k, m, more)
  BY <1>3, ReadStep
<1>4. CASE Starts
  <2>1. stream' = stream /\ half' = half /\ (rows' = <<>> \/ rows' = rows)
    BY <1>4 DEF Starts, netVars
  <2>2. CASE rows' = <<>>
    BY <2>1, <2>2 DEF A!Clear, A!AttendanceNext
  <2>3. CASE rows' = rows
    BY <2>1, <2>3 DEF A!attendanceVars
  <2> QED BY <2>1, <2>2, <2>3
<1>5. CASE Stops
  <2>1. stream' = [k \in Conn |-> <<>>] /\ half' = {} /\ rows' = rows
    BY <1>5 DEF Stops
  <2>2. A!DropAll
    BY <2>1 DEF A!DropAll
  <2> QED BY <2>2 DEF A!AttendanceNext
<1>6. CASE UNCHANGED <<stream, half, rows>>
  BY <1>6 DEF A!attendanceVars
<1>7. (Next \/ UNCHANGED vars) =>
         \/ \E t \in Texts(scanned) : DeviceSends(t)
         \/ \E k \in Conn : StreamLost(k)
         \/ \E k \in Conn, m \in 0 .. MaxStream, more \in BOOLEAN : ReadyRead(k, m, more)
         \/ Starts \/ Stops \/ UNCHANGED <<stream, half, rows>>
  BY DEF Next, DeviceNext, NetNext, ServerNext, DeviceScans, DeviceConnects, DeviceFinishes, DeviceResets,
         LinkBreaks, NewConnection, vars, netVars, serverVars
<1> QED BY <1>1, <1>2, <1>3, <1>4, <1>5, <1>6, <1>7

(* card_data.cpp, widget.cpp: the table keeps the promise of module Attendance. *)
THEOREM ServerImplementsAttendance == Spec => ImplementsAttendance
<1>1. Init => A!AttendanceInit
  BY DEF Init, A!AttendanceInit
<1>2. TypeOK /\ TypeOK' /\ [Next]_vars => [A!AttendanceNext]_(A!attendanceVars)
  BY AttendanceStep
<1>3. Spec => []TypeOK
  BY ServerTypes, PTL
<1> QED BY <1>1, <1>2, <1>3, PTL DEF Spec, ImplementsAttendance, A!AttendanceSpec
=============================================================================
