------------------------- MODULE MotionSensor_proofs -------------------------
(***************************************************************************)
(* What holds of the coordinator's UART, and of the motion sensor that     *)
(* writes to it, for every size of the buffers, every character time,      *)
(* every length of a line and any number of devices and reports; and of    *)
(* the entry of such a device into its network (NetworkEntry), for any     *)
(* networks, channels and retries.                                         *)
(***************************************************************************)
EXTENDS MotionSensor, NetworkEntry, SequenceTheorems, TLAPS

--------------------------------------------------------------------------------
(* The inductive invariant. *)

Far == Other(txSel)   \* the buffer that is not written

Transferring == dma.armed = "yes" \/ irq = "yes" \/ pc = "arm"

(* From its firing to its interrupt a transfer is of the far buffer; the driver counts on
   no other then, and at other times the far buffer is free. *)
Channel ==
    /\ dma.armed = "yes" => irq = "no" /\ pc # "arm" /\ dma.moved < dma.len
    /\ irq = "yes" => pc # "arm" /\ dma.moved = dma.len
    /\ pc = "arm" => dma.moved = 0
    /\ IF Transferring
       THEN /\ dma.src = Far /\ dma.len = txIdx[Far] /\ dma.len > 0
            /\ txShdwValid = "no" /\ txDMAPending = "no"
       ELSE txIdx[Far] = 0
    /\ txDMAPending = "yes" => txIdx[txSel] > 0

(* A character that is in DBUF has been there at least since the interrupt, and no longer
   than a character time; with no transfer under way it is the last of one, for which the
   driver still waits. *)
CharTime ==
    /\ dbuf # Nothing => age <= TxTick
    /\ dbuf # Nothing /\ txShdwValid = "yes" => Elapsed <= age
    /\ dma.armed = "no" /\ irq = "no" /\ txShdwValid = "no" => dbuf = Nothing

(* Between the two halves of HalUARTWrite the part stands behind what is to be sent. *)
Copied ==
    pc = "commit" =>
        /\ written.sel = txSel /\ written.idx = txIdx[txSel] + Len(Part(report, part))
        /\ txBuf[txSel] = SubSeq(txBuf[txSel], 1, txIdx[txSel]) \o Part(report, part)

IInv == TypeOK /\ Channel /\ CharTime /\ Copied

--------------------------------------------------------------------------------
(* Helpers. *)

LEMMA ConstantsAreNat ==
  /\ TxMax \in Nat /\ TxMax > 0 /\ TxTick \in Nat /\ TxTick > 0
  /\ ClockMod \in Nat /\ TxTick + 1 < ClockMod
  /\ Nothing \notin Units /\ MaxReports \in Nat
  /\ PartLens \in Seq(Nat \ {0}) /\ Len(PartLens) \in Nat \ {0}
<1>1. PartLens \in Seq(Nat \ {0}) /\ PartLens # << >>
  BY SensorAssumption DEF SensorAssumption
<1>2. Len(PartLens) \in Nat \ {0}
  BY <1>1, EmptySeq
<1>3. MaxReports \in Nat
  BY SensorAssumption DEF SensorAssumption
<1> QED  BY <1>1, <1>2, <1>3, UartAssumption DEF UartAssumption

LEMMA UartConstantsAreNat ==
  /\ TxMax \in Nat /\ TxMax > 0 /\ TxTick \in Nat /\ TxTick > 0
  /\ ClockMod \in Nat /\ TxTick + 1 < ClockMod /\ Nothing \notin Units
BY UartAssumption DEF UartAssumption

LEMMA SidesAreTwo == \A s \in Sides : Other(s) \in Sides /\ Other(s) # s /\ Other(Other(s)) = s
BY DEF Sides, Other

LEMMA PartIsSeq ==
  ASSUME NEW r \in 1 .. MaxReports, NEW p \in Parts
  PROVE  Part(r, p) \in Seq(Units) /\ Len(Part(r, p)) \in Nat /\ Len(Part(r, p)) > 0
<1> DEFINE n == PartLens[p]
<1>1. n \in Nat \ {0}
  BY ConstantsAreNat DEF Parts
<1>2. \A i \in 1 .. n : <<r, p, i>> \in Units
  BY PartsAssumption DEF PartsAssumption
<1>3. Part(r, p) \in [1 .. n -> Units]
  BY <1>2 DEF Part
<1> HIDE DEF n
<1>4. Part(r, p) \in Seq(Units) /\ Len(Part(r, p)) = n
  BY <1>1, <1>3
<1> QED  BY <1>1, <1>4

(* What is copied behind the first n elements leaves them as they are. *)
LEMMA CopyBehind ==
  ASSUME NEW S, NEW s \in Seq(S), NEW n \in 0 .. Len(s), NEW w \in Seq(S),
         NEW t, t = SubSeq(s, 1, n) \o w
  PROVE  /\ t \in Seq(S) /\ Len(t) = n + Len(w)
         /\ SubSeq(t, 1, n) = SubSeq(s, 1, n) /\ SubSeq(t, 1, Len(t)) = t
<1> DEFINE a == SubSeq(s, 1, n)
<1>1. a \in Seq(S) /\ Len(a) = n /\ \A i \in 1 .. n : a[i] = s[i]
  OBVIOUS
<1> HIDE DEF a
<1>2. t \in Seq(S) /\ Len(t) = n + Len(w) /\ \A i \in 1 .. n : t[i] = a[i]
  BY <1>1, ConcatProperties DEF a
<1>3. SubSeq(t, 1, n) \in Seq(S) /\ Len(SubSeq(t, 1, n)) = n /\ \A i \in 1 .. n : SubSeq(t, 1, n)[i] = t[i]
  BY <1>2
<1>4. SubSeq(t, 1, n) = a
  BY <1>1, <1>2, <1>3, SeqEqual
<1>5. SubSeq(t, 1, Len(t)) = t
  BY <1>2, SubSeqFull
<1> QED  BY <1>2, <1>4, <1>5 DEF a

--------------------------------------------------------------------------------
(* The end devices, the radio and the coordinator's queue. *)

NodeTypes ==
    /\ running \subseteq Nodes /\ due \subseteq Nodes /\ unstarted \subseteq Nodes
    /\ acc \in Readings \cup {0} /\ temp = TypeChange(acc) /\ made \in 0 .. MaxReports
    /\ radio \in Seq(1 .. MaxReports)

LoopTypes ==
    /\ box \in Seq(1 .. MaxReports)
    /\ pc \in {"poll", "fire", "arm", "tasks", "print", "commit"}
    /\ IF pc \in {"print", "commit"} THEN report \in 1 .. MaxReports /\ part \in Parts
                                     ELSE report = 0 /\ part = 0

UartInv == UartTypeOK /\ Channel /\ CharTime /\ Copied

LEMMA InParts == IInv <=> UartInv /\ NodeTypes /\ LoopTypes
BY DEF IInv, TypeOK, UartInv, NodeTypes, LoopTypes

(* What says nothing to the UART. *)
LEMMA UartUndisturbed ==
  ASSUME UartInv, UNCHANGED <<driverVars, channelVars, charVars, st0>>,
         \/ UNCHANGED <<pc, report, part>>
         \/ {pc, pc'} \cap {"arm", "commit"} = {}
  PROVE  UartInv'
<1> USE DEF UartInv, driverVars, channelVars, charVars
<1>1. UartTypeOK'  BY DEF UartTypeOK
<1>2. Channel'  BY DEF Channel, Transferring, Far
<1>3. CharTime'  BY DEF CharTime, Elapsed
<1>4. Copied'
  <2>1. CASE UNCHANGED <<pc, report, part>>  BY <2>1 DEF Copied, Part
  <2>2. CASE pc' # "commit"  BY <2>2 DEF Copied
  <2> QED  BY <2>1, <2>2
<1> QED  BY <1>1, <1>2, <1>3, <1>4

LEMMA NodeStep ==
  ASSUME IInv, Arrives \/ \E n \in Nodes : Node(n)
  PROVE  IInv'
<1>1. UartInv /\ NodeTypes /\ LoopTypes  BY InParts
<1>2. CASE Arrives
  <2>1. UNCHANGED <<uartVars, report, part>>  BY <1>2 DEF Arrives
  <2>2. UartInv'  BY <1>1, <2>1, UartUndisturbed DEF uartVars
  <2>3. radio \in Seq(1 .. MaxReports) /\ radio # << >>  BY <1>1, <1>2 DEF Arrives, NodeTypes
  <2>4. Head(radio) \in 1 .. MaxReports /\ Tail(radio) \in Seq(1 .. MaxReports)
    BY <2>3, HeadTailProperties
  <2>5. NodeTypes'  BY <1>1, <1>2, <2>4 DEF Arrives, NodeTypes, nodeVars, reportVars
  <2>6. box' \in Seq(1 .. MaxReports)
    <3>1. box \in Seq(1 .. MaxReports) /\ (box' = Append(box, Head(radio)) \/ box' = box)
      BY <1>1, <1>2 DEF Arrives, LoopTypes
    <3> QED  BY <2>4, <3>1, AppendProperties
  <2>7. LoopTypes'  BY <1>1, <2>1, <2>6 DEF LoopTypes, uartVars
  <2> QED  BY <2>2, <2>5, <2>7, InParts DEF IInv, TypeOK, UartInv, NodeTypes, LoopTypes
<1>3. ASSUME NEW n \in Nodes, Node(n)
      PROVE  IInv'
  <2>1. UNCHANGED <<uartVars, loopVars>>
    BY <1>3 DEF Node, Joins, TimerExpires, PeriodicEvent
  <2>2. UartInv'  BY <1>1, <2>1, UartUndisturbed DEF uartVars, loopVars
  <2>3. LoopTypes'  BY <1>1, <2>1 DEF LoopTypes, uartVars, loopVars
  <2>4. CASE Joins(n) \/ TimerExpires(n)
    BY <1>1, <2>2, <2>3, <2>4
       DEF Joins, TimerExpires, StartTimer, NodeTypes, reportVars, IInv, TypeOK, UartInv, LoopTypes
  <2>5. CASE PeriodicEvent(n)
    <3>1. PICK v \in Readings : SendReport(v)  BY <2>5 DEF PeriodicEvent
    <3>2. made + 1 \in 1 .. MaxReports  BY <1>1, <2>5, ConstantsAreNat DEF PeriodicEvent, NodeTypes
    <3>3. acc' \in Readings /\ temp' = TypeChange(acc') /\ made' \in 0 .. MaxReports
      BY <3>1, <3>2 DEF SendReport
    <3>4. radio' \in Seq(1 .. MaxReports)
      <4>1. radio \in Seq(1 .. MaxReports) /\ (radio' = Append(radio, made + 1) \/ radio' = radio)
        BY <1>1, <3>1 DEF SendReport, NodeTypes
      <4>2. \A k \in 1 .. MaxReports : Append(radio, k) \in Seq(1 .. MaxReports)
        BY <4>1, AppendProperties
      <4> QED  BY <3>2, <4>1, <4>2
    <3>5. running' \subseteq Nodes /\ due' \subseteq Nodes /\ unstarted' \subseteq Nodes
      BY <1>1, <2>5 DEF PeriodicEvent, StartTimer, NodeTypes
    <3>6. NodeTypes'  BY <3>3, <3>4, <3>5 DEF NodeTypes, TypeChange
    <3> QED  BY <2>2, <2>3, <3>6 DEF IInv, TypeOK, UartInv, NodeTypes, LoopTypes
  <2> QED  BY <1>3, <2>4, <2>5 DEF Node
<1> QED  BY <1>2, <1>3

LEMMA QueueStep ==
  ASSUME IInv, TakeReport \/ TasksDone
  PROVE  IInv'
<1>1. UartInv /\ NodeTypes /\ LoopTypes  BY InParts
<1>2. UartInv'
  BY <1>1, UartUndisturbed DEF TakeReport, TasksDone
<1>3. NodeTypes'
  BY <1>1 DEF TakeReport, TasksDone, nodeVars, reportVars, NodeTypes
<1>4. CASE TakeReport
  <2>1. Head(box) \in 1 .. MaxReports /\ Tail(box) \in Seq(1 .. MaxReports)
    BY <1>1, <1>4, HeadTailProperties DEF TakeReport, LoopTypes
  <2>2. 1 \in Parts  BY ConstantsAreNat DEF Parts
  <2>3. LoopTypes'  BY <1>4, <2>1, <2>2 DEF TakeReport, LoopTypes
  <2> QED  BY <1>2, <1>3, <2>3 DEF IInv, TypeOK, UartInv, NodeTypes, LoopTypes
<1>5. CASE TasksDone
  <2>1. LoopTypes'  BY <1>1, <1>5 DEF TasksDone, LoopTypes, loopVars
  <2> QED  BY <1>2, <1>3, <2>1 DEF IInv, TypeOK, UartInv, NodeTypes, LoopTypes
<1> QED  BY <1>4, <1>5

--------------------------------------------------------------------------------
(* HalUARTWrite. *)

(* A step of the coordinator in the middle of a report. *)
LEMMA NextPartTypes ==
  ASSUME LoopTypes, pc \in {"print", "commit"}, NextPart, UNCHANGED box
  PROVE  LoopTypes' /\ pc' \notin {"arm", "commit"}
<1>1. part \in 1 .. Len(PartLens) /\ Len(PartLens) \in Nat
  BY ConstantsAreNat DEF LoopTypes, Parts
<1>2. part # Len(PartLens) => part + 1 \in Parts
  BY <1>1 DEF Parts
<1> QED  BY <1>2 DEF LoopTypes, NextPart

LEMMA CopyStep ==
  ASSUME IInv, PrintPart
  PROVE  IInv'
<1>1. UartTypeOK /\ Channel /\ CharTime /\ NodeTypes /\ LoopTypes
  BY InParts DEF UartInv
<1> DEFINE w == Part(report, part)
           n == txIdx[txSel]
           s == txBuf[txSel]
           t == SubSeq(s, 1, n) \o w
<1>2. pc = "print" /\ pc' = "commit" /\ WriteCopy(w)
      /\ UNCHANGED <<nodeVars, reportVars, radio, box, report, part>>
  BY DEF PrintPart, loopVars
<1>3. w \in Seq(Units) /\ Len(w) \in Nat /\ Len(w) > 0
  BY <1>1, <1>2, PartIsSeq DEF LoopTypes
<1>4. txSel \in Sides /\ s \in Seq(Units) /\ n \in 0 .. TxMax /\ n \in 0 .. Len(s)
  BY <1>1, ConstantsAreNat DEF UartTypeOK
<1>5. /\ t \in Seq(Units) /\ Len(t) = n + Len(w)
      /\ SubSeq(t, 1, n) = SubSeq(s, 1, n)
  BY <1>3, <1>4, CopyBehind
<1> HIDE DEF w, t
<1>6. /\ txBuf' = [txBuf EXCEPT ![txSel] = t] /\ written' = [sel |-> txSel, idx |-> n + Len(w)]
      /\ n + Len(w) <= TxMax
      /\ UNCHANGED <<txIdx, txSel, txDMAPending, txShdw, txShdwValid, channelVars, charVars, st0>>
  BY <1>2, <1>3, <1>4 DEF WriteCopy, HasRoom, t
<1>7. UartTypeOK'
  <2>1. txBuf' \in [Sides -> Seq(Units)]  BY <1>1, <1>5, <1>6 DEF UartTypeOK
  <2>2. \A o \in Sides : txIdx'[o] <= Len(txBuf'[o])
    <3> TAKE o \in Sides
    <3>1. CASE o = txSel
      BY <3>1, <1>1, <1>3, <1>4, <1>5, <1>6 DEF UartTypeOK
    <3>2. CASE o # txSel  BY <3>2, <1>1, <1>6 DEF UartTypeOK
    <3> QED  BY <3>1, <3>2
  <2>3. written' \in [sel : Sides, idx : 0 .. TxMax]
    BY <1>3, <1>4, <1>6, ConstantsAreNat
  <2> QED  BY <1>1, <1>6, <2>1, <2>2, <2>3 DEF UartTypeOK, channelVars, charVars
<1>8. Channel'  BY <1>1, <1>2, <1>6 DEF Channel, Transferring, Far, channelVars
<1>9. CharTime'  BY <1>1, <1>6 DEF CharTime, Elapsed, channelVars, charVars
<1>10. Part(report, part)' = w
  BY <1>2 DEF w, Part
<1>11. Copied'
  BY <1>1, <1>2, <1>4, <1>5, <1>6, <1>10 DEF Copied, UartTypeOK, t
<1>12. NodeTypes'  BY <1>1, <1>2 DEF NodeTypes, nodeVars, reportVars
<1>13. LoopTypes'  BY <1>1, <1>2 DEF LoopTypes
<1> QED  BY <1>7, <1>8, <1>9, <1>11, <1>12, <1>13 DEF IInv, TypeOK, NodeTypes, LoopTypes

LEMMA CommitStep ==
  ASSUME IInv, PartWritten
  PROVE  IInv'
<1>1. UartTypeOK /\ Channel /\ CharTime /\ Copied /\ NodeTypes /\ LoopTypes
  BY InParts DEF UartInv
<1> DEFINE w == Part(report, part)
<1>2. pc = "commit" /\ NextPart /\ WriteCommit /\ UNCHANGED <<nodeVars, reportVars, radio, box>>
  BY DEF PartWritten
<1>3. LoopTypes' /\ pc' \notin {"arm", "commit"}
  BY <1>1, <1>2, NextPartTypes
<1>4. w \in Seq(Units) /\ Len(w) \in Nat /\ Len(w) > 0
  BY <1>1, <1>2, PartIsSeq DEF LoopTypes
<1>5. /\ txSel \in Sides /\ txIdx[txSel] \in 0 .. TxMax /\ txIdx[txSel] \in 0 .. Len(txBuf[txSel])
      /\ txBuf[txSel] \in Seq(Units)
  BY <1>1, ConstantsAreNat DEF UartTypeOK
<1>6. /\ written.sel = txSel /\ written.idx = txIdx[txSel] + Len(w) /\ written.idx \in 0 .. TxMax
      /\ txBuf[txSel] = SubSeq(txBuf[txSel], 1, txIdx[txSel]) \o w
  BY <1>1, <1>2 DEF Copied, UartTypeOK
<1>7. Len(txBuf[txSel]) = written.idx
  BY <1>4, <1>5, <1>6, CopyBehind
<1> HIDE DEF w
<1>8. /\ txIdx' = [txIdx EXCEPT ![txSel] = written.idx]
      /\ txDMAPending' = IF txIdx[Far] = 0 THEN "yes" ELSE txDMAPending
      /\ written' = NoWrite
      /\ UNCHANGED <<txBuf, txSel, txShdw, txShdwValid, channelVars, charVars, st0>>
  BY <1>2, <1>6 DEF WriteCommit, Far
<1>9. Far \in Sides /\ Far # txSel
  BY <1>5, SidesAreTwo DEF Far
<1>10. /\ txIdx'[txSel] = written.idx /\ txIdx'[Far] = txIdx[Far] /\ written.idx > 0
  BY <1>1, <1>4, <1>5, <1>6, <1>8, <1>9 DEF UartTypeOK
<1>11. UartTypeOK'
  <2>1. txIdx' \in [Sides -> 0 .. TxMax]  BY <1>1, <1>6, <1>8 DEF UartTypeOK
  <2>2. \A o \in Sides : txIdx'[o] <= Len(txBuf'[o])
    BY <1>1, <1>6, <1>7, <1>8 DEF UartTypeOK
  <2>3. written' \in [sel : Sides, idx : 0 .. TxMax]
    BY <1>8, ConstantsAreNat DEF NoWrite, Sides
  <2> QED  BY <1>1, <1>8, <2>1, <2>2, <2>3 DEF UartTypeOK, YesNo, channelVars, charVars
<1>12. Channel'
  BY <1>1, <1>2, <1>3, <1>8, <1>10 DEF Channel, Transferring, Far, channelVars
<1>13. CharTime'  BY <1>1, <1>8 DEF CharTime, Elapsed, channelVars, charVars
<1>14. Copied'  BY <1>3 DEF Copied
<1>15. NodeTypes'  BY <1>1, <1>2 DEF NodeTypes, nodeVars, reportVars
<1> QED  BY <1>3, <1>11, <1>12, <1>13, <1>14, <1>15 DEF IInv, TypeOK, NodeTypes, LoopTypes

LEMMA DropStep ==
  ASSUME IInv, PartDropped
  PROVE  IInv'
<1>1. UartInv /\ NodeTypes /\ LoopTypes  BY InParts
<1>2. /\ pc = "print" /\ NextPart /\ UNCHANGED box
      /\ UNCHANGED <<driverVars, channelVars, charVars, st0, nodeVars, reportVars, radio>>
  BY DEF PartDropped
<1>3. LoopTypes' /\ pc' \notin {"arm", "commit"}  BY <1>1, <1>2, NextPartTypes
<1>4. UartInv'  BY <1>1, <1>2, <1>3, UartUndisturbed
<1>5. NodeTypes'  BY <1>1, <1>2 DEF NodeTypes, nodeVars, reportVars
<1> QED  BY <1>3, <1>4, <1>5 DEF IInv, TypeOK, UartInv, NodeTypes, LoopTypes

--------------------------------------------------------------------------------
(* HalUARTPollDMA, the interrupt and the hardware. *)

(* What the driver and the hardware do leaves the rest as it is; they are at no part of a
   report unless the coordinator is. *)
LEMMA OthersUndisturbed ==
  ASSUME IInv, UNCHANGED <<nodeVars, reportVars, radio, loopVars>>,
         pc' = pc \/ (pc \notin {"print", "commit"} /\ pc' \in {"fire", "arm", "tasks"}),
         UartTypeOK', Channel', CharTime', Copied'
  PROVE  IInv'
<1>1. NodeTypes /\ LoopTypes  BY InParts
<1>2. NodeTypes'  BY <1>1 DEF NodeTypes, nodeVars, reportVars
<1>3. LoopTypes'  BY <1>1 DEF LoopTypes, loopVars
<1> QED  BY <1>2, <1>3 DEF IInv, TypeOK, NodeTypes, LoopTypes

LEMMA PollShadowStep ==
  ASSUME IInv, Frame(PollShadow)
  PROVE  IInv'
<1>1. UartTypeOK /\ Channel /\ CharTime  BY InParts DEF UartInv
<1>2. PollShadow /\ UNCHANGED <<nodeVars, reportVars, radio, loopVars>>  BY DEF Frame
<1> USE DEF PollShadow, channelVars, charVars
<1>3. UartTypeOK'  BY <1>1, <1>2 DEF UartTypeOK, YesNo
<1>4. Channel'  BY <1>1, <1>2 DEF Channel, Transferring, Far
<1>5. CharTime'
  <2>1. dbuf # Nothing => age <= TxTick /\ age \in Nat /\ TxTick \in Nat
    BY <1>1, ConstantsAreNat DEF CharTime, UartTypeOK
  <2>2. Elapsed \in Nat
    BY <1>1, ConstantsAreNat DEF Elapsed, UartTypeOK
  <2>3. txShdwValid = "yes" /\ txShdwValid' = "no" => dbuf = Nothing
    BY <1>1, <1>2, <2>1, <2>2, ConstantsAreNat DEF CharTime, CharTimeOver
  <2>4. Elapsed' = Elapsed  BY <1>2 DEF Elapsed
  <2>5. txShdwValid \in {"yes", "no"}  BY <1>1 DEF UartTypeOK, YesNo
  <2> QED  BY <1>1, <1>2, <2>3, <2>4, <2>5 DEF CharTime
<1>6. Copied'  BY <1>2 DEF Copied
<1> QED  BY <1>2, <1>3, <1>4, <1>5, <1>6, OthersUndisturbed

LEMMA PollFireStep ==
  ASSUME IInv, Frame(PollFire)
  PROVE  IInv'
<1>1. UartTypeOK /\ Channel /\ CharTime  BY InParts DEF UartInv
<1>2. PollFire /\ UNCHANGED <<nodeVars, reportVars, radio, loopVars>>  BY DEF Frame
<1>3. /\ txSel \in Sides /\ Far \in Sides /\ Far' = txSel
      /\ txIdx[txSel] \in 0 .. TxMax
  BY <1>1, <1>2, SidesAreTwo DEF UartTypeOK, PollFire, Far
<1>4. ~ Transferring /\ txIdx[txSel] > 0 /\ txShdwValid = "no"
  BY <1>1, <1>2 DEF Channel, PollFire, MayFire
<1> USE DEF PollFire
<1>5. dma' = [armed |-> "no", src |-> txSel, len |-> txIdx[txSel], moved |-> 0]
      /\ dma'.armed = "no" /\ dma'.src = txSel /\ dma'.len = txIdx[txSel] /\ dma'.moved = 0
  BY <1>2
<1>6. UartTypeOK'
  <2>1. dma' \in [armed : YesNo, src : Sides, len : 0 .. TxMax, moved : 0 .. TxMax]
    BY <1>3, <1>5, ConstantsAreNat DEF YesNo
  <2> QED  BY <1>1, <1>2, <1>3, <1>5, <2>1 DEF UartTypeOK, YesNo, charVars, Far
<1>7. irq = "no" /\ dma.armed = "no"
  BY <1>1, <1>4 DEF Transferring, UartTypeOK, YesNo
<1>8. Channel'  BY <1>2, <1>3, <1>4, <1>5, <1>7 DEF Channel, Transferring
<1>9. CharTime'  BY <1>1, <1>2, <1>4, <1>7 DEF CharTime, charVars
<1>10. Copied'  BY <1>2 DEF Copied
<1> QED  BY <1>2, <1>6, <1>8, <1>9, <1>10, OthersUndisturbed

(* One unit of the transfer d goes into an empty DBUF. *)
LEMMA MoveTypes ==
  ASSUME UartTypeOK, MoveUnit(dma), UNCHANGED <<driverVars, line, st0>>,
         dma.src = Far, dma.len = txIdx[Far], dma.moved < dma.len
  PROVE  /\ UartTypeOK' /\ dbuf' \in Units
         /\ dma'.src = dma.src /\ dma'.len = dma.len /\ dma'.moved = dma.moved + 1
         /\ IF dma.moved + 1 = dma.len THEN dma'.armed = "no" /\ irq' = "yes"
                                       ELSE dma'.armed = "yes" /\ irq' = "no"
<1>1. /\ txSel \in Sides /\ Far \in Sides /\ txBuf[Far] \in Seq(Units)
      /\ txIdx[Far] <= Len(txBuf[Far]) /\ txIdx[Far] \in 0 .. TxMax
      /\ dma \in [armed : YesNo, src : Sides, len : 0 .. TxMax, moved : 0 .. TxMax]
  BY SidesAreTwo DEF UartTypeOK, Far
<1>2. dma.moved + 1 \in 1 .. Len(txBuf[Far]) /\ dma.moved + 1 \in 0 .. TxMax
  BY <1>1, ConstantsAreNat
<1>3. dbuf' \in Units
  BY <1>1, <1>2 DEF MoveUnit
<1>4. /\ dma' = [dma EXCEPT !.moved = @ + 1, !.armed = IF dma.moved + 1 = dma.len THEN "no" ELSE "yes"]
      /\ irq' = (IF dma.moved + 1 = dma.len THEN "yes" ELSE "no") /\ age' = 0
  BY DEF MoveUnit
<1>5. dma' \in [armed : YesNo, src : Sides, len : 0 .. TxMax, moved : 0 .. TxMax]
  BY <1>1, <1>2, <1>4 DEF YesNo
<1>6. /\ dma'.src = dma.src /\ dma'.len = dma.len /\ dma'.moved = dma.moved + 1
      /\ dma'.armed = IF dma.moved + 1 = dma.len THEN "no" ELSE "yes"
  BY <1>1, <1>4
<1>7. UartTypeOK'
  <2>1. UNCHANGED <<txBuf, txIdx, txSel, txDMAPending, txShdw, txShdwValid, written, line, st0>>
    BY DEF driverVars
  <2>2. age' \in 0 .. TxTick + 1  BY <1>4, UartConstantsAreNat
  <2>3. irq' \in YesNo /\ dma'.armed \in YesNo  BY <1>4, <1>6 DEF YesNo
  <2> QED  BY <1>3, <1>5, <2>1, <2>2, <2>3 DEF UartTypeOK
<1> QED  BY <1>3, <1>4, <1>6, <1>7

LEMMA MoveStep ==
  ASSUME IInv, Frame(PollArm) \/ Frame(DmaTransfers)
  PROVE  IInv'
<1>1. UartTypeOK /\ Channel /\ CharTime /\ Copied  BY InParts DEF UartInv
<1>2. /\ MoveUnit(dma) /\ UNCHANGED <<driverVars, line, st0>>
      /\ UNCHANGED <<nodeVars, reportVars, radio, loopVars>>
      /\ \/ pc = "arm" /\ pc' = "tasks"
         \/ dma.armed = "yes" /\ pc' = pc
  BY DEF Frame, PollArm, DmaTransfers
<1>3. /\ Transferring /\ dma.src = Far /\ dma.len = txIdx[Far] /\ dma.moved < dma.len
      /\ txShdwValid = "no" /\ txDMAPending = "no" /\ pc' # "arm"
  BY <1>1, <1>2 DEF Channel, Transferring
<1>4. /\ UartTypeOK' /\ dbuf' \in Units
      /\ dma'.src = dma.src /\ dma'.len = dma.len /\ dma'.moved = dma.moved + 1
      /\ IF dma.moved + 1 = dma.len THEN dma'.armed = "no" /\ irq' = "yes"
                                    ELSE dma'.armed = "yes" /\ irq' = "no"
  BY <1>1, <1>2, <1>3, MoveTypes
<1>5. dma.moved \in Nat /\ dma.len \in Nat  BY <1>1, ConstantsAreNat DEF UartTypeOK
<1>6. Channel'
  BY <1>1, <1>2, <1>3, <1>4, <1>5 DEF Channel, Transferring, Far, driverVars
<1>7. CharTime'
  BY <1>2, <1>3, <1>4, ConstantsAreNat DEF CharTime, driverVars, MoveUnit
<1>8. Copied'
  <2>1. CASE pc' = pc  BY <1>1, <1>2, <2>1 DEF Copied, Part, driverVars, loopVars
  <2>2. CASE pc' = "tasks"  BY <2>2 DEF Copied
  <2> QED  BY <1>2, <2>1, <2>2
<1> QED  BY <1>2, <1>4, <1>6, <1>7, <1>8, OthersUndisturbed

(* HalUARTIsrDMA, called by the interrupt or by the poll. *)
LEMMA IsrStep ==
  ASSUME UartTypeOK, Channel, CharTime, Copied, IsrDMA, pc # "arm", dma.armed = "no",
         UNCHANGED <<txBuf, txSel, written, dma, charVars, st0>>,
         pc' = pc \/ pc' = "tasks", UNCHANGED <<report, part>>
  PROVE  UartTypeOK' /\ Channel' /\ CharTime' /\ Copied'
<1>1. Far \in Sides /\ Far' = Far /\ txSel \in Sides /\ Far # txSel
  BY SidesAreTwo DEF UartTypeOK, Far
<1>2. /\ irq' = "no" /\ txIdx' = [txIdx EXCEPT ![Far] = 0]
      /\ txShdw' = st0 /\ txShdwValid' = "yes"
      /\ txDMAPending' = IF txIdx[txSel] # 0 THEN "yes" ELSE txDMAPending
  BY DEF IsrDMA, Far
<1>3. txIdx'[Far] = 0 /\ txIdx'[txSel] = txIdx[txSel] /\ txIdx[txSel] \in Nat
  BY <1>1, <1>2, ConstantsAreNat DEF UartTypeOK
<1>4. UartTypeOK'
  <2>1. txIdx' \in [Sides -> 0 .. TxMax]
    <3>1. 0 \in 0 .. TxMax  BY UartConstantsAreNat
    <3>2. txIdx \in [Sides -> 0 .. TxMax]  BY DEF UartTypeOK
    <3> QED  BY <1>2, <3>1, <3>2
  <2>2. \A o \in Sides : txIdx'[o] <= Len(txBuf'[o])
    <3> TAKE o \in Sides
    <3>1. CASE o = Far
      <4>1. txBuf[o] \in Seq(Units)  BY DEF UartTypeOK
      <4>2. Len(txBuf[o]) \in Nat  BY <4>1, LenProperties
      <4> QED  BY <3>1, <1>3, <4>2
    <3>2. CASE o # Far  BY <3>2, <1>2 DEF UartTypeOK
    <3> QED  BY <3>1, <3>2
  <2> QED  BY <1>2, <2>1, <2>2 DEF UartTypeOK, YesNo, charVars
<1>5. Channel'
  BY <1>1, <1>2, <1>3 DEF Channel, Transferring
<1>6. CharTime'
  <2>1. Elapsed' = 0 /\ age \in Nat  BY <1>2, ConstantsAreNat DEF Elapsed, UartTypeOK
  <2>2. dbuf # Nothing => age <= TxTick  BY DEF CharTime
  <2> QED  BY <1>2, <2>1, <2>2 DEF CharTime, charVars
<1>7. Copied'
  <2>1. CASE pc' = pc  BY <1>2, <1>3, <2>1 DEF Copied, Part
  <2>2. CASE pc' = "tasks"  BY <2>2 DEF Copied
  <2> QED  BY <2>1, <2>2
<1> QED  BY <1>4, <1>5, <1>6, <1>7

LEMMA PollElseStep ==
  ASSUME IInv, Frame(PollElse)
  PROVE  IInv'
<1>1. UartTypeOK /\ Channel /\ CharTime /\ Copied  BY InParts DEF UartInv
<1>2. /\ pc = "fire" /\ ~ MayFire /\ pc' = "tasks"
      /\ UNCHANGED <<txBuf, txSel, written, dma, charVars, st0>>
      /\ UNCHANGED <<nodeVars, reportVars, radio, loopVars>>
  BY DEF Frame, PollElse
<1>3. CASE IsrDMA /\ dma.armed = "no"
  <2>1. UartTypeOK' /\ Channel' /\ CharTime' /\ Copied'
    BY <1>1, <1>2, <1>3, IsrStep DEF loopVars
  <2> QED  BY <1>2, <2>1, OthersUndisturbed
<1>4. CASE UNCHANGED <<irq, txIdx, txShdw, txShdwValid, txDMAPending>>
  <2>1. UNCHANGED <<driverVars, channelVars, charVars, st0>> /\ {pc, pc'} \cap {"arm", "commit"} = {}
    BY <1>2, <1>4 DEF driverVars, channelVars
  <2>2. UartInv'  BY <1>1, <2>1, UartUndisturbed DEF UartInv
  <2> QED  BY <1>2, <2>2, OthersUndisturbed DEF UartInv
<1> QED  BY <1>3, <1>4 DEF Frame, PollElse

LEMMA InterruptStep ==
  ASSUME IInv, Frame(DmaInterrupts)
  PROVE  IInv'
<1>1. UartTypeOK /\ Channel /\ CharTime /\ Copied  BY InParts DEF UartInv
<1>2. /\ irq = "yes" /\ IsrDMA /\ UNCHANGED <<txBuf, txSel, written, dma, charVars, st0, pc>>
      /\ UNCHANGED <<nodeVars, reportVars, radio, loopVars>>
  BY DEF Frame, DmaInterrupts
<1>3. pc # "arm" /\ dma.armed = "no"
  BY <1>1, <1>2 DEF Channel, UartTypeOK, YesNo
<1>4. UartTypeOK' /\ Channel' /\ CharTime' /\ Copied'
  BY <1>1, <1>2, <1>3, IsrStep DEF loopVars
<1> QED  BY <1>2, <1>4, OthersUndisturbed

LEMMA CharLeavesStep ==
  ASSUME IInv, Frame(CharLeaves)
  PROVE  IInv'
<1>1. UartTypeOK /\ Channel /\ CharTime /\ Copied  BY InParts DEF UartInv
<1>2. /\ dbuf # Nothing /\ line' = Append(line, dbuf) /\ dbuf' = Nothing
      /\ UNCHANGED <<driverVars, channelVars, age, st0, pc>>
      /\ UNCHANGED <<nodeVars, reportVars, radio, loopVars>>
  BY DEF Frame, CharLeaves
<1>3. UartTypeOK'
  <2>1. dbuf \in Units /\ line \in Seq(Units)  BY <1>1, <1>2 DEF UartTypeOK
  <2>2. line' \in Seq(Units)  BY <1>2, <2>1, AppendProperties
  <2> QED  BY <1>1, <1>2, <2>2 DEF UartTypeOK, driverVars, channelVars
<1>4. Channel'  BY <1>1, <1>2 DEF Channel, Transferring, Far, driverVars, channelVars
<1>5. CharTime'  BY <1>2 DEF CharTime
<1>6. Copied'  BY <1>1, <1>2 DEF Copied, Part, driverVars, loopVars
<1> QED  BY <1>2, <1>3, <1>4, <1>5, <1>6, OthersUndisturbed

(* While a character is in DBUF the timer cannot come round to the reading of the interrupt. *)
LEMMA TickStep ==
  ASSUME IInv, Frame(Tick)
  PROVE  IInv'
<1>1. UartTypeOK /\ Channel /\ CharTime /\ Copied  BY InParts DEF UartInv
<1>2. /\ dbuf # Nothing => age < TxTick
      /\ st0' = IF st0 + 1 = ClockMod THEN 0 ELSE st0 + 1
      /\ age' = IF age > TxTick THEN age ELSE age + 1
      /\ UNCHANGED <<driverVars, channelVars, dbuf, line, pc>>
      /\ UNCHANGED <<nodeVars, reportVars, radio, loopVars>>
  BY DEF Frame, Tick
<1>3. st0 \in 0 .. ClockMod - 1 /\ txShdw \in 0 .. ClockMod - 1 /\ age \in 0 .. TxTick + 1
  BY <1>1 DEF UartTypeOK
<1>4. UNCHANGED <<txBuf, txIdx, txSel, txDMAPending, txShdw, txShdwValid, written, dma, irq>>
  BY <1>2 DEF driverVars, channelVars
<1>5. UartTypeOK'
  <2>1. st0' \in 0 .. ClockMod - 1 /\ age' \in 0 .. TxTick + 1
    BY <1>2, <1>3, UartConstantsAreNat
  <2> QED  BY <1>1, <1>2, <1>4, <2>1 DEF UartTypeOK
<1>6. Channel'  BY <1>1, <1>2, <1>4 DEF Channel, Transferring, Far
<1>7. CharTime'
  <2>1. ASSUME dbuf # Nothing, txShdwValid = "yes"
        PROVE  Elapsed' <= age'
    <3>1. Elapsed <= age /\ age < TxTick  BY <1>1, <1>2, <2>1 DEF CharTime
    <3>2. Elapsed' = Elapsed + 1
      BY <1>2, <1>3, <1>4, <3>1, UartConstantsAreNat DEF Elapsed
    <3>3. Elapsed \in Nat  BY <1>3, UartConstantsAreNat DEF Elapsed
    <3> QED  BY <1>2, <1>3, <3>1, <3>2, <3>3, UartConstantsAreNat
  <2>2. dbuf # Nothing => age' <= TxTick
    BY <1>2, <1>3, UartConstantsAreNat
  <2> QED  BY <1>1, <1>2, <1>4, <2>1, <2>2 DEF CharTime
<1>8. Copied'  BY <1>1, <1>2, <1>4 DEF Copied, Part, loopVars
<1> QED  BY <1>2, <1>5, <1>6, <1>7, <1>8, OthersUndisturbed

--------------------------------------------------------------------------------
(* The invariant is inductive. *)

LEMMA NextIInv == IInv /\ [Next]_vars => IInv'
<1> SUFFICES ASSUME IInv, [Next]_vars
             PROVE  IInv'
  OBVIOUS
<1>1. CASE Coordinator
  BY <1>1, QueueStep, CopyStep, CommitStep, DropStep DEF Coordinator
<1>2. CASE UartPoll
  BY <1>2, PollShadowStep, PollFireStep, MoveStep, PollElseStep DEF UartPoll, Poll, Frame
<1>3. CASE Uart
  BY <1>3, MoveStep, CharLeavesStep, TickStep, InterruptStep DEF Uart, Hardware, Frame
<1>4. CASE Arrives \/ \E n \in Nodes : Node(n)
  BY <1>4, NodeStep
<1>5. CASE UNCHANGED vars
  <2>1. UartInv /\ NodeTypes /\ LoopTypes  BY InParts
  <2>2. UartInv'  BY <1>5, <2>1, UartUndisturbed DEF vars, uartVars, loopVars
  <2>3. NodeTypes'  BY <1>5, <2>1 DEF vars, nodeVars, reportVars, NodeTypes
  <2>4. LoopTypes'  BY <1>5, <2>1 DEF vars, uartVars, loopVars, LoopTypes
  <2> QED  BY <2>2, <2>3, <2>4 DEF IInv, TypeOK, UartInv, NodeTypes, LoopTypes
<1> QED  BY <1>1, <1>2, <1>3, <1>4, <1>5 DEF Next

LEMMA InitIInv == Init => IInv
<1> SUFFICES ASSUME Init
             PROVE  IInv
  OBVIOUS
<1> USE DEF Init, UartInit
<1>1. UartTypeOK
  <2>1. 0 \in 0 .. TxMax /\ 0 \in 0 .. ClockMod - 1 /\ 0 \in 0 .. TxTick + 1 /\ 0 \in Sides
    BY UartConstantsAreNat DEF Sides
  <2>2. << >> \in Seq(Units) /\ Len(<< >>) = 0
    OBVIOUS
  <2> QED  BY <2>1, <2>2 DEF UartTypeOK, YesNo, NoWrite
<1>2. Channel  BY DEF Channel, Transferring, Far, Sides, Other
<1>3. CharTime /\ Copied  BY DEF CharTime, Copied
<1>4. NodeTypes
  <2>1. 0 \in 0 .. MaxReports  BY ConstantsAreNat
  <2> QED  BY <2>1 DEF NodeTypes
<1>5. LoopTypes  BY DEF LoopTypes
<1> QED  BY <1>1, <1>2, <1>3, <1>4, <1>5 DEF IInv, TypeOK, NodeTypes, LoopTypes

LEMMA SpecIInv == Spec => []IInv
<1> QED  BY InitIInv, NextIInv, PTL DEF Spec

(* At every time the states of the driver, its interrupt and the channel fit together:
   HalUARTPollDMA changes txShdwValid and txDMAPending only while no interrupt can come
   and no transfer is under way, and fires the next transfer only when the last character
   of the one before has left DBUF. *)
THEOREM SensorSafe == Spec => []SensorSound
<1>1. IInv => SensorSound
  <2> SUFFICES ASSUME IInv
               PROVE  SensorSound
    OBVIOUS
  <2>1. TypeOK /\ Channel /\ CharTime  BY DEF IInv
  <2>2. dma.armed \in YesNo /\ irq \in YesNo  BY <2>1 DEF TypeOK, UartTypeOK
  <2>3. ShadowMeansIdle  BY <2>1, <2>2 DEF ShadowMeansIdle, Channel, Transferring, YesNo
  <2>4. LastCharLeft
    BY <2>1, <2>2 DEF LastCharLeft, Channel, CharTime, Transferring, YesNo
  <2> QED  BY <2>1, <2>3, <2>4 DEF SensorSound
<1> QED  BY <1>1, SpecIInv, PTL

--------------------------------------------------------------------------------
(* The text of a reading. *)

LEMMA DivBounds ==
  ASSUME NEW n \in Nat
  PROVE  /\ n \div 10 \in Nat /\ 10 * (n \div 10) <= n /\ n < 10 * (n \div 10) + 10
         /\ n \div 100 \in Nat /\ 100 * (n \div 100) <= n /\ n < 100 * (n \div 100) + 100
         /\ n \div 1000 \in Nat /\ 1000 * (n \div 1000) <= n /\ n < 1000 * (n \div 1000) + 1000
         /\ n \div 10000 \in Nat /\ 10000 * (n \div 10000) <= n /\ n < 10000 * (n \div 10000) + 10000
OBVIOUS

(* The characters of temp are the digits of the reading's magnitude. *)
TextOf(g, n) ==
    <<g, Quotient(n, 10000) + Zero,
      Quotient(Remainder(n, 10000), 1000) + Zero, Quotient(Remainder(n, 1000), 100) + Zero,
      Quotient(Remainder(n, 100), 10) + Zero, Remainder(n, 10) + Zero>>

LEMMA TextReads ==
  ASSUME NEW n \in Nat, n <= 32768, NEW g
  PROVE  Digits(TextOf(g, n)) /\ Value(TextOf(g, n)) = (IF g = Minus THEN -1 ELSE 1) * n
<1> DEFINE t == TextOf(g, n)
           x == n \div 1000
           y == n \div 100
           z == n \div 10
           a == n \div 10000
           b == (n - 10000 * a) \div 1000
           c == (n - 1000 * x) \div 100
           d == (n - 100 * y) \div 10
           e == n - 10 * z
<1>1. n \in Nat /\ n <= 32768  OBVIOUS
<1>2. a \in Nat /\ 10000 * a <= n /\ n < 10000 * a + 10000  BY <1>1, DivBounds
<1>3. x \in Nat /\ 1000 * x <= n /\ n < 1000 * x + 1000  BY <1>1, DivBounds
<1>4. y \in Nat /\ 100 * y <= n /\ n < 100 * y + 100  BY <1>1, DivBounds
<1>5. z \in Nat /\ 10 * z <= n /\ n < 10 * z + 10  BY <1>1, DivBounds
<1>6. b \in Nat /\ 1000 * b <= n - 10000 * a /\ n - 10000 * a < 1000 * b + 1000
  <2>1. n - 10000 * a \in Nat  BY <1>1, <1>2
  <2> QED  BY <2>1, DivBounds
<1>7. c \in Nat /\ 100 * c <= n - 1000 * x /\ n - 1000 * x < 100 * c + 100
  <2>1. n - 1000 * x \in Nat  BY <1>1, <1>3
  <2> QED  BY <2>1, DivBounds
<1>8. d \in Nat /\ 10 * d <= n - 100 * y /\ n - 100 * y < 10 * d + 10
  <2>1. n - 100 * y \in Nat  BY <1>1, <1>4
  <2> QED  BY <2>1, DivBounds
<1>9. t = <<g, a + Zero, b + Zero, c + Zero, d + Zero, e + Zero>>
  <2>1. \A k \in {10, 100, 1000, 10000} :
            Quotient(n, k) = n \div k /\ Remainder(n, k) = n - k * (n \div k)
    BY DEF Quotient, Remainder
  <2>2. n - 10000 * (n \div 10000) \in Nat /\ n - 1000 * (n \div 1000) \in Nat /\ n - 100 * (n \div 100) \in Nat
    BY <1>1, DivBounds
  <2>3. \A m \in Nat, k \in {10, 100, 1000} : Quotient(m, k) = m \div k
    BY DEF Quotient
  <2> QED  BY <2>1, <2>2, <2>3 DEF TextOf
<1>10. e = n - 10 * z  OBVIOUS
<1> HIDE DEF a, b, c, d, e, t, x, y, z
<1>11. x = 10 * a + b /\ b <= 9 /\ a <= 9  BY <1>1, <1>2, <1>3, <1>6
<1>12. y = 10 * x + c /\ c <= 9  BY <1>1, <1>3, <1>4, <1>7
<1>13. z = 10 * y + d /\ d <= 9  BY <1>1, <1>4, <1>5, <1>8
<1>14. n = 10 * z + e /\ e \in Nat /\ e <= 9  BY <1>1, <1>5, <1>10
<1>. /\ a \in Nat /\ b \in Nat /\ c \in Nat /\ d \in Nat /\ e \in Nat
     /\ x \in Nat /\ y \in Nat /\ z \in Nat
  BY <1>2, <1>3, <1>4, <1>5, <1>6, <1>7, <1>8, <1>14
<1>15. a * 10000 + b * 1000 + c * 100 + d * 10 + e = n
  <2>1. y = 100 * a + 10 * b + c  BY <1>11, <1>12
  <2>2. z = 1000 * a + 100 * b + 10 * c + d  BY <1>11, <1>12, <1>13, <2>1
  <2> QED  BY <1>11, <1>12, <1>13, <1>14, <2>2
<1>16. /\ t[1] = g /\ t[2] = a + 48 /\ t[3] = b + 48 /\ t[4] = c + 48 /\ t[5] = d + 48 /\ t[6] = e + 48
  BY <1>9 DEF Zero
<1>17. Digits(t)
  <2>1. \A i \in 2 .. 6 : i = 2 \/ i = 3 \/ i = 4 \/ i = 5 \/ i = 6  OBVIOUS
  <2> QED  BY <1>11, <1>12, <1>13, <1>14, <1>16, <2>1 DEF Digits, Zero
<1>18. (t[2] - 48) * 10000 + (t[3] - 48) * 1000 + (t[4] - 48) * 100 + (t[5] - 48) * 10 + (t[6] - 48)
         = a * 10000 + b * 1000 + c * 100 + d * 10 + e
  BY <1>11, <1>12, <1>13, <1>14, <1>16
<1>19. Value(t) = (IF g = Minus THEN -1 ELSE 1) * n
  BY <1>15, <1>16, <1>18 DEF Value, Zero
<1> QED  BY <1>17, <1>19 DEF t

LEMMA TextOfReading ==
  ASSUME NEW v \in Int16
  PROVE  /\ v = Least => ~ Digits(TypeChange(v))
         /\ v # Least => Digits(TypeChange(v)) /\ Value(TypeChange(v)) = v
<1>1. v \in Int /\ Least <= v /\ v <= Greatest
  <2>1. Least \in Int /\ Greatest \in Int  BY DEF Least, Greatest
  <2> QED  BY <2>1 DEF Int16
<1>2. CASE v >= 0
  <2>1. v \in Nat /\ v <= 32768 /\ v # Least /\ 1 * v = v
    BY <1>1, <1>2 DEF Least, Greatest
  <2>2. TypeChange(v) = TextOf(Plus, v)  BY <1>1, <1>2 DEF TypeChange, TextOf
  <2>3. Plus # Minus  BY DEF Plus, Minus
  <2>4. Digits(TextOf(Plus, v)) /\ Value(TextOf(Plus, v)) = v
    BY <2>1, <2>3, TextReads
  <2> QED  BY <2>1, <2>2, <2>4
<1>3. CASE v < 0 /\ v # Least
  <2>1. -v \in Nat /\ -v <= 32768 /\ Negated(v) = -v /\ (-1) * (-v) = v
    BY <1>1, <1>3 DEF Negated, Least
  <2>2. TypeChange(v) = TextOf(Minus, -v)  BY <1>3, <2>1 DEF TypeChange, TextOf
  <2>3. Digits(TextOf(Minus, -v)) /\ Value(TextOf(Minus, -v)) = v
    BY <2>1, TextReads
  <2> QED  BY <1>3, <2>2, <2>3
<1>4. CASE v = Least
  <2>1. Negated(v) = -32768 /\ v < 0  BY <1>4 DEF Negated, Least
  <2>2. Quotient(-32768, 10000) = -3  BY DEF Quotient
  <2>3. TypeChange(v)[2] = 45  BY <2>1, <2>2 DEF TypeChange, Zero
  <2>4. 2 \in 2 .. 6 /\ 45 \notin 48 .. 57  OBVIOUS
  <2>5. ~ Digits(TypeChange(v))  BY <2>3, <2>4 DEF Digits, Zero
  <2> QED  BY <1>4, <2>5
<1> QED  BY <1>1, <1>2, <1>3, <1>4

(* The text that type_change makes of a reading reads back as that reading, whatever the
   sensor measures, but for the least 16-bit integer, whose text is none. *)
THEOREM ReadsBack == Spec => []TextReadsBack
<1>1. IInv => TextReadsBack
  <2> SUFFICES ASSUME IInv
               PROVE  TextReadsBack
    OBVIOUS
  <2>1. acc \in Readings \cup {0} /\ temp = TypeChange(acc)  BY DEF IInv, TypeOK
  <2>2. acc \in Int16
    <3>1. Readings \subseteq Int16  BY SensorAssumption DEF SensorAssumption
    <3>2. 0 \in Int16  BY DEF Int16, Least, Greatest
    <3> QED  BY <2>1, <3>1, <3>2
  <2> QED  BY <2>1, <2>2, TextOfReading DEF TextReadsBack
<1> QED  BY <1>1, SpecIInv, PTL

--------------------------------------------------------------------------------
(* The line.  What waits is in DBUF, in the buffer that is transferred and in the one
   that is written. *)

InDbuf == IF dbuf = Nothing THEN << >> ELSE <<dbuf>>
InTransfer == SubSeq(txBuf[Far], dma.moved + 1, txIdx[Far])
InWritten == SubSeq(txBuf[txSel], 1, txIdx[txSel])

LEMMA WaitingIs == Waiting = InDbuf \o InTransfer \o InWritten
BY DEF Waiting, InDbuf, InTransfer, InWritten, Far

LEMMA WaitingTypes ==
  ASSUME UartTypeOK
  PROVE  InDbuf \in Seq(Units) /\ InTransfer \in Seq(Units) /\ InWritten \in Seq(Units)
<1>1. /\ txSel \in Sides /\ Far \in Sides /\ dma.moved \in Nat
      /\ \A s \in Sides : txBuf[s] \in Seq(Units) /\ txIdx[s] \in Nat /\ txIdx[s] <= Len(txBuf[s])
  BY SidesAreTwo, UartConstantsAreNat DEF UartTypeOK, Far
<1>2. InDbuf \in Seq(Units)  BY DEF InDbuf, UartTypeOK
<1>3. \A s \in Sides : \A i \in 1 .. txIdx[s] : txBuf[s][i] \in Units
  <2> TAKE s \in Sides
  <2> TAKE i \in 1 .. txIdx[s]
  <2>1. txBuf[s] \in Seq(Units) /\ i \in 1 .. Len(txBuf[s])  BY <1>1, LenProperties
  <2> QED  BY <2>1
<1>4. InTransfer \in Seq(Units)
  <2>1. \A i \in dma.moved + 1 .. txIdx[Far] : txBuf[Far][i] \in Units  BY <1>1, <1>3
  <2> QED  BY <1>1, <2>1, SubSeqProperties DEF InTransfer
<1>5. InWritten \in Seq(Units)
  <2>1. \A i \in 1 .. txIdx[txSel] : txBuf[txSel][i] \in Units  BY <1>1, <1>3
  <2> QED  BY <1>1, <2>1, SubSeqProperties DEF InWritten
<1> QED  BY <1>2, <1>4, <1>5

(* Once a transfer is complete nothing waits in its buffer. *)
LEMMA NothingToTransfer ==
  ASSUME UartTypeOK, txIdx[Far] <= dma.moved
  PROVE  InTransfer = << >>
<1>1. Far \in Sides  BY SidesAreTwo DEF UartTypeOK, Far
<1>2. dma.moved \in Nat /\ txIdx[Far] \in Nat  BY <1>1, UartConstantsAreNat DEF UartTypeOK
<1> QED  BY <1>2, SubSeqEmpty DEF InTransfer

(* A character leaves: the line's Leave. *)
LEMMA LeaveStep ==
  ASSUME IInv, Frame(CharLeaves)
  PROVE  Promised!Leave
<1>1. UartTypeOK  BY InParts DEF UartInv
<1>2. /\ dbuf # Nothing /\ line' = Append(line, dbuf) /\ dbuf' = Nothing
      /\ UNCHANGED <<driverVars, channelVars, age, st0, pc>>
  BY DEF Frame, CharLeaves
<1> DEFINE r == InTransfer \o InWritten
<1>3. InTransfer' = InTransfer /\ InWritten' = InWritten
  BY <1>2 DEF InTransfer, InWritten, Far, driverVars, channelVars
<1>4. r \in Seq(Units) /\ dbuf \in Units /\ InTransfer \in Seq(Units) /\ InWritten \in Seq(Units)
  BY <1>1, <1>2, WaitingTypes, ConcatProperties DEF UartTypeOK
<1>5. Waiting = <<dbuf>> \o r
  <2>1. InDbuf = <<dbuf>> /\ <<dbuf>> \in Seq(Units)  BY <1>2, <1>4 DEF InDbuf
  <2> QED  BY <1>4, <2>1, WaitingIs, ConcatAssociative
<1>6. Waiting' = r
  <2>1. InDbuf' = << >>  BY <1>2 DEF InDbuf
  <2>2. Waiting' = (<< >> \o InTransfer) \o InWritten
    BY <1>3, <2>1 DEF Waiting, InDbuf, InTransfer, InWritten, Far
  <2> QED  BY <1>4, <2>2, ConcatEmptySeq
<1> HIDE DEF r
<1>7. <<dbuf>> \o r # << >> /\ Head(<<dbuf>> \o r) = dbuf /\ Tail(<<dbuf>> \o r) = r
  BY <1>4
<1> QED  BY <1>2, <1>5, <1>6, <1>7 DEF Promised!Leave

(* A unit goes from the buffer to DBUF: it goes on waiting in its place. *)
LEMMA MoveKeeps ==
  ASSUME IInv, Frame(PollArm) \/ Frame(DmaTransfers)
  PROVE  UNCHANGED <<Waiting, line>>
<1>1. UartTypeOK /\ Channel /\ CharTime  BY InParts DEF UartInv
<1>2. /\ MoveUnit(dma) /\ UNCHANGED <<driverVars, line, st0>>
      /\ \/ pc = "arm"
         \/ dma.armed = "yes" /\ dbuf = Nothing
  BY DEF Frame, PollArm, DmaTransfers
<1>3. dbuf = Nothing /\ dma.len = txIdx[Far] /\ dma.src = Far /\ dma.moved < dma.len
  BY <1>1, <1>2 DEF Channel, CharTime, Transferring, UartTypeOK, YesNo
<1> DEFINE m == dma.moved + 1
           b == txBuf[Far]
           n == txIdx[Far]
<1>4. Far \in Sides /\ b \in Seq(Units) /\ n \in Nat /\ n <= Len(b) /\ dma.moved \in Nat
  BY <1>1, SidesAreTwo, UartConstantsAreNat DEF UartTypeOK, Far
<1>5. m \in 1 .. Len(b) /\ n \in m .. Len(b)
  BY <1>3, <1>4, LenProperties
<1>6. InTransfer = <<b[m]>> \o SubSeq(b, m + 1, n)
  BY <1>4, <1>5, SubSeqRecursiveFirst DEF InTransfer
<1>7. dbuf' = b[m] /\ dma'.moved = m
  BY <1>1, <1>2, <1>3 DEF MoveUnit, UartTypeOK
<1>8. InTransfer' = SubSeq(b, m + 1, n) /\ InWritten' = InWritten
  BY <1>2, <1>7 DEF InTransfer, InWritten, Far, driverVars
<1>9. b[m] \in Units /\ b[m] # Nothing  BY <1>4, <1>5, UartConstantsAreNat
<1>10. InDbuf = << >> /\ InDbuf' = <<b[m]>>  BY <1>3, <1>7, <1>9 DEF InDbuf
<1>11. InTransfer \in Seq(Units)  BY <1>1, WaitingTypes
<1>12. InDbuf \o InTransfer = InTransfer /\ InDbuf' \o InTransfer' = InTransfer
  <2> HIDE DEF m, b, n
  <2> QED  BY <1>6, <1>8, <1>10, <1>11, ConcatEmptySeq
<1>13. Waiting' = InDbuf' \o InTransfer' \o InWritten'
  BY DEF Waiting, InDbuf, InTransfer, InWritten, Far
<1> QED  BY <1>2, <1>8, <1>12, <1>13, WaitingIs

(* The buffers change their parts when nothing of the other one waits. *)
LEMMA FireKeeps ==
  ASSUME IInv, IInv', Frame(PollFire)
  PROVE  UNCHANGED <<Waiting, line>>
<1>1. UartTypeOK /\ UartTypeOK' /\ Channel  BY DEF IInv, TypeOK
<1>2. /\ pc = "fire" /\ MayFire /\ txSel' = Other(txSel)
      /\ dma' = [armed |-> "no", src |-> txSel, len |-> txIdx[txSel], moved |-> 0]
      /\ UNCHANGED <<txBuf, txIdx, dbuf, line>>
  BY DEF Frame, PollFire, charVars
<1>3. /\ txSel \in Sides /\ Far \in Sides /\ txSel' = Far /\ Far' = txSel /\ dma'.moved = 0
      /\ dma.moved \in Nat
  BY <1>1, <1>2, SidesAreTwo, UartConstantsAreNat DEF UartTypeOK, Far
<1>4. ~ Transferring /\ txIdx[Far] = 0
  BY <1>1, <1>2 DEF Channel, MayFire, Transferring
<1>5. InTransfer = << >>  BY <1>1, <1>3, <1>4, NothingToTransfer
<1>6. InWritten' = << >>  BY <1>2, <1>3, <1>4, SubSeqEmpty DEF InWritten
<1>7. InTransfer' = InWritten
  <2>1. txBuf'[Far'] = txBuf[txSel] /\ txIdx'[Far'] = txIdx[txSel] /\ dma'.moved + 1 = 1
    BY <1>2, <1>3
  <2> QED  BY <2>1 DEF InTransfer, InWritten
<1>8. InDbuf' = InDbuf  BY <1>2 DEF InDbuf
<1>9. InDbuf \in Seq(Units) /\ InWritten \in Seq(Units) /\ InDbuf \o InWritten \in Seq(Units)
  BY <1>1, WaitingTypes, ConcatProperties
<1>10. Waiting = InDbuf \o InWritten  BY <1>5, <1>9, WaitingIs, ConcatEmptySeq
<1>11. Waiting' = InDbuf' \o InTransfer' \o InWritten'
  BY DEF Waiting, InDbuf, InTransfer, InWritten, Far
<1>12. Waiting' = InDbuf \o InWritten  BY <1>6, <1>7, <1>8, <1>9, <1>11, ConcatEmptySeq
<1> QED  BY <1>2, <1>10, <1>12

(* HalUARTIsrDMA frees a buffer that has been transferred, or one that was free. *)
LEMMA IsrKeeps ==
  ASSUME IInv, IInv', Frame(DmaInterrupts) \/ Frame(PollElse)
  PROVE  UNCHANGED <<Waiting, line>>
<1>1. UartTypeOK /\ UartTypeOK' /\ Channel  BY DEF IInv, TypeOK
<1>2. /\ UNCHANGED <<txBuf, txSel, dma, dbuf, line>>
      /\ \/ IsrDMA /\ (irq = "yes" \/ (pc = "fire" /\ dma.armed = "no" /\ irq = "no"))
         \/ UNCHANGED txIdx
  BY DEF Frame, DmaInterrupts, PollElse, charVars
<1>3. InDbuf' = InDbuf  BY <1>2 DEF InDbuf
<1>4. Waiting' = InDbuf' \o InTransfer' \o InWritten'
  BY DEF Waiting, InDbuf, InTransfer, InWritten, Far
<1>5. CASE IsrDMA /\ (irq = "yes" \/ (pc = "fire" /\ dma.armed = "no" /\ irq = "no"))
  <2>1. Far \in Sides /\ Far # txSel /\ txSel \in Sides /\ dma.moved \in Nat
    <3>1. txSel \in Sides /\ dma.moved \in 0 .. TxMax  BY <1>1 DEF UartTypeOK
    <3> QED  BY <3>1, SidesAreTwo, UartConstantsAreNat DEF Far
  <2>2. Far' = Far /\ txIdx'[Far] = 0 /\ txIdx'[txSel] = txIdx[txSel]
    BY <1>1, <1>2, <1>5, <2>1 DEF IsrDMA, Far, UartTypeOK
  <2>3. txIdx[Far] <= dma.moved
    BY <1>1, <1>5, <2>1 DEF Channel, Transferring
  <2>4. InTransfer = << >>  BY <1>1, <2>3, NothingToTransfer
  <2>5. InTransfer' = << >>  BY <1>2, <2>1, <2>2, SubSeqEmpty DEF InTransfer
  <2>6. InWritten' = InWritten  BY <1>2, <2>2 DEF InWritten
  <2> QED  BY <1>2, <1>3, <1>4, <2>4, <2>5, <2>6, WaitingIs
<1>6. CASE UNCHANGED txIdx
  BY <1>2, <1>6 DEF Waiting
<1> QED  BY <1>2, <1>5, <1>6

(* What is copied does not wait yet. *)
LEMMA CopyKeeps ==
  ASSUME IInv, PrintPart
  PROVE  UNCHANGED <<Waiting, line>>
<1>1. UartTypeOK /\ LoopTypes  BY InParts DEF UartInv
<1> DEFINE w == Part(report, part)
           n == txIdx[txSel]
           s == txBuf[txSel]
           t == SubSeq(s, 1, n) \o w
<1>2. pc = "print" /\ WriteCopy(w)  BY DEF PrintPart
<1>3. w \in Seq(Units)  BY <1>1, <1>2, PartIsSeq DEF LoopTypes
<1>4. txSel \in Sides /\ Far \in Sides /\ Far # txSel /\ s \in Seq(Units) /\ n \in 0 .. Len(s)
  <2>1. txSel \in Sides /\ Far \in Sides /\ Far # txSel
    BY <1>1, SidesAreTwo DEF UartTypeOK, Far
  <2>2. s \in Seq(Units) /\ n \in Nat /\ n <= Len(s)
    BY <1>1, <2>1, UartConstantsAreNat DEF UartTypeOK
  <2> QED  BY <2>1, <2>2, LenProperties
<1>5. SubSeq(t, 1, n) = SubSeq(s, 1, n)  BY <1>3, <1>4, CopyBehind
<1>6. /\ txBuf' = [txBuf EXCEPT ![txSel] = t]
      /\ UNCHANGED <<txIdx, txSel, dma, dbuf, line>>
  BY <1>2 DEF WriteCopy, channelVars, charVars
<1> HIDE DEF t, w
<1>7. txBuf'[txSel] = t /\ txBuf'[Far] = txBuf[Far]
  BY <1>1, <1>4, <1>6 DEF UartTypeOK
<1>8. InDbuf' = InDbuf /\ InTransfer' = InTransfer /\ InWritten' = InWritten
  BY <1>5, <1>6, <1>7 DEF InDbuf, InTransfer, InWritten, Far
<1>9. Waiting' = InDbuf' \o InTransfer' \o InWritten'
  BY DEF Waiting, InDbuf, InTransfer, InWritten, Far
<1> QED  BY <1>6, <1>8, <1>9, WaitingIs

(* What is written waits behind all the rest: the line's Accept. *)
LEMMA CommitAccepts ==
  ASSUME IInv, PartWritten
  PROVE  Promised!Accept(Part(report, part))
<1>1. UartTypeOK /\ Copied /\ LoopTypes  BY InParts DEF UartInv
<1> DEFINE w == Part(report, part)
<1>2. pc = "commit" /\ WriteCommit  BY DEF PartWritten
<1>3. w \in Seq(Units) /\ Len(w) \in Nat  BY <1>1, <1>2, PartIsSeq DEF LoopTypes
<1>4. /\ txSel \in Sides /\ Far \in Sides /\ Far # txSel /\ txBuf[txSel] \in Seq(Units)
      /\ txIdx[txSel] \in 0 .. Len(txBuf[txSel])
  <2>1. txSel \in Sides /\ Far \in Sides /\ Far # txSel
    BY <1>1, SidesAreTwo DEF UartTypeOK, Far
  <2>2. txBuf[txSel] \in Seq(Units) /\ txIdx[txSel] \in Nat /\ txIdx[txSel] <= Len(txBuf[txSel])
    BY <1>1, <2>1, UartConstantsAreNat DEF UartTypeOK
  <2> QED  BY <2>1, <2>2, LenProperties
<1>5. /\ written.sel = txSel /\ written.idx = txIdx[txSel] + Len(w)
      /\ txBuf[txSel] = SubSeq(txBuf[txSel], 1, txIdx[txSel]) \o w
  BY <1>1, <1>2 DEF Copied
<1>6. Len(txBuf[txSel]) = written.idx /\ SubSeq(txBuf[txSel], 1, Len(txBuf[txSel])) = txBuf[txSel]
  <2>1. Len(txBuf[txSel]) = txIdx[txSel] + Len(w)  
    <3> DEFINE t == txBuf[txSel]
               n == txIdx[txSel]
    <3>1. t \in Seq(Units) /\ n \in 0 .. Len(t) /\ t = SubSeq(t, 1, n) \o w  BY <1>4, <1>5
    <3> HIDE DEF t, n, w
    <3>2. w \in Seq(Units)  BY <1>3
    <3>3. Len(t) = n + Len(w)  BY <3>1, <3>2, CopyBehind
    <3> QED  BY <3>3 DEF t, n
  <2> QED  BY <1>4, <1>5, <2>1, SubSeqFull
<1> HIDE DEF w
<1>7. /\ txIdx' = [txIdx EXCEPT ![txSel] = written.idx]
      /\ UNCHANGED <<txBuf, txSel, dma, dbuf, line>>
  BY <1>2, <1>5 DEF WriteCommit, channelVars, charVars
<1>8. txIdx'[txSel] = written.idx /\ txIdx'[Far] = txIdx[Far]
  BY <1>1, <1>4, <1>7 DEF UartTypeOK
<1>9. InWritten' = InWritten \o w
  BY <1>5, <1>6, <1>7, <1>8 DEF InWritten
<1>10. InDbuf' = InDbuf /\ InTransfer' = InTransfer
  BY <1>7, <1>8 DEF InDbuf, InTransfer, Far
<1>11. Waiting' = InDbuf' \o InTransfer' \o InWritten'
  BY DEF Waiting, InDbuf, InTransfer, InWritten, Far
<1>12. /\ InDbuf \o InTransfer \in Seq(Units) /\ InWritten \in Seq(Units)
  BY <1>1, WaitingTypes, ConcatProperties
<1>13. Waiting' = Waiting \o w
  <2> DEFINE a == InDbuf \o InTransfer
  <2>1. Waiting = a \o InWritten  BY WaitingIs
  <2>2. Waiting' = a \o (InWritten \o w)  BY <1>9, <1>10, <1>11
  <2>3. a \in Seq(Units)  BY <1>12
  <2> HIDE DEF a
  <2>4. (a \o InWritten) \o w = a \o (InWritten \o w)
    <3>1. w \in Seq(Units) /\ InWritten \in Seq(Units)  BY <1>3, <1>12
    <3> QED  BY <2>3, <3>1, ConcatAssociative
  <2> QED  BY <2>1, <2>2, <2>4
<1> QED  BY <1>7, <1>13 DEF Promised!Accept, w

LEMMA LineStep ==
  ASSUME IInv, IInv', [Next]_vars
  PROVE  [Promised!LineNext]_(Promised!lineVars)
<1>1. CASE PartWritten
  <2>1. Promised!Accept(Part(report, part))  BY <1>1, CommitAccepts
  <2>2. report \in 1 .. MaxReports /\ part \in Parts
    BY <1>1, InParts DEF PartWritten, LoopTypes
  <2> QED  BY <2>1, <2>2 DEF Promised!LineNext
<1>2. CASE Frame(CharLeaves)
  BY <1>2, LeaveStep DEF Promised!LineNext
<1>3. CASE Frame(PollArm) \/ Frame(DmaTransfers) \/ Frame(PollFire)
           \/ Frame(DmaInterrupts) \/ Frame(PollElse) \/ PrintPart
  BY <1>3, MoveKeeps, FireKeeps, IsrKeeps, CopyKeeps DEF Promised!lineVars
<1>4. CASE Frame(PollShadow) \/ Frame(Tick) \/ TakeReport \/ TasksDone \/ PartDropped
           \/ Arrives \/ (\E n \in Nodes : Node(n)) \/ UNCHANGED vars
  <2>1. UNCHANGED <<txBuf, txIdx, txSel, dma, dbuf, line>>
    BY <1>4 DEF Frame, PollShadow, Tick, TakeReport, TasksDone, PartDropped, Arrives, Node, Joins,
                TimerExpires, PeriodicEvent, vars, uartVars, driverVars, channelVars, charVars
  <2> QED  BY <2>1 DEF Promised!lineVars, Waiting
<1> QED
  BY <1>1, <1>2, <1>3, <1>4
     DEF Next, Coordinator, UartPoll, Uart, Poll, Hardware, Frame

(* What HalUARTWrite accepts leaves the line character by character in the order in which
   it was accepted, whatever the interleaving of the loop, the interrupt, the channel and
   the clock; a part is accepted as a whole or not at all. *)
THEOREM SensorImplementsLine == Spec => ImplementsLine
<1>1. Init => Promised!LineInit
  <2> SUFFICES ASSUME Init
               PROVE  Promised!LineInit
    OBVIOUS
  <2>1. UartTypeOK  BY InitIInv DEF IInv, TypeOK
  <2>2. txSel \in Sides /\ Far \in Sides /\ txIdx = [s \in Sides |-> 0] /\ dbuf = Nothing
        /\ line = << >> /\ dma.moved = 0
    BY <2>1, SidesAreTwo DEF Init, UartInit, Far, UartTypeOK
  <2>3. InDbuf = << >> /\ InTransfer = << >> /\ InWritten = << >>
    BY <2>2, SubSeqEmpty DEF InDbuf, InTransfer, InWritten
  <2>4. Waiting = << >>
    BY <2>1, <2>3, WaitingIs, WaitingTypes, ConcatEmptySeq
  <2> QED  BY <2>2, <2>4 DEF Promised!LineInit
<1>2. IInv /\ IInv' /\ [Next]_vars => [Promised!LineNext]_(Promised!lineVars)
  BY LineStep
<1> QED  BY <1>1, <1>2, SpecIInv, PTL DEF Spec, ImplementsLine, Promised!LineSpec

--------------------------------------------------------------------------------
(* The entry into the network: its invariant. *)

Again == lost \/ "ZDO_NETWORK_INIT" \in runs \cup taskEvents
Asking == op.kind = "disc" \/ inbox = <<"ZDO_NWK_DISC_CNF">>
Answered == inbox \in {<<"ZDO_NWK_JOIN_IND">>, <<"ZDO_NWK_JOIN_IND", "ZDO_NWK_JOIN_REQ">>}
Entering == op.kind \in {"join", "rejoin", "orphan"} \/ Answered

(* The network layer says nothing while it works, a message of its work is the first one, and
   it is only followed by that of a parent that was lost after it. *)
InboxShape ==
    IF op # Idle THEN inbox = << >> /\ ~hasParent
    ELSE \/ inbox = << >> /\ (hasParent => nwkStatus)
         \/ inbox = <<"ZDO_NWK_DISC_CNF">> /\ ~hasParent
         \/ inbox = <<"ZDO_NWK_JOIN_IND">> /\ (hasParent <=> nwkStatus)
         \/ /\ inbox \in {<<"ZDO_NWK_JOIN_REQ">>, <<"ZDO_NWK_JOIN_IND", "ZDO_NWK_JOIN_REQ">>}
            /\ hasParent /\ nwkStatus

Holding ==
    devState = "DEV_HOLD" =>
        op = Idle /\ inbox = << >> /\ ~hasParent /\ "ZDO_NETWORK_INIT" \notin runs \cup taskEvents

(* The device is in the state that an answer belongs to, or will begin again; of a discovery
   the answer is never too late. *)
Awaiting ==
    /\ Asking => devState = "DEV_NWK_DISC"
    /\ Entering => devState \in {"DEV_NWK_JOINING", "DEV_NWK_ORPHAN", "DEV_NWK_REJOIN"} \/ Again
    /\ hasParent => nib # NoNetwork

(* The retries were counted from 0 for each loss, and one is all there is. *)
Resuming ==
    devStartMode = "MODE_RESUME" =>
        /\ nib # NoNetwork /\ retryCnt = 0 /\ ~Asking
        /\ devState = "DEV_NWK_JOINING" => op = Idle /\ inbox \in {<< >>, <<"ZDO_NWK_JOIN_REQ">>}

EntryInv ==
    EntryTypes /\ InboxShape /\ Holding /\ Awaiting /\ Resuming /\ AttemptGoesOn

(* The messages of ZDApp, one after another. *)
LEMMA InboxSteps ==
    /\ \A a : Head(<<a>>) = a /\ Tail(<<a>>) = << >> /\ Append(<< >>, a) = <<a>>
    /\ \A a, b : Head(<<a, b>>) = a /\ Tail(<<a, b>>) = <<b>> /\ Append(<<a>>, b) = <<a, b>>
    /\ \A a, b : <<a>> # << >> /\ <<a, b>> # << >>
    /\ \A a, b, c : <<a>> # <<b, c>>
<1>1. \A a : Head(<<a>>) = a /\ Tail(<<a>>) = << >> /\ Append(<< >>, a) = <<a>>
  OBVIOUS
<1>2. \A a, b : Head(<<a, b>>) = a
  OBVIOUS
<1>3. \A a, b : Tail(<<a, b>>) = <<b>>
  OBVIOUS
<1>4. \A a, b : Append(<<a>>, b) = <<a, b>>
  <2> SUFFICES ASSUME NEW a, NEW b PROVE Append(<<a>>, b) = <<a, b>>
    OBVIOUS
  <2>1. <<a>> \in Seq({a, b}) /\ <<a, b>> \in Seq({a, b}) /\ Len(<<a>>) = 1
    OBVIOUS
  <2>2. /\ Append(<<a>>, b) \in Seq({a, b}) /\ Len(Append(<<a>>, b)) = 2
        /\ Append(<<a>>, b)[1] = a /\ Append(<<a>>, b)[2] = b
    BY <2>1, AppendProperties
  <2>3. Len(<<a, b>>) = 2 /\ <<a, b>>[1] = a /\ <<a, b>>[2] = b
    OBVIOUS
  <2> DEFINE s == Append(<<a>>, b)  t == <<a, b>>
  <2>4. s \in Seq({a, b}) /\ t \in Seq({a, b}) /\ Len(s) = Len(t)
    BY <2>1, <2>2, <2>3
  <2>5. \A i \in 1 .. Len(s) : s[i] = t[i]
    BY <2>2, <2>3
  <2> HIDE DEF s, t
  <2>6. s = t
    BY <2>4, <2>5, SeqEqual
  <2> QED BY <2>6 DEF s, t
<1>5. \A a, b : <<a>> # << >> /\ <<a, b>> # << >>
  OBVIOUS
<1>6. \A a, b, c : <<a>> # <<b, c>>
  OBVIOUS
<1> QED BY <1>1, <1>2, <1>3, <1>4, <1>5, <1>6

(* What an operation of the network layer is. *)
LEMMA OpKinds ==
    /\ Idle.kind = "none" /\ Idle \in Operations
    /\ \A k, n, c : Operation(k, n, c).kind = k
    /\ \A k \in {"none", "disc", "join", "rejoin", "orphan"}, n \in SUBSET Networks,
          c \in SUBSET Channels : Operation(k, n, c) \in Operations
  BY DEF Idle, Operation, Operations

LEMMA EntryInitially == EntryInit => EntryInv
<1> SUFFICES ASSUME EntryInit PROVE EntryInv
  OBVIOUS
<1>1. EntryTypes
  <2>1. op \in Operations
    BY OpKinds DEF EntryInit
  <2>2. zdoDiscCounter \in 0 .. CounterSize - 1 /\ scanCnt \in 0 .. ScansOfDefault /\ retryCnt \in Nat
    BY EntryAssumption DEF EntryInit, EntryAssumption
  <2>3. inbox \in Seq(ZDAppMessages) /\ appBox \in Seq(AppMessages)
    BY DEF EntryInit
  <2>4. devState \in DevStates /\ devStartMode \in Modes /\ taskEvents \subseteq TaskEvents
        /\ runs \subseteq Timers
    BY DEF EntryInit, DevStates, Modes, Timers
  <2> QED BY <2>1, <2>2, <2>3, <2>4 DEF EntryInit, EntryTypes
<1>2. InboxShape /\ Holding /\ Resuming /\ AttemptGoesOn
  BY OpKinds DEF EntryInit, InboxShape, Holding, Resuming, AttemptGoesOn
<1>3. Awaiting
  BY OpKinds, InboxSteps DEF EntryInit, Awaiting, Asking, Entering, Answered, Again
<1> QED BY <1>1, <1>2, <1>3 DEF EntryInv

(* What a message that ZDApp takes says of those behind it. *)
LEMMA InboxHead ==
  ASSUME InboxShape
  PROVE  /\ Receives("ZDO_NWK_DISC_CNF") =>
                op = Idle /\ inbox = <<"ZDO_NWK_DISC_CNF">> /\ inbox' = << >> /\ ~hasParent
         /\ Receives("ZDO_NWK_JOIN_IND") =>
                /\ op = Idle /\ Answered /\ (hasParent <=> nwkStatus)
                /\ inbox' = << >> \/ (inbox' = <<"ZDO_NWK_JOIN_REQ">> /\ nwkStatus)
         /\ Receives("ZDO_NWK_JOIN_REQ") =>
                op = Idle /\ inbox' = << >> /\ hasParent /\ nwkStatus
<1> USE DEF InboxShape, Receives, Answered
<1>1. CASE inbox = << >> \/ op # Idle
  BY <1>1
<1>2. CASE op = Idle /\ inbox = <<"ZDO_NWK_DISC_CNF">> /\ ~hasParent
  BY <1>2, InboxSteps
<1>3. CASE op = Idle /\ inbox = <<"ZDO_NWK_JOIN_IND">> /\ (hasParent <=> nwkStatus)
  BY <1>3, InboxSteps
<1>4. CASE op = Idle /\ inbox = <<"ZDO_NWK_JOIN_REQ">> /\ hasParent /\ nwkStatus
  BY <1>4, InboxSteps
<1>5. CASE /\ op = Idle /\ inbox = <<"ZDO_NWK_JOIN_IND", "ZDO_NWK_JOIN_REQ">>
           /\ hasParent /\ nwkStatus
  <2>1. Head(inbox) = "ZDO_NWK_JOIN_IND" /\ Tail(inbox) = <<"ZDO_NWK_JOIN_REQ">>
    BY <1>5, InboxSteps
  <2> QED BY <1>5, <2>1
<1> QED BY <1>1, <1>2, <1>3, <1>4, <1>5

Attempt == InboxShape /\ Holding /\ Awaiting /\ Resuming /\ AttemptGoesOn

LEMMA AttemptStep ==
  ASSUME EntryInv, EntryNext
  PROVE  Attempt'
<1> USE OpKinds, InboxSteps DEF EntryInv, Attempt, InboxShape, Holding, Awaiting, Resuming, AttemptGoesOn,
        Asking, Entering, Answered, Again, counterVars, configVars, taskVars, appVars, nwkVars, airVars
<1>1. CASE Expires
  BY <1>1 DEF Expires, Expire
<1>2. CASE PowerCut
  BY <1>2 DEF PowerCut, Boot, ZDOInitDevice, HoldStart
<1>3. CASE DiscoveryConfirm
  <2>1. op # Idle /\ op' = Idle /\ inbox = << >> /\ ~hasParent
    BY <1>3 DEF DiscoveryConfirm
  <2>2. \/ inbox' = <<"ZDO_NWK_DISC_CNF">> /\ UNCHANGED lost
        \/ inbox' = << >> /\ lost'
    BY <1>3, <2>1 DEF DiscoveryConfirm, SendMsg
  <2>3. Asking /\ UNCHANGED <<devState, devStartMode, retryCnt, runs, taskEvents, nib, hasParent>>
    BY <1>3 DEF DiscoveryConfirm, KeepsTask
  <2> QED BY <2>1, <2>2, <2>3
<1>4. CASE \E ok \in BOOLEAN : JoinConfirm(ok)
  <2>1. PICK ok \in BOOLEAN : JoinConfirm(ok)
    BY <1>4
  <2>2. Entering /\ op # Idle /\ op' = Idle /\ inbox = << >> /\ ~hasParent
    BY <2>1 DEF JoinConfirm
  <2>3. \/ inbox' = <<"ZDO_NWK_JOIN_IND">> /\ UNCHANGED lost
        \/ inbox' = << >> /\ lost'
    BY <2>1, <2>2 DEF JoinConfirm, SendMsg
  <2>4. devState # "DEV_HOLD" /\ UNCHANGED <<devState, devStartMode, retryCnt, runs, taskEvents>>
    BY <2>1, <2>2 DEF JoinConfirm, KeepsTask
  <2>5. nwkStatus' = ok /\ hasParent' = ok
    BY <2>1 DEF JoinConfirm
  <2>6. IF ok THEN nib' # NoNetwork ELSE nib' = nib
    <3>1. op.nets \subseteq Networks /\ NoNetwork \notin Networks
      BY EntryAssumption DEF EntryTypes, Operations, EntryAssumption
    <3> QED BY <2>1, <3>1 DEF JoinConfirm
  <2>7. ~(devStartMode = "MODE_RESUME" /\ devState = "DEV_NWK_JOINING")
    BY <2>2
  <2>8. InboxShape' /\ Holding' /\ AttemptGoesOn'
    BY <2>2, <2>3, <2>4, <2>5
  <2>9. Awaiting'
    BY <2>2, <2>3, <2>4, <2>5, <2>6
  <2>10. Resuming'
    BY <2>2, <2>3, <2>4, <2>6, <2>7
  <2> QED BY <2>8, <2>9, <2>10
<1>5. CASE SyncIndication
  <2>1. op = Idle /\ hasParent /\ inbox # <<"ZDO_NWK_DISC_CNF">>
    BY <1>5 DEF SyncIndication
  <2>2. inbox \in {<< >>, <<"ZDO_NWK_JOIN_IND">>} /\ nwkStatus
    BY <1>5, <2>1 DEF SyncIndication
  <2>3. CASE lost' /\ inbox' = inbox
    BY <1>5, <2>1, <2>3 DEF SyncIndication, KeepsTask
  <2>4. CASE lost' = lost /\ inbox' = Append(inbox, "ZDO_NWK_JOIN_REQ")
    <3>1. \/ inbox = << >> /\ inbox' = <<"ZDO_NWK_JOIN_REQ">>
          \/ /\ inbox = <<"ZDO_NWK_JOIN_IND">>
             /\ inbox' = <<"ZDO_NWK_JOIN_IND", "ZDO_NWK_JOIN_REQ">>
      BY <2>2, <2>4, InboxSteps
    <3>2. UNCHANGED <<devState, devStartMode, retryCnt, runs, taskEvents, nib, hasParent, op,
                      nwkStatus>>
      BY <1>5 DEF SyncIndication, KeepsTask
    <3>3. inbox' # <<"ZDO_NWK_JOIN_IND">> /\ inbox' # <<"ZDO_NWK_DISC_CNF">> /\ inbox' # << >>
      BY <3>1, InboxSteps
    <3>4. InboxShape'
      BY <2>1, <2>2, <3>1, <3>2
    <3>5. Holding'
      BY <2>1, <3>2
    <3>6. Resuming'
      BY <2>1, <3>1, <3>2, <3>3
    <3>7. Awaiting'
      BY <2>1, <2>4, <3>1, <3>2, <3>3
    <3>8. AttemptGoesOn'
      BY <3>3
    <3> QED BY <3>4, <3>5, <3>6, <3>7, <3>8
  <2> QED BY <1>5, <2>3, <2>4 DEF SyncIndication, SendMsg
<1>6. CASE \E rejoin \in BOOLEAN : LeaveIndication(rejoin)
  BY <1>6 DEF LeaveIndication, StartsTimer
<1>7. CASE AirChanges
  BY <1>7 DEF AirChanges
<1>8. CASE Chooses
  BY <1>8, InboxHead DEF Chooses, KeepsRest, Requests, StartsTimer
<1>9. CASE SearchesOn
  BY <1>9, InboxHead DEF SearchesOn, Receives, KeepsRest, StartsTimer
<1>10. CASE Joined
  BY <1>10, InboxHead DEF Joined, KeepsRest
<1>11. CASE JoinFailed
  BY <1>11, InboxHead DEF JoinFailed, KeepsRest, StartsTimer, RejoinMode
<1>12. CASE RejoinFailed
  BY <1>12, InboxHead, EntryAssumption DEF RejoinFailed, KeepsRest, StartsTimer, RejoinMode, EntryAssumption
<1>13. CASE JoinUnexpected
  <2>1. Answered /\ op = Idle /\ (hasParent <=> nwkStatus) /\ Again
        /\ (inbox' = << >> \/ (inbox' = <<"ZDO_NWK_JOIN_REQ">> /\ nwkStatus))
    BY <1>13, InboxHead DEF JoinUnexpected
  <2>2. Again' /\ devState # "DEV_HOLD" /\ ~Asking
    BY <1>13, <2>1 DEF JoinUnexpected
  <2>3. UNCHANGED <<devState, devStartMode, retryCnt, runs, lost, op, hasParent, nib, nwkStatus>>
    BY <1>13 DEF JoinUnexpected, KeepsRest
  <2>4. InboxShape'
    BY <2>1, <2>3
  <2>5. Holding' /\ AttemptGoesOn'
    BY <2>2, <2>3
  <2>6. Awaiting'
    BY <2>1, <2>2, <2>3
  <2>7. Resuming'
    <3>1. devState # "DEV_NWK_JOINING" /\ op'.kind # "disc" /\ inbox' # <<"ZDO_NWK_DISC_CNF">>
      BY <1>13, <2>1, <2>3 DEF JoinUnexpected
    <3> QED BY <2>3, <3>1
  <2> QED BY <2>4, <2>5, <2>6, <2>7
<1>14. CASE JoinRequested
  BY <1>14, InboxHead DEF JoinRequested, Receives, KeepsRest
<1>15. CASE NetworkInitEvt
  BY <1>15 DEF NetworkInitEvt, Serves, KeepsInbox, Requests, StartsTimer
<1>16. CASE StateChangeEvt
  BY <1>16 DEF StateChangeEvt, Serves, KeepsInbox
<1>17. CASE DeviceResetEvt
  BY <1>17 DEF DeviceResetEvt, Boot, ZDOInitDevice, HoldStart
<1>18. CASE AppData \/ SampleApp
  BY <1>18 DEF AppData, SampleApp, KeepsZDApp
<1> QED BY <1>1, <1>2, <1>3, <1>4, <1>5, <1>6, <1>7, <1>8, <1>9, <1>10, <1>11, <1>12, <1>13,
           <1>14, <1>15, <1>16, <1>17, <1>18 DEF EntryNext, Network, Confirms, ZDApp, ProcessOSALMsg

(* Appending to the messages and taking one. *)
LEMMA MessageTypes ==
  ASSUME EntryTypes
  PROVE  /\ \A m \in ZDAppMessages : SendMsg(m) => inbox' \in Seq(ZDAppMessages) /\ lost' \in BOOLEAN
         /\ \A m : Receives(m) => inbox' \in Seq(ZDAppMessages)
         /\ \A m \in AppMessages : Append(appBox, m) \in Seq(AppMessages)
         /\ << >> \in Seq(ZDAppMessages) /\ << >> \in Seq(AppMessages)
<1>1. \A m \in ZDAppMessages : SendMsg(m) => inbox' \in Seq(ZDAppMessages) /\ lost' \in BOOLEAN
  <2>1. \A m \in ZDAppMessages : Append(inbox, m) \in Seq(ZDAppMessages)
    BY AppendProperties DEF EntryTypes
  <2>2. \A m \in ZDAppMessages : SendMsg(m) => inbox' \in Seq(ZDAppMessages)
    BY <2>1 DEF EntryTypes, SendMsg
  <2>3. \A m : SendMsg(m) => lost' \in BOOLEAN
    BY DEF EntryTypes, SendMsg
  <2> QED BY <2>2, <2>3
<1>2. inbox # << >> => Tail(inbox) \in Seq(ZDAppMessages)
  BY HeadTailProperties DEF EntryTypes
<1>3. \A m : Receives(m) => inbox' \in Seq(ZDAppMessages)
  BY <1>2 DEF Receives
<1>4. \A m \in AppMessages : Append(appBox, m) \in Seq(AppMessages)
  BY DEF EntryTypes
<1> QED BY <1>1, <1>3, <1>4

LEMMA TimerTypes ==
  ASSUME EntryTypes
  PROVE  \A t \in Timers : StartsTimer(t) => runs' \subseteq Timers /\ lost' \in BOOLEAN
  BY DEF EntryTypes, StartsTimer

LEMMA BootTypes == EntryTypes /\ Boot => EntryTypes'
<1> SUFFICES ASSUME EntryTypes, Boot PROVE EntryTypes'
  OBVIOUS
<1>1. op' \in Operations
  BY OpKinds DEF Boot
<1>2. zdoDiscCounter' \in 0 .. CounterSize - 1 /\ scanCnt' \in 0 .. ScansOfDefault /\ retryCnt' \in Nat
  BY EntryAssumption DEF Boot, EntryAssumption
<1>3. inbox' \in Seq(ZDAppMessages) /\ appBox' \in Seq(AppMessages)
  BY DEF Boot
<1>4. devState' \in DevStates /\ devStartMode' \in Modes /\ taskEvents' \subseteq TaskEvents
      /\ runs' \subseteq Timers /\ leaveCtrl' \in {"INIT", "SET"}
  BY DEF Boot, ZDOInitDevice, HoldStart, DevStates, Modes, Timers, TaskEvents, EntryTypes
<1> QED BY <1>1, <1>2, <1>3, <1>4 DEF Boot, EntryTypes, airVars

LEMMA TypesStep ==
  ASSUME EntryTypes, EntryNext
  PROVE  EntryTypes'
<1> USE DEF EntryTypes, counterVars, configVars, taskVars, appVars, nwkVars, airVars, DevStates,
            Modes, TaskEvents, Timers, ZDAppMessages, AppMessages
<1>1. CASE Expires
  BY <1>1 DEF Expires, Expire
<1>2. CASE PowerCut \/ DeviceResetEvt
  BY <1>2, BootTypes DEF PowerCut, DeviceResetEvt
<1>3. CASE DiscoveryConfirm
  <2>1. Beacons(op.chans) \subseteq Networks \X Channels
    BY DEF Beacons, Operations
  <2> QED BY <1>3, <2>1, OpKinds, MessageTypes DEF DiscoveryConfirm, KeepsTask
<1>4. CASE \E ok \in BOOLEAN : JoinConfirm(ok)
  <2>1. PICK ok \in BOOLEAN : JoinConfirm(ok)
    BY <1>4
  <2>2. nib' \in Networks \cup {NoNetwork}
    BY <2>1 DEF JoinConfirm, Operations
  <2> QED BY <2>1, <2>2, OpKinds, MessageTypes DEF JoinConfirm, KeepsTask
<1>5. CASE SyncIndication
  BY <1>5, MessageTypes DEF SyncIndication, KeepsTask
<1>6. CASE \E rejoin \in BOOLEAN : LeaveIndication(rejoin)
  BY <1>6, TimerTypes DEF LeaveIndication
<1>7. CASE AirChanges
  BY <1>7 DEF AirChanges
<1>8. CASE Chooses
  <2>1. \A d \in Suitable : d[1] \in Networks /\ d[2] \in Channels
    BY DEF Suitable
  <2>2. \A d \in Suitable :
           /\ Operation("join", {d[1]}, {d[2]}) \in Operations
           /\ Operation("rejoin", {useEpid} \ {NoNetwork}, {d[2]}) \in Operations
    BY <2>1, OpKinds
  <2>3. op' \in Operations /\ hasParent' \in BOOLEAN /\ runs' \subseteq Timers /\ lost' \in BOOLEAN
        /\ devState' \in DevStates
    BY <1>8, <2>2, TimerTypes DEF Chooses, Requests
  <2> QED BY <1>8, <2>3, MessageTypes DEF Chooses, KeepsRest
<1>9. CASE SearchesOn
  <2>1. zdoDiscCounter' \in 0 .. CounterSize - 1
    BY <1>9, EntryAssumption DEF SearchesOn, EntryAssumption
  <2>2. runs' \subseteq Timers /\ lost' \in BOOLEAN
    BY <1>9, TimerTypes DEF SearchesOn
  <2> QED BY <1>9, <2>1, <2>2, MessageTypes DEF SearchesOn, KeepsRest
<1>10. CASE Joined
  BY <1>10, MessageTypes DEF Joined, KeepsRest
<1>11. CASE JoinFailed
  <2>1. tmpRejoin' \in BOOLEAN
    BY <1>11 DEF JoinFailed
  <2>2. retryCnt' \in Nat
    BY <1>11 DEF JoinFailed
  <2>3. devStartMode' \in Modes
    BY <1>11 DEF JoinFailed, RejoinMode
  <2>4. zdoDiscCounter' \in 0 .. CounterSize - 1
    BY <1>11, EntryAssumption DEF JoinFailed, EntryAssumption
  <2>5. runs' \subseteq Timers /\ lost' \in BOOLEAN /\ inbox' \in Seq(ZDAppMessages)
    BY <1>11, MessageTypes, TimerTypes DEF JoinFailed
  <2> QED BY <1>11, <2>1, <2>2, <2>3, <2>4, <2>5 DEF JoinFailed, KeepsRest
<1>12. CASE RejoinFailed
  <2>1. tmpRejoin' \in BOOLEAN
    BY <1>12 DEF RejoinFailed
  <2>2. retryCnt' \in Nat
    BY <1>12 DEF RejoinFailed
  <2>3. devStartMode' \in Modes
    BY <1>12 DEF RejoinFailed, RejoinMode
  <2>4. runs' \subseteq Timers /\ lost' \in BOOLEAN /\ inbox' \in Seq(ZDAppMessages)
    BY <1>12, MessageTypes, TimerTypes DEF RejoinFailed
  <2> QED BY <1>12, <2>1, <2>2, <2>3, <2>4 DEF RejoinFailed, KeepsRest
<1>13. CASE JoinUnexpected
  BY <1>13, MessageTypes DEF JoinUnexpected, KeepsRest
<1>14. CASE JoinRequested
  BY <1>14, MessageTypes DEF JoinRequested, KeepsRest
<1>15. CASE NetworkInitEvt
  <2>1. scanCnt' \in 0 .. ScansOfDefault /\ chanList' \in {DefaultChannels, Channels}
    BY <1>15, EntryAssumption DEF NetworkInitEvt, EntryAssumption
  <2>2. chanList \subseteq Channels
    BY EntryAssumption DEF EntryAssumption
  <2>3. op' \in Operations /\ hasParent' \in BOOLEAN /\ runs' \subseteq Timers /\ lost' \in BOOLEAN
    <3>1. /\ Operation("orphan", {nib} \ {NoNetwork}, chanList) \in Operations
          /\ Operation("disc", Networks, chanList) \in Operations
      BY <2>2, OpKinds
    <3> QED BY <1>15, <3>1, TimerTypes DEF NetworkInitEvt, Requests
  <2>4. devState' \in DevStates /\ taskEvents' \subseteq TaskEvents
    BY <1>15 DEF NetworkInitEvt
  <2> QED BY <1>15, <2>1, <2>3, <2>4 DEF NetworkInitEvt, KeepsInbox
<1>16. CASE StateChangeEvt
  <2>1. appBox' \in Seq(AppMessages)
    BY <1>16, MessageTypes DEF StateChangeEvt, Told
  <2> QED BY <1>16, <2>1 DEF StateChangeEvt, KeepsInbox
<1>17. CASE AppData
  BY <1>17, MessageTypes DEF AppData, KeepsZDApp
<1>18. CASE SampleApp
  <2>1. appState' \in {"in", "out"}
    BY <1>18 DEF SampleApp, Knows, States
  <2> QED BY <1>18, <2>1, MessageTypes DEF SampleApp, KeepsZDApp
<1> QED BY <1>1, <1>2, <1>3, <1>4, <1>5, <1>6, <1>7, <1>8, <1>9, <1>10, <1>11, <1>12, <1>13,
           <1>14, <1>15, <1>16, <1>17, <1>18 DEF EntryNext, Network, Confirms, ZDApp, ProcessOSALMsg

(* ZDApp.c and ZDObject.c keep the device's state of the network of the right types, and the
   counter of discoveries in its byte. *)
THEOREM EntryTypesCorrect == EntrySpec => []EntryTypes
<1>1. EntryInit => EntryTypes
  BY EntryInitially DEF EntryInv
<1>2. EntryTypes /\ [EntryNext]_entryVars => EntryTypes'
  <2>1. EntryTypes /\ UNCHANGED entryVars => EntryTypes'
    BY DEF EntryTypes, entryVars, counterVars, configVars, taskVars, appVars, nwkVars, airVars
  <2> QED BY <2>1, TypesStep
<1> QED BY <1>1, <1>2, PTL DEF EntrySpec

LEMMA EntryInvariant == EntrySpec => []EntryInv
<1>1. EntryInit => EntryInv
  BY EntryInitially
<1>2. EntryInv /\ [EntryNext]_entryVars => EntryInv'
  <2> SUFFICES ASSUME EntryInv, [EntryNext]_entryVars PROVE EntryInv'
    OBVIOUS
  <2>1. CASE EntryNext
    BY <2>1, AttemptStep, TypesStep DEF EntryInv, Attempt
  <2>2. CASE UNCHANGED entryVars
    BY <2>2 DEF EntryInv, EntryTypes, InboxShape, Holding, Awaiting, Resuming, AttemptGoesOn,
       Asking, Entering, Answered, Again, entryVars, counterVars, configVars, taskVars, appVars,
       nwkVars, airVars
  <2> QED BY <2>1, <2>2
<1> QED BY <1>1, <1>2, PTL DEF EntrySpec

(* ZDApp.c:1366-1532, 2008-2119: whatever the network layer and the air do, a device that is
   not in its network has an attempt under way or a timer for one, unless the heap refused
   something. *)
THEOREM EntryGoesOn == EntrySpec => []AttemptGoesOn
<1>1. EntryInv => AttemptGoesOn
  BY DEF EntryInv
<1> QED BY <1>1, EntryInvariant, PTL

(* ZDApp.c:1502: the counter of the retries never passes one, so that the normal join that
   follows the last retry never comes, whatever MAX_RESUME_RETRY is. *)
THEOREM NormalJoinNeverComes == EntrySpec => RejoinsOnly
<1>1. ASSUME EntryInv, [EntryNext]_entryVars, devStartMode # "MODE_JOIN",
             devStartMode' = "MODE_JOIN"
      PROVE  Boot
  <2>1. EntryNext
    BY <1>1 DEF entryVars
  <2>2. CASE JoinFailed
    BY <1>1, <2>2 DEF JoinFailed, RejoinMode, EntryInv, Resuming
  <2>3. CASE RejoinFailed
    <3>1. devStartMode = "MODE_RESUME" => retryCnt = 0 /\ nib # NoNetwork
      BY <1>1 DEF EntryInv, Resuming
    <3>2. 1 <= MAX_RESUME_RETRY
      BY EntryAssumption DEF EntryAssumption
    <3> QED BY <1>1, <2>3, <3>1, <3>2 DEF RejoinFailed, RejoinMode
  <2>4. CASE PowerCut \/ DeviceResetEvt
    BY <2>4 DEF PowerCut, DeviceResetEvt
  <2>5. \/ UNCHANGED devStartMode \/ JoinRequested
        \/ JoinFailed \/ RejoinFailed \/ PowerCut \/ DeviceResetEvt
    BY <2>1 DEF EntryNext, Network, Confirms, ZDApp, ProcessOSALMsg, Expires, Expire,
       DiscoveryConfirm, JoinConfirm, SyncIndication, LeaveIndication, AirChanges, KeepsTask,
       Chooses, SearchesOn, Joined, JoinUnexpected, NetworkInitEvt,
       StateChangeEvt, AppData, SampleApp, KeepsZDApp
  <2> QED BY <1>1, <2>2, <2>3, <2>4, <2>5 DEF JoinRequested
<1>2. EntryInv /\ [EntryNext]_entryVars =>
          [devStartMode # "MODE_JOIN" /\ devStartMode' = "MODE_JOIN" => Boot]_entryVars
  BY <1>1
<1> QED BY <1>2, EntryInvariant, PTL DEF EntrySpec, RejoinsOnly

(* What SampleApp knows, or is told by the message that waits, after each step. *)
LEMMA AppFollowsStep ==
  ASSUME EntryTypes, AppFollows, EntryNext
  PROVE  AppFollows'
<1> USE DEF AppFollows, Told, counterVars, configVars, taskVars, appVars, nwkVars, airVars
<1>1. ASSUME UNCHANGED appVars PROVE Knows' = Knows
  BY <1>1 DEF Knows, States
<1>2. ASSUME Boot PROVE AppFollows'
  <2>1. appBox' = << >> /\ appState' = "out"
    BY <1>2 DEF Boot
  <2>2. States' = {}
    BY <2>1 DEF States
  <2>3. devState' # "DEV_END_DEVICE"
    BY <1>2 DEF Boot, ZDOInitDevice, HoldStart
  <2> QED BY <2>1, <2>2, <2>3 DEF Knows
<1>3. CASE Expires \/ Network
  <2>1. UNCHANGED appVars /\ (devState' = "DEV_END_DEVICE" <=> devState = "DEV_END_DEVICE")
    BY <1>3 DEF Expires, Expire, Network, Confirms, DiscoveryConfirm, JoinConfirm, SyncIndication,
       LeaveIndication, AirChanges, KeepsTask
  <2>2. "ZDO_STATE_CHANGE_EVT" \in taskEvents' <=> "ZDO_STATE_CHANGE_EVT" \in taskEvents
    BY <1>3 DEF Expires, Expire, Timers, Network, Confirms, DiscoveryConfirm, JoinConfirm,
       SyncIndication, LeaveIndication, AirChanges, KeepsTask
  <2> QED BY <1>1, <2>1, <2>2
<1>4. CASE ProcessOSALMsg \/ NetworkInitEvt
  <2>1. UNCHANGED appVars
    BY <1>4 DEF ProcessOSALMsg, Chooses, SearchesOn, Joined, JoinFailed,
       RejoinFailed, JoinUnexpected, JoinRequested, NetworkInitEvt, KeepsRest
  <2>2. CASE Joined \/ JoinUnexpected \/ NetworkInitEvt
    BY <2>2 DEF Joined, JoinUnexpected, NetworkInitEvt
  <2>3. CASE Chooses \/ SearchesOn \/ JoinFailed \/ RejoinFailed \/ JoinRequested
    <3>1. devState' = "DEV_END_DEVICE" <=> devState = "DEV_END_DEVICE"
      BY <2>3 DEF Chooses, SearchesOn, JoinFailed, RejoinFailed, JoinRequested
    <3>2. "ZDO_STATE_CHANGE_EVT" \in taskEvents' <=> "ZDO_STATE_CHANGE_EVT" \in taskEvents
      BY <2>3 DEF Chooses, SearchesOn, JoinFailed, RejoinFailed, JoinRequested
    <3> QED BY <1>1, <2>1, <3>1, <3>2
  <2> QED BY <1>4, <2>2, <2>3 DEF ProcessOSALMsg
<1>5. CASE StateChangeEvt
  <2>1. UNCHANGED devState /\ Told \in {"in", "out"}
    BY <1>5 DEF StateChangeEvt
  <2>2. CASE States # {}
    <3>1. appBox' = [i \in DOMAIN appBox |-> IF i \in States THEN Told ELSE appBox[i]]
      BY <1>5, <2>2 DEF StateChangeEvt
    <3>2. States' = States /\ \A i \in States : appBox'[i] = Told
      BY <2>1, <3>1 DEF States
    <3> QED BY <2>1, <2>2, <3>2 DEF Knows
  <2>3. CASE States = {}
    <3>1. appBox' = Append(appBox, Told) /\ appBox \in Seq(AppMessages) /\ Told \in AppMessages
      BY <1>5, <2>1, <2>3 DEF StateChangeEvt, EntryTypes, AppMessages
    <3>2. /\ DOMAIN appBox = 1 .. Len(appBox) /\ DOMAIN appBox' = 1 .. Len(appBox) + 1
          /\ \A i \in 1 .. Len(appBox) : appBox'[i] = appBox[i]
          /\ appBox'[Len(appBox) + 1] = Told /\ Len(appBox) \in Nat
      BY <3>1, AppendProperties
    <3>3. States' = {Len(appBox) + 1}
      BY <2>1, <2>3, <3>2 DEF States
    <3> QED BY <2>1, <3>2, <3>3 DEF Knows
  <2> QED BY <2>2, <2>3
<1>6. CASE AppData
  <2>1. appBox' = Append(appBox, "data") /\ appBox \in Seq(AppMessages) /\ "data" \in AppMessages
        /\ UNCHANGED <<appState, devState, taskEvents>>
    BY <1>6 DEF AppData, KeepsZDApp, EntryTypes, AppMessages
  <2>2. /\ DOMAIN appBox = 1 .. Len(appBox) /\ DOMAIN appBox' = 1 .. Len(appBox) + 1
        /\ \A i \in 1 .. Len(appBox) : appBox'[i] = appBox[i]
        /\ appBox'[Len(appBox) + 1] = "data" /\ Len(appBox) \in Nat
    BY <2>1, AppendProperties
  <2>3. States' = States /\ \A i \in States : appBox'[i] = appBox[i]
    BY <2>2 DEF States
  <2>4. Knows' = Knows
    BY <2>1, <2>3 DEF Knows
  <2> QED BY <2>1, <2>4
<1>7. CASE SampleApp
  <2>1. States' = {}
    BY <1>7 DEF SampleApp, States
  <2>2. Knows' = Knows
    BY <1>7, <2>1 DEF SampleApp, Knows
  <2> QED BY <1>7, <2>2 DEF SampleApp, KeepsZDApp
<1> QED BY <1>2, <1>3, <1>4, <1>5, <1>6, <1>7 DEF EntryNext, PowerCut, DeviceResetEvt, ZDApp

(* ZDObject.c:412-433, EndDevice.c:290-302: the application knows whether the device is in its
   network, or the message that waits for it says so, unless ZDApp is still to tell it. *)
THEOREM ApplicationFollows == EntrySpec => []AppFollows
<1>1. EntryInit => AppFollows
  BY DEF EntryInit, AppFollows, Knows, States, Told
<1>2. EntryTypes /\ AppFollows /\ [EntryNext]_entryVars => AppFollows'
  <2>1. AppFollows /\ UNCHANGED entryVars => AppFollows'
    BY DEF AppFollows, Knows, States, Told, entryVars, appVars, taskVars
  <2> QED BY <2>1, AppFollowsStep
<1> QED BY <1>1, <1>2, EntryTypesCorrect, PTL DEF EntrySpec

(* A device that looks for any network has one attempt at a time, and none once it has found
   one; any other looks for the network it is in. *)
Own ==
    /\ devStartMode # "MODE_JOIN" =>
           nib # NoNetwork /\ useEpid = nib /\ (op.kind = "disc" \/ op.nets \subseteq {nib})
    /\ devStartMode = "MODE_JOIN" =>
           /\ ~("ZDO_NETWORK_INIT" \in runs /\ "ZDO_NETWORK_INIT" \in taskEvents)
           /\ op # Idle \/ inbox = <<"ZDO_NWK_DISC_CNF">> \/ Answered
                  => "ZDO_NETWORK_INIT" \notin runs \cup taskEvents
           /\ nib # NoNetwork =>
                  /\ op = Idle /\ inbox # <<"ZDO_NWK_DISC_CNF">> /\ hasParent /\ nwkStatus
                  /\ "ZDO_NETWORK_INIT" \notin runs \cup taskEvents

LEMMA OwnStep ==
  ASSUME EntryInv, Own, EntryNext
  PROVE  Own' /\ (nib # NoNetwork /\ nib' # nib => Boot)
<1> USE OpKinds, InboxSteps DEF EntryInv, Own, InboxShape, Awaiting, Resuming,
        Asking, Answered, counterVars, configVars, taskVars, appVars, nwkVars, airVars
<1>0. ASSUME Boot PROVE Own'
  BY <1>0 DEF Boot, ZDOInitDevice, HoldStart
<1>1. CASE Expires
  BY <1>1 DEF Expires, Expire, Timers
<1>2. CASE PowerCut \/ DeviceResetEvt
  BY <1>0, <1>2 DEF PowerCut, DeviceResetEvt
<1>3. CASE DiscoveryConfirm
  <2>1. op # Idle /\ op' = Idle /\ inbox' \in {<< >>, <<"ZDO_NWK_DISC_CNF">>}
    BY <1>3 DEF DiscoveryConfirm, SendMsg
  <2>2. UNCHANGED <<devStartMode, runs, taskEvents, nib, hasParent, nwkStatus, useEpid>>
    BY <1>3 DEF DiscoveryConfirm, KeepsTask
  <2>3. op'.nets = {}
    BY <2>1 DEF Idle, Operation
  <2> QED BY <2>1, <2>2, <2>3
<1>4. CASE \E ok \in BOOLEAN : JoinConfirm(ok)
  <2>1. PICK ok \in BOOLEAN : JoinConfirm(ok)
    BY <1>4
  <2>2. op.kind \in {"join", "rejoin", "orphan"} /\ op' = Idle /\ op'.nets = {}
        /\ inbox' \in {<< >>, <<"ZDO_NWK_JOIN_IND">>} /\ nwkStatus' = ok /\ hasParent' = ok
    BY <2>1 DEF JoinConfirm, SendMsg, Idle, Operation
  <2>3. UNCHANGED <<devStartMode, runs, taskEvents, useEpid>>
    BY <2>1 DEF JoinConfirm, KeepsTask
  <2>4. IF ok THEN nib' \in op.nets ELSE nib' = nib
    BY <2>1 DEF JoinConfirm
  <2>5. op # Idle
    BY <2>2
  <2>6. CASE devStartMode = "MODE_JOIN"
    BY <2>2, <2>3, <2>4, <2>5, <2>6
  <2>7. CASE devStartMode # "MODE_JOIN"
    BY <2>2, <2>3, <2>4, <2>7
  <2> QED BY <2>6, <2>7
<1>5. CASE SyncIndication
  <2>1. op = Idle /\ hasParent /\ inbox # <<"ZDO_NWK_DISC_CNF">> /\ nwkStatus
    BY <1>5 DEF SyncIndication
  <2>2. inbox \in {<< >>, <<"ZDO_NWK_JOIN_IND">>}
    BY <1>5, <2>1 DEF SyncIndication
  <2>3. \/ inbox' = inbox
        \/ inbox = << >> /\ inbox' = <<"ZDO_NWK_JOIN_REQ">>
        \/ /\ inbox = <<"ZDO_NWK_JOIN_IND">>
           /\ inbox' = <<"ZDO_NWK_JOIN_IND", "ZDO_NWK_JOIN_REQ">>
    <3>1. inbox' = inbox \/ inbox' = Append(inbox, "ZDO_NWK_JOIN_REQ")
      BY <1>5 DEF SyncIndication, SendMsg
    <3>2. Append(<< >>, "ZDO_NWK_JOIN_REQ") = <<"ZDO_NWK_JOIN_REQ">>
      BY InboxSteps
    <3>3. Append(<<"ZDO_NWK_JOIN_IND">>, "ZDO_NWK_JOIN_REQ")
              = <<"ZDO_NWK_JOIN_IND", "ZDO_NWK_JOIN_REQ">>
      BY InboxSteps
    <3>4. CASE inbox = << >>
      BY <3>1, <3>2, <3>4
    <3>5. CASE inbox = <<"ZDO_NWK_JOIN_IND">>
      BY <3>1, <3>3, <3>5
    <3> QED BY <2>2, <3>4, <3>5
  <2>4. inbox' # <<"ZDO_NWK_DISC_CNF">> /\ (Answered' => Answered)
    BY <2>1, <2>3
  <2>5. UNCHANGED <<devStartMode, runs, taskEvents, nib, hasParent, op, nwkStatus, useEpid>>
    BY <1>5 DEF SyncIndication, KeepsTask
  <2> QED BY <2>1, <2>4, <2>5
<1>6. CASE \E rejoin \in BOOLEAN : LeaveIndication(rejoin)
  <2>1. UNCHANGED <<devStartMode, taskEvents, nib, hasParent, op, nwkStatus, useEpid, inbox>>
    BY <1>6 DEF LeaveIndication
  <2>2. "ZDO_NETWORK_INIT" \in runs' <=> "ZDO_NETWORK_INIT" \in runs
    BY <1>6 DEF LeaveIndication, StartsTimer
  <2> QED BY <2>1, <2>2
<1>7. CASE AirChanges
  BY <1>7 DEF AirChanges
<1>8. CASE Chooses
  <2>1. op = Idle /\ inbox = <<"ZDO_NWK_DISC_CNF">> /\ inbox' = << >>
        /\ UNCHANGED <<devStartMode, taskEvents, nib, nwkStatus, useEpid>>
    BY <1>8, InboxHead DEF Chooses, KeepsRest
  <2>2. \/ UNCHANGED <<op, hasParent>>
        \/ op' # Idle /\ runs' = runs /\ (devStartMode = "MODE_JOIN"
               \/ (devStartMode = "MODE_REJOIN" /\ op'.nets \subseteq {useEpid}))
    BY <1>8 DEF Chooses, Requests, Operation, Idle
  <2>3. op.nets = {}
    BY <2>1 DEF Idle, Operation
  <2> QED BY <2>1, <2>2, <2>3
<1>9. CASE SearchesOn
  BY <1>9, InboxHead DEF SearchesOn, KeepsRest
<1>10. CASE Joined
  BY <1>10, InboxHead DEF Joined, KeepsRest
<1>11. CASE JoinFailed
  BY <1>11, InboxHead DEF JoinFailed, KeepsRest, RejoinMode
<1>12. CASE RejoinFailed
  <2>1. devStartMode' # devStartMode => nib # NoNetwork /\ devStartMode' = "MODE_REJOIN"
    BY <1>12, EntryAssumption DEF RejoinFailed, RejoinMode, EntryAssumption
  <2> QED BY <1>12, <2>1, InboxHead DEF RejoinFailed, KeepsRest
<1>13. CASE JoinUnexpected
  BY <1>13, InboxHead DEF JoinUnexpected, KeepsRest
<1>14. CASE JoinRequested
  <2>1. op = Idle /\ op.nets = {}
    BY <1>14, InboxHead DEF JoinRequested, Idle, Operation
  <2> QED BY <1>14, <2>1, InboxHead DEF JoinRequested, KeepsRest
<1>15. CASE NetworkInitEvt
  <2>1. UNCHANGED <<devStartMode, nib, nwkStatus, useEpid, inbox>> /\ inbox = << >>
        /\ "ZDO_NETWORK_INIT" \in taskEvents /\ "ZDO_NETWORK_INIT" \notin taskEvents'
    BY <1>15 DEF NetworkInitEvt, KeepsInbox, Serves
  <2>2. \/ op' = op /\ hasParent' = hasParent
        \/ runs' = runs /\ op'.kind = "disc"
        \/ runs' = runs /\ devStartMode = "MODE_RESUME" /\ op'.nets \subseteq {nib}
    BY <1>15 DEF NetworkInitEvt, Requests, Operation
  <2> QED BY <2>1, <2>2
<1>16. CASE StateChangeEvt
  BY <1>16 DEF StateChangeEvt, Serves, KeepsInbox
<1>17. CASE AppData \/ SampleApp
  BY <1>17 DEF AppData, SampleApp, KeepsZDApp
<1> QED BY <1>1, <1>2, <1>3, <1>4, <1>5, <1>6, <1>7, <1>8, <1>9, <1>10, <1>11, <1>12, <1>13,
           <1>14, <1>15, <1>16, <1>17 DEF EntryNext, Network, Confirms, ZDApp, ProcessOSALMsg

(* ZDApp.c:1153-1156, 2063-2102: a device that is in a network enters no other one until it is
   restarted, whichever it hears of. *)
THEOREM EntersNoOther == EntrySpec => OwnNetwork
<1>1. EntryInit => Own
  BY OpKinds DEF EntryInit, Own, Answered
<1>2. EntryInv /\ Own /\ [EntryNext]_entryVars => Own'
  <2>1. Own /\ UNCHANGED entryVars => Own'
    BY DEF Own, Answered, entryVars, counterVars, configVars, taskVars, appVars, nwkVars, airVars
  <2> QED BY <2>1, OwnStep
<1>3. EntryInv /\ Own /\ [EntryNext]_entryVars => [nib # NoNetwork /\ nib' # nib => Boot]_entryVars
  BY OwnStep
<1> QED BY <1>1, <1>2, <1>3, EntryInvariant, PTL DEF EntrySpec, OwnNetwork
====
