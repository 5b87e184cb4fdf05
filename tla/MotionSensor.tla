---------------------------- MODULE MotionSensor ----------------------------
(***************************************************************************)
(* The motion sensor: end devices that read an MPU6050 and report the      *)
(* reading as text once in a period (EndDevice.c), the radio, and the      *)
(* coordinator that writes each report as a line to its UART               *)
(* (Coordinator.c), over the driver of module UartDma.                     *)
(*                                                                         *)
(* The period is that of a timer which the handler of its event starts     *)
(* again, as does each entry into the network; a timer that cannot be      *)
(* allocated ends it.  The coordinator's handler writes all the reports it *)
(* has been sent before the UART is polled again, so that what does not     *)
(* fit into a buffer of the driver is dropped, part by part.               *)
(*                                                                         *)
(* A report has one reading here (the code's has six, handled alike), and  *)
(* the blanks between the parts of a line are left out.                    *)
(***************************************************************************)
EXTENDS UartDma

CONSTANTS
    Nodes,        \* the end devices
    Readings,     \* what the MPU6050 may measure: 16-bit integers
    PartLens,     \* how long the parts of a line are: the node's name, the fields, "\n"
    MaxReports    \* bound: so many reports are made

Parts == 1 .. Len(PartLens)

(* A 16-bit int. *)
Least == -32768
Greatest == 32767
Int16 == Least .. Greatest

ASSUME SensorAssumption ==
    /\ MaxReports \in Nat /\ PartLens \in Seq(Nat \ {0}) /\ PartLens # << >>
    /\ Readings \subseteq Int16
ASSUME PartsAssumption ==
    \A r \in 1 .. MaxReports, p \in Parts : \A i \in 1 .. PartLens[p] : <<r, p, i>> \in Units

VARIABLES
    running,     \* the devices whose timer runs,
    due,         \*   whose SAMPLEAPP_SEND_PERIODIC_MSG_EVT is set
    unstarted,   \* the devices whose timer could not be started when it last was to be
    acc, temp,   \* the last reading and its text, of any device
    made,        \* how many reports have been made; they are known by their number
    radio,       \* those under way
    box,         \* the messages for the coordinator's task
    report, part \* the report its handler writes, and the part it is at; 0 for none

nodeVars == <<running, due, unstarted>>
reportVars == <<acc, temp, made>>
loopVars == <<box, report, part>>
vars == <<uartVars, nodeVars, reportVars, radio, loopVars>>

--------------------------------------------------------------------------------
(* The text of a reading. *)

Minus == 45
Plus == 43
Zero == 48

(* -num of a 16-bit int. *)
Negated(n) == IF n = Least THEN n ELSE -n

(* Division and remainder as C has them. *)
Quotient(n, d) == IF n < 0 THEN -((-n) \div d) ELSE n \div d
Remainder(n, d) == n - d * Quotient(n, d)

(* type_change: the six characters of temp. *)
TypeChange(num) ==
    LET n == IF num < 0 THEN Negated(num) ELSE num
    IN  <<IF num < 0 THEN Minus ELSE Plus, Quotient(n, 10000) + Zero,
          Quotient(Remainder(n, 10000), 1000) + Zero, Quotient(Remainder(n, 1000), 100) + Zero,
          Quotient(Remainder(n, 100), 10) + Zero, Remainder(n, 10) + Zero>>

(* What a reader of the line takes a text for. *)
Digits(t) == \A i \in 2 .. 6 : t[i] \in Zero .. Zero + 9
Value(t) ==
    (IF t[1] = Minus THEN -1 ELSE 1)
    * ((t[2] - Zero) * 10000 + (t[3] - Zero) * 1000 + (t[4] - Zero) * 100
       + (t[5] - Zero) * 10 + (t[6] - Zero))

Init ==
    /\ UartInit /\ pc = "poll"
    /\ running = Nodes /\ due = {} /\ unstarted = {}
    /\ acc = 0 /\ temp = TypeChange(0) /\ made = 0 /\ radio = << >>
    /\ box = << >> /\ report = 0 /\ part = 0

--------------------------------------------------------------------------------
(* The end devices. *)

(* osal_start_timerEx: a timer that runs gets its time anew, another needs a record. *)
StartTimer(n) ==
    \/ running' = running \cup {n} /\ unstarted' = unstarted \ {n}
    \/ n \notin running /\ unstarted' = unstarted \cup {n} /\ UNCHANGED running

(* ZDO_STATE_CHANGE to DEV_END_DEVICE; any other only changes SampleApp_NwkState, which
   nothing reads. *)
Joins(n) ==
    /\ StartTimer(n)
    /\ UNCHANGED <<due, reportVars, radio, loopVars, uartVars>>

TimerExpires(n) ==
    /\ n \in running
    /\ running' = running \ {n} /\ due' = due \cup {n}
    /\ UNCHANGED <<unstarted, reportVars, radio, loopVars, uartVars>>

(* A slip for SendReport: the text is made before the sensor is read. *)
SendReportEarly(v) ==
    /\ acc' = v /\ temp' = TypeChange(acc) /\ made' = made + 1
    /\ radio' = Append(radio, made + 1) \/ UNCHANGED radio

(* SampleApp_SendPointToPointMessage: AF_DataRequest fails outside the network, or for
   want of memory, and the failure is ignored. *)
SendReport(v) ==
    /\ acc' = v /\ temp' = TypeChange(v) /\ made' = made + 1
    /\ radio' = Append(radio, made + 1) \/ UNCHANGED radio

(* A slip for PeriodicEvent: the timer is only started again after a success. *)
PeriodicEventOnSuccess(n) ==
    /\ n \in due /\ made < MaxReports
    /\ due' = due \ {n}
    /\ \E v \in Readings : SendReport(v)
    /\ IF radio' # radio THEN StartTimer(n) ELSE UNCHANGED <<running, unstarted>>
    /\ UNCHANGED <<loopVars, uartVars>>

(* SAMPLEAPP_SEND_PERIODIC_MSG_EVT. *)
PeriodicEvent(n) ==
    /\ n \in due /\ made < MaxReports
    /\ due' = due \ {n}
    /\ \E v \in Readings : SendReport(v)
    /\ StartTimer(n)
    /\ UNCHANGED <<loopVars, uartVars>>

(* A report reaches the coordinator's task or is lost. *)
Arrives ==
    /\ radio # << >> /\ radio' = Tail(radio)
    /\ box' = Append(box, Head(radio)) \/ UNCHANGED box
    /\ UNCHANGED <<nodeVars, reportVars, report, part, uartVars>>

Node(n) == Joins(n) \/ TimerExpires(n) \/ PeriodicEvent(n)

--------------------------------------------------------------------------------
(* The coordinator. *)

Part(r, p) == [i \in 1 .. PartLens[p] |-> <<r, p, i>>]

(* osal_msg_receive; without another message the handler returns and the loop polls. *)
TakeReport ==
    /\ pc = "tasks" /\ box # << >>
    /\ report' = Head(box) /\ part' = 1 /\ box' = Tail(box) /\ pc' = "print"
    /\ UNCHANGED <<driverVars, channelVars, charVars, st0, nodeVars, reportVars, radio>>

TasksDone ==
    /\ pc = "tasks" /\ box = << >> /\ pc' = "poll"
    /\ UNCHANGED <<driverVars, channelVars, charVars, st0, nodeVars, reportVars, radio, loopVars>>

NextPart ==
    IF part = Len(PartLens) THEN report' = 0 /\ part' = 0 /\ pc' = "tasks"
                            ELSE part' = part + 1 /\ pc' = "print" /\ UNCHANGED report

(* SampleApp_MessageMSGCB: a HalUARTWrite for each part, whose result it does not look at. *)
PrintPart ==
    /\ pc = "print" /\ WriteCopy(Part(report, part)) /\ pc' = "commit"
    /\ UNCHANGED <<nodeVars, reportVars, radio, loopVars>>

PartWritten ==
    /\ pc = "commit" /\ WriteCommit /\ NextPart
    /\ UNCHANGED <<nodeVars, reportVars, radio, box>>

PartDropped ==
    /\ pc = "print" /\ ~ HasRoom(Part(report, part)) /\ NextPart
    /\ UNCHANGED <<driverVars, channelVars, charVars, st0, nodeVars, reportVars, radio, box>>

UartPoll == Poll /\ UNCHANGED <<nodeVars, reportVars, radio, loopVars>>

Coordinator == TakeReport \/ TasksDone \/ PrintPart \/ PartWritten \/ PartDropped

Uart == (Hardware \/ DmaInterrupts) /\ UNCHANGED <<nodeVars, reportVars, radio, loopVars>>

Next == Coordinator \/ UartPoll \/ Uart \/ Arrives \/ \E n \in Nodes : Node(n)

Spec == Init /\ [][Next]_vars

Frame(A) == A /\ UNCHANGED <<nodeVars, reportVars, radio, loopVars>>

(* Both processors, the hardware and the clock go on, and again and again a turn of the
   coordinator's loop takes longer than a character time. *)
FairSpec ==
    /\ Spec
    /\ WF_vars(Coordinator \/ UartPoll)
    /\ []<><<PollShadow /\ CharTimeOver>>_vars
    /\ WF_vars(Frame(DmaInterrupts)) /\ WF_vars(Frame(DmaTransfers))
    /\ WF_vars(Frame(CharLeaves)) /\ WF_vars(Frame(Tick))
    /\ \A n \in Nodes : WF_vars(TimerExpires(n)) /\ WF_vars(PeriodicEvent(n))

--------------------------------------------------------------------------------
(* Properties. *)

(* Type correctness: the handler is in a report only while it writes one, and reports are
   known by their number. *)
TypeOK ==
    /\ UartTypeOK
    /\ running \subseteq Nodes /\ due \subseteq Nodes
    /\ unstarted \subseteq Nodes
    /\ acc \in Readings \cup {0} /\ temp = TypeChange(acc) /\ made \in 0 .. MaxReports
    /\ radio \in Seq(1 .. MaxReports) /\ box \in Seq(1 .. MaxReports)
    /\ pc \in {"poll", "fire", "arm", "tasks", "print", "commit"}
    /\ IF pc \in {"print", "commit"} THEN report \in 1 .. MaxReports /\ part \in Parts
                                     ELSE report = 0 /\ part = 0

(* A text reads back as the reading it was made from, but for the least one, whose
   negation is itself: its "digits" are none. *)
TextReadsBack ==
    /\ acc = Least => ~ Digits(temp)
    /\ acc # Least => Digits(temp) /\ Value(temp) = acc

(* The loop, the interrupt and the channel keep out of each other's way. *)
SensorSound == TypeOK /\ ShadowMeansIdle /\ LastCharLeft

Promised == INSTANCE SerialLine
    WITH waiting <- Waiting, Writes <- {Part(r, p) : r \in 1 .. MaxReports, p \in Parts}

(* Between loop, interrupt and transfer nothing that HalUARTWrite accepted is lost,
   doubled or overtaken. *)
ImplementsLine == Promised!LineSpec

(* What has been accepted leaves in the end. *)
LineDrains == Waiting # << >> ~> Waiting = << >>

(* As long as some device's timer could be started there is another report. *)
ReportsGoOn ==
    \A k \in 0 .. MaxReports - 1 :
        made = k ~> (made > k \/ unstarted = Nodes)
=============================================================================
