---------------------------- MODULE CheckIn_proofs ----------------------------
(* What holds of the reader driver for every set of cards, every heap and
   either owner of the bus; and of the check-in device that is built on it,
   for every set of cards, registered or not, whatever their check bytes.    *)
EXTENDS CheckIn, TLAPS

(* The constants' assumption, as the provers need it. *)
LEMMA HeapIsNat == HeapBlocks \in Nat
  BY Rc522Assumption DEF Rc522Assumption

(* Every step of either thread and of people, without what a well-behaved caller
   adds (GoesOn): what the driver's own code guarantees needs none of it.    *)
DriverStep ==
    \/ Create \/ CreateBusFails \/ CreateFails
    \/ Resume \/ StartFirst \/ StartTestFails \/ StartReadFails \/ Pause \/ Destroy
    \/ \E call \in {"start", "pause", "destroy"} : NullHandle(call)
    \/ StaleHandle \/ DestroySteps \/ TaskNext
    \/ Withdraw \/ \E c \in Card : Present(c)

(* The driver on its own takes only steps of DriverStep. *)
LEMMA NextIsDriverStep == [DriverNext]_rcVars => DriverStep \/ UNCHANGED rcVars
  BY DEF DriverNext, CallerNext, DriverStep

-----------------------------------------------------------------------------
(* Each step keeps the driver's types. *)
LEMMA TypeStep ==
  ASSUME Rc522TypeOK, DriverStep \/ UNCHANGED rcVars
  PROVE  Rc522TypeOK'
<1>1. CASE Create
  BY <1>1, HeapIsNat DEF Create, Return, Rc522TypeOK, CallPCs, Calls, Errors, TaskPCs, MaxReports
<1>2. CASE CreateBusFails
  BY <1>2, HeapIsNat DEF CreateBusFails, Return, Rc522TypeOK, CallPCs, Calls, Errors, TaskPCs, MaxReports
<1>3. CASE CreateFails
  BY <1>3, HeapIsNat DEF CreateFails, Return, Rc522TypeOK, CallPCs, Calls, Errors, TaskPCs, MaxReports
<1>4. CASE Resume
  BY <1>4, HeapIsNat DEF Resume, Return, Rc522TypeOK, CallPCs, Calls, Errors, TaskPCs, MaxReports
<1>5. CASE StartFirst
  BY <1>5, HeapIsNat DEF StartFirst, Return, Rc522TypeOK, CallPCs, Calls, Errors, TaskPCs, MaxReports
<1>6. CASE StartTestFails
  BY <1>6, HeapIsNat DEF StartTestFails, BeginDestroy, Rc522TypeOK, CallPCs, Calls, Errors, TaskPCs, MaxReports
<1>7. CASE StartReadFails
  BY <1>7, HeapIsNat DEF StartReadFails, Crash, Rc522TypeOK, CallPCs, Calls, Errors, TaskPCs, MaxReports
<1>8. CASE Pause
  BY <1>8, HeapIsNat DEF Pause, Return, Rc522TypeOK, CallPCs, Calls, Errors, TaskPCs, MaxReports
<1>9. CASE Destroy
  BY <1>9, HeapIsNat DEF Destroy, BeginDestroy, Rc522TypeOK, CallPCs, Calls, Errors, TaskPCs, MaxReports
<1>10. CASE \E call \in {"start", "pause", "destroy"} : NullHandle(call)
  BY <1>10, HeapIsNat DEF NullHandle, Return, Rc522TypeOK, CallPCs, Calls, Errors, TaskPCs, MaxReports
<1>11. CASE StaleHandle
  BY <1>11, HeapIsNat DEF StaleHandle, Crash, Rc522TypeOK, CallPCs, Calls, Errors, TaskPCs, MaxReports
<1>12. CASE DestroyTransport
  BY <1>12, HeapIsNat DEF DestroyTransport, Rc522TypeOK, CallPCs, Calls, Errors, TaskPCs, MaxReports
<1>13. CASE DestroyEventLoop
  BY <1>13, HeapIsNat DEF DestroyEventLoop, Rc522TypeOK, CallPCs, Calls, Errors, TaskPCs, MaxReports
<1>14. CASE DestroyFree
  BY <1>14, HeapIsNat DEF DestroyFree, Rc522TypeOK, CallPCs, Calls, Errors, TaskPCs, MaxReports
<1>15. CASE LoopScanning
  BY <1>15, HeapIsNat DEF LoopScanning, TaskStep, Rc522TypeOK, CallPCs, Calls, Errors, TaskPCs, MaxReports
<1>16. CASE LoopStopped
  BY <1>16, HeapIsNat DEF LoopStopped, TaskStep, Rc522TypeOK, CallPCs, Calls, Errors, TaskPCs, MaxReports
<1>17. CASE PollNone
  BY <1>17, HeapIsNat DEF PollNone, TaskStep, Rc522TypeOK, CallPCs, Calls, Errors, TaskPCs, MaxReports
<1>18. CASE PollNew
  BY <1>18, HeapIsNat DEF PollNew, MaxReports, TaskStep, Rc522TypeOK, CallPCs, Calls, Errors, TaskPCs, MaxReports
<1>19. CASE PollAgain
  BY <1>19, HeapIsNat DEF PollAgain, TaskStep, CanPoll, Rc522TypeOK, CallPCs, Calls, Errors, TaskPCs, MaxReports
<1>20. CASE Dispatch
  BY <1>20, HeapIsNat DEF Dispatch, TaskStep, Rc522TypeOK, CallPCs, Calls, Errors, TaskPCs, MaxReports
<1>21. CASE HandlerReturns
  BY <1>21, HeapIsNat DEF HandlerReturns, TaskStep, Rc522TypeOK, CallPCs, Calls, Errors, TaskPCs, MaxReports
<1>22. CASE MarkPresent
  BY <1>22, HeapIsNat DEF MarkPresent, TaskStep, Rc522TypeOK, CallPCs, Calls, Errors, TaskPCs, MaxReports
<1>23. CASE ScanDelay
  BY <1>23, HeapIsNat DEF ScanDelay, TaskStep, Rc522TypeOK, CallPCs, Calls, Errors, TaskPCs, MaxReports
<1>24. CASE TransferFails
  BY <1>24, HeapIsNat DEF TransferFails, Crash, Rc522TypeOK, CallPCs, Calls, Errors, TaskPCs, MaxReports
<1>25. CASE TaskCrashes
  BY <1>25, HeapIsNat DEF TaskCrashes, Crash, Rc522TypeOK, CallPCs, Calls, Errors, TaskPCs, MaxReports
<1>26. CASE TaskUseAfterFree
  BY <1>26, HeapIsNat DEF TaskUseAfterFree, Crash, Rc522TypeOK, CallPCs, Calls, Errors, TaskPCs, MaxReports
<1>27. CASE Withdraw
  BY <1>27, HeapIsNat DEF Withdraw, Rc522TypeOK, CallPCs, Calls, Errors, TaskPCs, MaxReports
<1>28. CASE \E c \in Card : Present(c)
  BY <1>28, HeapIsNat DEF Present, Rc522TypeOK, CallPCs, Calls, Errors, TaskPCs, MaxReports
<1>29. CASE UNCHANGED rcVars
  BY <1>29, HeapIsNat DEF rcVars, Rc522TypeOK, CallPCs, Calls, Errors, TaskPCs, MaxReports
<1> QED
  BY <1>1, <1>2, <1>3, <1>4, <1>5, <1>6, <1>7, <1>8, <1>9, <1>10, <1>11, <1>12, <1>13, <1>14, <1>15, <1>16, <1>17, <1>18, <1>19, <1>20, <1>21, <1>22, <1>23, <1>24, <1>25, <1>26, <1>27, <1>28, <1>29
     DEF DriverStep, TaskNext, TaskRuns, DestroySteps

(* Type correctness: every flag, pc and counter of the driver stays in its
   range, the count of lost arrays within the heap included.                *)
THEOREM DriverTypeCorrect == DriverSpec => []Rc522TypeOK
<1>1. DriverInit => Rc522TypeOK
  BY HeapIsNat DEF DriverInit, Rc522Init, Rc522TypeOK, ResAtReset, CallerAtReset,
                   CallPCs, Calls, Errors, TaskPCs, MaxReports
<1> QED BY <1>1, TypeStep, NextIsDriverStep, PTL DEF DriverSpec

-----------------------------------------------------------------------------
(* The inductive invariant behind the driver's safety properties. *)

(* The driver before rc522_create, and a handle that was never set. *)
NotCreated ==
    /\ mem = "none" => task = "none" /\ caller.call = "none" /\ late = 0 /\ reports = 0 /\ flags = {}
    /\ handle = "null" => task = "none" /\ mem # "live"

(* rc522_destroy runs on a live struct, and once it has deleted the event loop
   no handler runs and none can be started.                                 *)
Destroying ==
    /\ ~Returned => mem = "live" /\ "scanning" \notin flags /\ caller.call \in {"start", "destroy"}
    /\ caller.pc = "free" => "loop" \notin res /\ task # "handler"
    /\ mem = "freed" => task # "handler"

SetUp ==
    /\ "scanning" \in flags => "initialized" \in flags
    /\ task = "poll" => "initialized" \in flags

(* An event may come late only from the poll that was under way at the pause. *)
Late ==
    /\ late <= 1
    /\ "scanning" \in flags \/ caller.call = "create" => late = 0
    /\ "scanning" \notin flags /\ caller.call = "pause" => late = 0 \/ task \notin {"poll", "dispatch"}
    /\ "scanning" \notin flags /\ Returned /\ mem = "live" => caller.call \in {"create", "pause"}

(* A reader that misses nothing remembers the card in the field once it has
   reported it.                                                             *)
Remembered ==
    ~Misses =>
        /\ reports <= 1
        /\ field # NoCard /\ "present" \notin flags /\ task \notin {"dispatch", "handler", "mark"}
               => reports = 0

DriverInv == Rc522TypeOK /\ NotCreated /\ Destroying /\ SetUp /\ Late /\ Remembered

(* Each step keeps the invariant. *)
LEMMA DriverInvStep ==
  ASSUME DriverInv, DriverStep \/ UNCHANGED rcVars
  PROVE  DriverInv'
<1>0. Rc522TypeOK /\ NotCreated /\ Destroying /\ SetUp /\ Late /\ Remembered
  BY DEF DriverInv
<1>t. Rc522TypeOK'
  BY <1>0, TypeStep
<1>n. reports \in 0 .. 2 /\ late \in Nat
  BY <1>0 DEF Rc522TypeOK, MaxReports
<1> USE <1>0, <1>t, <1>n DEF DriverInv, NotCreated, Destroying, SetUp, Late, Remembered, Returned
<1>1. CASE Create
  BY <1>1 DEF Create, Return
<1>2. CASE CreateBusFails
  BY <1>2 DEF CreateBusFails, Return
<1>3. CASE CreateFails
  BY <1>3 DEF CreateFails, Return
<1>4. CASE Resume
  BY <1>4 DEF Resume, Return
<1>5. CASE StartFirst
  BY <1>5 DEF StartFirst, Return
<1>6. CASE StartTestFails
  BY <1>6 DEF StartTestFails, BeginDestroy
<1>7. CASE StartReadFails
  BY <1>7 DEF StartReadFails, Crash
<1>8. CASE Pause
  BY <1>8 DEF Pause, Return
<1>9. CASE Destroy
  BY <1>9 DEF Destroy, BeginDestroy
<1>10. ASSUME NEW call \in {"start", "pause", "destroy"}, NullHandle(call)
       PROVE  DriverInv'
  <2>1. /\ Returned' /\ caller'.call = call
        /\ UNCHANGED <<mem, flags, res, handle, task, field, reports, late>>
        /\ handle = "null" /\ mem # "none"
    BY <1>10 DEF NullHandle, Return
  <2>2. task = "none" /\ mem # "live" /\ caller'.pc = "idle"
    BY <2>1
  <2>3. NotCreated' /\ Destroying'
    BY <2>1, <2>2
  <2>4. SetUp' /\ Late' /\ Remembered'
    BY <2>1, <2>2
  <2> QED BY <2>3, <2>4
<1>11. CASE StaleHandle
  BY <1>11 DEF StaleHandle, Crash
<1>12. CASE DestroyTransport
  BY <1>12 DEF DestroyTransport
<1>13. CASE DestroyEventLoop
  BY <1>13 DEF DestroyEventLoop
<1>14. CASE DestroyFree
  BY <1>14 DEF DestroyFree
<1>15. CASE LoopScanning
  BY <1>15 DEF LoopScanning, TaskStep
<1>16. CASE LoopStopped
  BY <1>16 DEF LoopStopped, TaskStep
<1>17. CASE PollNone
  BY <1>17 DEF PollNone, TaskStep
<1>18. CASE PollNew
  BY <1>18 DEF PollNew, MaxReports, TaskStep
<1>19. CASE PollAgain
  BY <1>19 DEF PollAgain, TaskStep, CanPoll
<1>20. CASE Dispatch
  BY <1>20 DEF Dispatch, TaskStep
<1>21. CASE HandlerReturns
  BY <1>21 DEF HandlerReturns, TaskStep
<1>22. CASE MarkPresent
  BY <1>22 DEF MarkPresent, TaskStep
<1>23. CASE ScanDelay
  BY <1>23 DEF ScanDelay, TaskStep
<1>24. CASE TransferFails
  BY <1>24 DEF TransferFails, Crash
<1>25. CASE TaskCrashes
  BY <1>25 DEF TaskCrashes, Crash
<1>26. CASE TaskUseAfterFree
  BY <1>26 DEF TaskUseAfterFree, Crash
<1>27. CASE Withdraw
  BY <1>27 DEF Withdraw
<1>28. CASE \E c \in Card : Present(c)
  BY <1>28 DEF Present
<1>29. CASE UNCHANGED rcVars
  BY <1>29 DEF rcVars
<1> QED
  BY <1>1, <1>2, <1>3, <1>4, <1>5, <1>6, <1>7, <1>8, <1>9, <1>10, <1>11, <1>12, <1>13, <1>14, <1>15, <1>16, <1>17, <1>18, <1>19, <1>20, <1>21, <1>22, <1>23, <1>24, <1>25, <1>26, <1>27, <1>28, <1>29
     DEF DriverInv, DriverStep, TaskNext, TaskRuns, DestroySteps

(* The inductive invariant holds of the driver in every reachable state, whatever its
   caller calls (rc522.c).                                                  *)
THEOREM DriverInvariant == DriverSpec => []DriverInv
<1>1. DriverInit => DriverInv
  <2> SUFFICES ASSUME DriverInit PROVE DriverInv
    OBVIOUS
  <2>1. Rc522TypeOK
    BY HeapIsNat DEF DriverInit, Rc522Init, Rc522TypeOK, ResAtReset, CallerAtReset,
                     CallPCs, Calls, Errors, TaskPCs, MaxReports
  <2>2. NotCreated /\ Destroying /\ SetUp /\ Late /\ Remembered
    BY DEF DriverInit, Rc522Init, ResAtReset, CallerAtReset,
           NotCreated, Destroying, SetUp, Late, Remembered, Returned
  <2> QED BY <2>1, <2>2 DEF DriverInv
<1> QED BY <1>1, DriverInvStep, NextIsDriverStep, PTL DEF DriverSpec

(* rc522_pause: however it interleaves with rc522_task, at most one event follows. *)
THEOREM LateEventSafe == DriverSpec => []AtMostOneLateEvent
<1>1. DriverInv => AtMostOneLateEvent
  BY DEF DriverInv, Late, AtMostOneLateEvent
<1> QED BY <1>1, DriverInvariant, PTL

(* rc522_destroy: no handler runs in a destroyed driver. *)
THEOREM HandlerSafe == DriverSpec => []NoHandlerAfterFree
<1>1. DriverInv => NoHandlerAfterFree
  BY DEF DriverInv, Destroying, NoHandlerAfterFree
<1> QED BY <1>1, DriverInvariant, PTL

(* rc522_start: the chip is polled only after it has been set up. *)
THEOREM PollSafe == DriverSpec => []PolledOnlyWhenSetUp
<1>1. DriverInv => PolledOnlyWhenSetUp
  BY DEF DriverInv, SetUp, PolledOnlyWhenSetUp
<1> QED BY <1>1, DriverInvariant, PTL

(* rc522_task: a reader that misses nothing reports a placement of a card once. *)
THEOREM PlacementSafe == DriverSpec => []OncePerPlacement
<1>1. DriverInv => OncePerPlacement
  BY DEF DriverInv, Remembered, OncePerPlacement
<1> QED BY <1>1, DriverInvariant, PTL

-----------------------------------------------------------------------------
(* The inductive invariant behind the device's safety properties. *)

Idle == {"none", "setup", "blocked"}

(* Every digit of the number n is that of a card scanned since the reset. *)
Known(n) == {n.hi, n.lo} \subseteq log.scanned

(* app_main creates the threads one after the other, init_task creates the mutex
   before rc522_task, and without rc522_task nobody is notified.            *)
BootOrder ==
    /\ pc.main = "init" => pc.init = "none"
    /\ pc.main \in {"init", "tcp"} => pc.tcp = "none"
    /\ pc.main # "done" => pc.disp = "none"
    /\ mutex = "null" => pc.init \in {"none", "gpio", "mutex"}
    /\ pc.init \in {"none", "gpio", "mutex", "create"} => task = "none"
    /\ task = "none" => {pc.disp, pc.tcp} \subseteq Idle

(* card_id holds scanned digits from the first notification on. *)
IdKnown ==
    /\ task \in {"dispatch", "handler"} => tag \in Card
    /\ pc.handler # "store" => task = "handler" /\ tag \in log.scanned
    /\ pc.handler = "store_lo" => card_id.hi \in log.scanned
    /\ pc.handler = "store_hi" => card_id.lo \in log.scanned
    /\ pc.handler \in {"display", "tcp", "return"} => Known(card_id)
    /\ ~({pc.disp, pc.tcp} \subseteq Idle) => Known(card_id)

(* So do the arguments of both sprintfs and what they have written, and
   nobody clears the buffer between tcp_client_task's sprintf and its send. *)
TextKnown ==
    /\ pc.disp \in {"head", "tail"} => Known(arg.disp)
    /\ pc.tcp \in {"head", "tail"} => Known(arg.tcp)
    /\ card_id_str.head # Blank => Known(card_id_str.head)
    /\ card_id_str.tail # Blank => Known(card_id_str.tail)
    /\ pc.tcp \in {"tail", "send"} => card_id_str.head # Blank
    /\ pc.tcp = "send" => card_id_str.tail # Blank
    /\ log.sent # Cleared => pc.tcp = "sending"

Lights ==
    /\ panel.green = "on" => pc.disp \in {"beep1", "pause1", "beep2"}
    /\ panel.red = "on" => pc.disp = "fail"

DeviceInv ==
    /\ DriverInv /\ TypeOK
    /\ BootOrder /\ IdKnown /\ MutexHeld
    /\ TextKnown /\ SentFromScans
    /\ Lights /\ SuccessOnlyIfScanned

-----------------------------------------------------------------------------
(* Steps. *)

(* The steps that leave the firmware's own variables alone. *)
ReaderStep ==
    \/ StartReadFails \/ DestroySteps
    \/ TaskRuns \/ TransferFails \/ TaskCrashes \/ TaskUseAfterFree \/ Crash
    \/ Withdraw \/ \E c \in Card : Present(c)

(* None of them starts or ends a handler behind its back. *)
LEMMA ReaderStepTask ==
  ASSUME DriverInv, ReaderStep, task \in {"dispatch", "handler"} => tag \in Card
  PROVE  /\ task' \in {"dispatch", "handler"} => tag' \in Card
         /\ task' = "none" <=> task = "none"
         /\ task = "handler" => task' = "handler" /\ tag' = tag
<1>t. Rc522TypeOK
  BY DEF DriverInv
<1>1. CASE StartReadFails \/ TransferFails \/ TaskCrashes \/ Crash
  BY <1>1 DEF StartReadFails, TransferFails, TaskCrashes, Crash
<1>2. CASE DestroySteps
  BY <1>2 DEF DestroySteps, DestroyTransport, DestroyEventLoop, DestroyFree
<1>3. CASE LoopScanning \/ LoopStopped
  BY <1>3 DEF LoopScanning, LoopStopped, TaskStep
<1>4. CASE PollNone \/ PollAgain
  BY <1>4 DEF PollNone, PollAgain, TaskStep
<1>5. CASE PollNew
  BY <1>5, <1>t DEF PollNew, TaskStep, Rc522TypeOK
<1>6. CASE Dispatch \/ MarkPresent \/ ScanDelay
  BY <1>6 DEF Dispatch, MarkPresent, ScanDelay, TaskStep
<1>7. CASE TaskUseAfterFree
  BY <1>7 DEF TaskUseAfterFree, Crash
<1>8. CASE Withdraw \/ \E c \in Card : Present(c)
  BY <1>8 DEF Withdraw, Present
<1> QED BY <1>1, <1>2, <1>3, <1>4, <1>5, <1>6, <1>7, <1>8 DEF ReaderStep, TaskRuns

(* The steps of the device, one by one. *)
LEMMA NextCases ==
  ASSUME Next
  PROVE  \/ ReaderStep /\ UNCHANGED appVars
         \/ MainCreatesInit \/ MainCreatesTcp \/ MainCreatesDisplay
         \/ InitGpio \/ InitMutex \/ InitReader \/ InitRegisters \/ InitEnds
         \/ HandlerStoresFirst \/ HandlerStoresSecond
         \/ HandlerNotifiesDisplay \/ HandlerNotifiesTcp \/ HandlerEnds
         \/ DisplayListens \/ DisplayLoadsId \/ DisplayFormatsHead
         \/ DisplayFormatsTail \/ DisplayDraws \/ DisplayLocks
         \/ DisplayTimesOut \/ DisplayAccepts \/ DisplayRejects
         \/ DisplaySignals \/ DisplayUnlocks \/ TcpListens \/ TcpLocks
         \/ TcpClears \/ TcpFormatsHead \/ TcpFormatsTail \/ TcpSends
         \/ TcpSendReturns \/ TcpUnlocks \/ Reboot
<1>1. CASE BootNext
  BY <1>1 DEF BootNext, InitReaderFails, InitDestroys, ReaderStep
<1>2. CASE ReaderNext
  BY <1>2 DEF ReaderNext, ReaderRuns, HandlerNotifiesNull, Abort, ReaderStep
<1>3. CASE DisplayRuns \/ DisplayLocks
  BY <1>3 DEF DisplayRuns
<1>4. CASE TcpNext
  BY <1>4 DEF TcpNext, TcpRuns, TcpSetupFails, TcpSendFails, Abort, ReaderStep
<1>5. CASE People
  BY <1>5 DEF People, ReaderStep
<1> QED BY <1>1, <1>2, <1>3, <1>4, <1>5 DEF Next

(* A reset keeps the invariant of the driver. *)
LEMMA RebootDriver ==
  ASSUME DriverInv, Reboot
  PROVE  DriverInv'
<1>1. Rc522TypeOK'
  BY HeapIsNat DEF Reboot, DriverInv, Rc522TypeOK, ResAtReset, CallerAtReset,
                   CallPCs, Calls, Errors, TaskPCs, MaxReports
<1>2. NotCreated' /\ Destroying' /\ SetUp' /\ Late' /\ Remembered'
  BY DEF Reboot, CallerAtReset, NotCreated, Destroying, SetUp, Late, Remembered, Returned
<1> QED BY <1>1, <1>2 DEF DriverInv

(* Every step but a reboot is one of the driver's, or none of its business. *)
LEMMA DriverPart ==
  ASSUME DriverInv, Next \/ UNCHANGED vars
  PROVE  DriverInv'
<1>1. CASE UNCHANGED vars
  BY <1>1, DriverInvStep DEF vars
<1>2. CASE ReaderStep
  <2>1. CASE Crash
    BY <2>1 DEF Crash, DriverInv, Rc522TypeOK, NotCreated, Destroying, SetUp, Late, Remembered, Returned
  <2> QED BY <1>2, <2>1, DriverInvStep DEF ReaderStep, DriverStep, TaskNext
<1>3. CASE InitReader
  BY <1>3, DriverInvStep DEF InitReader, DriverStep
<1>4. CASE HandlerEnds
  BY <1>4, DriverInvStep DEF HandlerEnds, DriverStep, TaskNext
<1>5. CASE MainCreatesInit \/ MainCreatesTcp \/ MainCreatesDisplay
         \/ InitGpio \/ InitMutex \/ InitRegisters
  BY <1>5, DriverInvStep DEF MainCreatesInit, MainCreatesTcp, MainCreatesDisplay, InitGpio, InitMutex, InitRegisters
<1>6. CASE InitEnds \/ HandlerStoresFirst \/ HandlerStoresSecond
         \/ HandlerNotifiesDisplay \/ HandlerNotifiesTcp \/ DisplayListens
  BY <1>6, DriverInvStep DEF InitEnds, HandlerStoresFirst, HandlerStoresSecond, HandlerNotifiesDisplay, HandlerNotifiesTcp, DisplayListens
<1>7. CASE DisplayLoadsId \/ DisplayFormatsHead \/ DisplayFormatsTail
         \/ DisplayDraws \/ DisplayLocks \/ DisplayTimesOut
  BY <1>7, DriverInvStep DEF DisplayLoadsId, DisplayFormatsHead, DisplayFormatsTail, DisplayDraws, DisplayLocks, DisplayTimesOut
<1>8. CASE DisplayAccepts \/ DisplayRejects \/ DisplaySignals
         \/ DisplayUnlocks \/ TcpListens \/ TcpLocks
  BY <1>8, DriverInvStep DEF DisplayAccepts, DisplayRejects, DisplaySignals, DisplayUnlocks, TcpListens, TcpLocks
<1>9. CASE TcpClears \/ TcpFormatsHead \/ TcpFormatsTail
         \/ TcpSends \/ TcpSendReturns \/ TcpUnlocks
  BY <1>9, DriverInvStep DEF TcpClears, TcpFormatsHead, TcpFormatsTail, TcpSends, TcpSendReturns, TcpUnlocks
<1>10. CASE Reboot
  BY <1>10, RebootDriver
<1> QED BY <1>1, <1>2, <1>3, <1>4, <1>5, <1>6, <1>7, <1>8, <1>9, <1>10, NextCases
-----------------------------------------------------------------------------
(* Each step keeps the types of the firmware's own variables. *)
LEMMA AppTypeStep ==
  ASSUME TypeOK, DriverInv, task \in {"dispatch", "handler"} => tag \in Card, Next \/ UNCHANGED vars
  PROVE  TypeOK'
<1>d. Rc522TypeOK'
  BY DriverPart DEF DriverInv
<1> USE <1>d DEF TypeOK, Number, Text, Id
<1>1. CASE MainCreatesInit
  <2>1. pc' \in PCs
    BY <1>1 DEF MainCreatesInit, PCs, DisplayCS, SignalPCs, TcpCS
  <2> QED BY <1>1, <2>1 DEF MainCreatesInit
<1>2. CASE MainCreatesTcp
  <2>1. pc' \in PCs
    BY <1>2 DEF MainCreatesTcp, PCs, DisplayCS, SignalPCs, TcpCS
  <2> QED BY <1>2, <2>1 DEF MainCreatesTcp
<1>3. CASE MainCreatesDisplay
  <2>1. pc' \in PCs
    BY <1>3 DEF MainCreatesDisplay, PCs, DisplayCS, SignalPCs, TcpCS
  <2> QED BY <1>3, <2>1 DEF MainCreatesDisplay
<1>4. CASE InitGpio
  BY <1>4 DEF InitGpio, Step, PCs, DisplayCS, SignalPCs, TcpCS
<1>5. CASE InitMutex
  BY <1>5 DEF InitMutex, Step, PCs, DisplayCS, SignalPCs, TcpCS
<1>6. CASE InitReader
  BY <1>6 DEF InitReader, Step, PCs, DisplayCS, SignalPCs, TcpCS
<1>7. CASE InitRegisters
  BY <1>7 DEF InitRegisters, Step, PCs, DisplayCS, SignalPCs, TcpCS
<1>8. CASE InitEnds
  BY <1>8 DEF InitEnds, Step, PCs, DisplayCS, SignalPCs, TcpCS
<1>9. CASE HandlerStoresFirst
  BY <1>9 DEF HandlerStoresFirst, HandlerStep, Step, PCs, DisplayCS, SignalPCs, TcpCS
<1>10. CASE HandlerStoresSecond
  BY <1>10 DEF HandlerStoresSecond, HandlerStep, Step, PCs, DisplayCS, SignalPCs, TcpCS
<1>11. CASE HandlerNotifiesDisplay
  <2>1. pc' \in PCs
    <3>1. pc \in PCs /\ Notified("disp", "clear") \in {pc.disp, "clear"}
      BY DEF Notified
    <3>2. pc' = [pc EXCEPT !.handler = "tcp", !.disp = Notified("disp", "clear")]
      BY <1>11 DEF HandlerNotifiesDisplay
    <3> HIDE DEF TypeOK
    <3> QED BY <3>1, <3>2 DEF PCs, DisplayCS, SignalPCs, TcpCS
  <2> QED BY <1>11, <2>1 DEF HandlerNotifiesDisplay
<1>12. CASE HandlerNotifiesTcp
  <2>1. pc' \in PCs
    <3>1. pc \in PCs /\ Notified("tcp", "lock") \in {pc.tcp, "lock"}
      BY DEF Notified
    <3>2. pc' = [pc EXCEPT !.handler = "return", !.tcp = Notified("tcp", "lock")]
      BY <1>12 DEF HandlerNotifiesTcp
    <3> HIDE DEF TypeOK
    <3> QED BY <3>1, <3>2 DEF PCs, DisplayCS, SignalPCs, TcpCS
  <2> QED BY <1>12, <2>1 DEF HandlerNotifiesTcp
<1>13. CASE HandlerEnds
  BY <1>13 DEF HandlerEnds, Step, PCs, DisplayCS, SignalPCs, TcpCS
<1>14. CASE DisplayListens
  BY <1>14 DEF DisplayListens, Step, PCs, DisplayCS, SignalPCs, TcpCS
<1>15. CASE DisplayLoadsId
  BY <1>15 DEF DisplayLoadsId, Step, PCs, DisplayCS, SignalPCs, TcpCS
<1>16. CASE DisplayFormatsHead
  BY <1>16 DEF DisplayFormatsHead, FormatsHead, Step, PCs, DisplayCS, SignalPCs, TcpCS
<1>17. CASE DisplayFormatsTail
  BY <1>17 DEF DisplayFormatsTail, Dead, Step, PCs, DisplayCS, SignalPCs, TcpCS, NoNumber
<1>18. CASE DisplayDraws
  BY <1>18 DEF DisplayDraws, Step, PCs, DisplayCS, SignalPCs, TcpCS
<1>19. CASE DisplayLocks
  BY <1>19 DEF DisplayLocks, Takes, Step, PCs, DisplayCS, SignalPCs, TcpCS
<1>20. CASE DisplayTimesOut
  BY <1>20 DEF DisplayTimesOut, Step, PCs, DisplayCS, SignalPCs, TcpCS, Cleared
<1>21. CASE DisplayAccepts
  <2>1. pc' \in PCs
    BY <1>21 DEF DisplayAccepts, Step, PCs, DisplayCS, SignalPCs, TcpCS
  <2>2. panel' \in [green : {"on", "off"}, red : {"on", "off"}, beep : {"float", "low", "high"}]
    BY <1>21 DEF DisplayAccepts
  <2> QED BY <1>21, <2>1, <2>2 DEF DisplayAccepts
<1>22. CASE DisplayRejects
  <2>1. pc' \in PCs
    BY <1>22 DEF DisplayRejects, Step, PCs, DisplayCS, SignalPCs, TcpCS
  <2>2. panel' \in [green : {"on", "off"}, red : {"on", "off"}, beep : {"float", "low", "high"}]
    BY <1>22 DEF DisplayRejects
  <2> QED BY <1>22, <2>1, <2>2 DEF DisplayRejects
<1>23. CASE DisplaySignals
  <2>1. pc' \in PCs
    BY <1>23 DEF DisplaySignals, Step, PCs, DisplayCS, SignalPCs, TcpCS
  <2>2. panel' \in [green : {"on", "off"}, red : {"on", "off"}, beep : {"float", "low", "high"}]
    BY <1>23 DEF DisplaySignals
  <2> QED BY <1>23, <2>1, <2>2 DEF DisplaySignals
<1>24. CASE DisplayUnlocks
  <2>1. pc' \in PCs
    BY <1>24 DEF DisplayUnlocks, Gives, Step, PCs, DisplayCS, SignalPCs, TcpCS
  <2>2. log' \in [scanned : SUBSET Card, judged : Number, sent : Text]
    BY <1>24 DEF DisplayUnlocks, Cleared, NoNumber
  <2> QED BY <1>24, <2>1, <2>2 DEF DisplayUnlocks, Gives
<1>25. CASE TcpListens
  BY <1>25 DEF TcpListens, Step, PCs, DisplayCS, SignalPCs, TcpCS
<1>26. CASE TcpLocks
  BY <1>26 DEF TcpLocks, Takes, Step, PCs, DisplayCS, SignalPCs, TcpCS
<1>27. CASE TcpClears
  BY <1>27 DEF TcpClears, Step, PCs, DisplayCS, SignalPCs, TcpCS, Cleared
<1>28. CASE TcpFormatsHead
  BY <1>28 DEF TcpFormatsHead, FormatsHead, Step, PCs, DisplayCS, SignalPCs, TcpCS
<1>29. CASE TcpFormatsTail
  BY <1>29 DEF TcpFormatsTail, Dead, Step, PCs, DisplayCS, SignalPCs, TcpCS, NoNumber
<1>30. CASE TcpSends
  BY <1>30 DEF TcpSends, Step, PCs, DisplayCS, SignalPCs, TcpCS
<1>31. CASE TcpSendReturns
  BY <1>31 DEF TcpSendReturns, Step, PCs, DisplayCS, SignalPCs, TcpCS, Cleared
<1>32. CASE TcpUnlocks
  BY <1>32 DEF TcpUnlocks, Gives, Step, PCs, DisplayCS, SignalPCs, TcpCS
<1>33. CASE Reboot
  BY <1>33 DEF Reboot, PCsAtReset, ArgsAtReset, PanelAtReset, LogAtReset, PCs, Cleared, NoNumber
<1>34. CASE UNCHANGED appVars
  BY <1>34 DEF appVars
<1> QED BY <1>1, <1>2, <1>3, <1>4, <1>5, <1>6, <1>7, <1>8, <1>9, <1>10, <1>11, <1>12, <1>13, <1>14, <1>15, <1>16, <1>17, <1>18, <1>19, <1>20, <1>21, <1>22, <1>23, <1>24, <1>25, <1>26, <1>27, <1>28, <1>29, <1>30, <1>31, <1>32, <1>33, <1>34, NextCases DEF vars

-----------------------------------------------------------------------------
(* Each step keeps the invariant. *)
LEMMA DeviceInvStep ==
  ASSUME DeviceInv, Next \/ UNCHANGED vars
  PROVE  DeviceInv'
<1>0. /\ DriverInv /\ TypeOK
      /\ BootOrder /\ IdKnown /\ MutexHeld
      /\ TextKnown /\ SentFromScans
      /\ Lights /\ SuccessOnlyIfScanned
  BY DEF DeviceInv
<1>t. DriverInv' /\ TypeOK'
  BY <1>0, DriverPart, AppTypeStep DEF IdKnown
<1>b. Blank \notin Number
  BY CheckInAssumption DEF CheckInAssumption
<1>p. pc \in PCs /\ log \in [scanned : SUBSET Card, judged : Number, sent : Text]
      /\ arg \in [disp : Number, tcp : Number] /\ card_id_str \in Text /\ card_id \in Number
      /\ panel \in [green : {"on", "off"}, red : {"on", "off"}, beep : {"float", "low", "high"}]
  BY <1>0 DEF TypeOK
<1> USE <1>0, <1>t, <1>p DEF DeviceInv, BootOrder, IdKnown, MutexHeld, TextKnown, SentFromScans, Lights,
     SuccessOnlyIfScanned, Known, Idle, DisplayCS, SignalPCs, TcpCS, PCs, Text, Number
<1>1. CASE MainCreatesInit
  BY <1>1 DEF MainCreatesInit, rcVars
<1>2. CASE MainCreatesTcp
  BY <1>2 DEF MainCreatesTcp, rcVars
<1>3. CASE MainCreatesDisplay
  BY <1>3 DEF MainCreatesDisplay, rcVars
<1>4. CASE InitGpio
  BY <1>4 DEF InitGpio, Step, rcVars
<1>5. CASE InitMutex
  BY <1>5 DEF InitMutex, Step, rcVars
<1>6. CASE InitReader
  <2>1. /\ tag' = tag /\ UNCHANGED <<mutex, card_id, arg, card_id_str, panel, log>>
        /\ \/ pc.init = "create" /\ task' \in {"loop", task} /\ pc' = [pc EXCEPT !.init = "register"]
           \/ pc.init = "start" /\ task' = task /\ pc' = [pc EXCEPT !.init = "end"]
    BY <1>6 DEF InitReader, Step, Create, CreateBusFails, CreateFails, StartFirst, StartTestFails, NullHandle
  <2> QED BY <2>1
<1>7. CASE InitRegisters
  BY <1>7 DEF InitRegisters, Step, rcVars
<1>8. CASE InitEnds
  BY <1>8 DEF InitEnds, Step, rcVars
<1>9. CASE HandlerStoresFirst
  BY <1>9 DEF HandlerStoresFirst, HandlerStep, Step, rcVars
<1>10. CASE HandlerStoresSecond
  BY <1>10 DEF HandlerStoresSecond, HandlerStep, Step, rcVars
<1>11. CASE HandlerNotifiesDisplay
  BY <1>11 DEF HandlerNotifiesDisplay, Notified, rcVars
<1>12. CASE HandlerNotifiesTcp
  BY <1>12 DEF HandlerNotifiesTcp, Notified, rcVars
<1>13. CASE HandlerEnds
  BY <1>13 DEF HandlerEnds, HandlerReturns, TaskStep, Step, rcVars
<1>14. CASE DisplayListens
  BY <1>14 DEF DisplayListens, Step, rcVars
<1>15. CASE DisplayLoadsId
  BY <1>15 DEF DisplayLoadsId, Step, rcVars
<1>16. CASE DisplayFormatsHead
  BY <1>16, <1>b DEF DisplayFormatsHead, FormatsHead, Step, rcVars
<1>17. CASE DisplayFormatsTail
  BY <1>17, <1>b DEF DisplayFormatsTail, Dead, Step, NoNumber, rcVars
<1>18. CASE DisplayDraws
  BY <1>18 DEF DisplayDraws, Step, rcVars
<1>19. CASE DisplayLocks
  BY <1>19 DEF DisplayLocks, Takes, Step, rcVars
<1>20. CASE DisplayTimesOut
  BY <1>20 DEF DisplayTimesOut, Step, Cleared, rcVars
<1>21. CASE DisplayAccepts
  <2>1. PICK c \in Registered \cup {Zero} : card_id.lo = c
    BY <1>21 DEF DisplayAccepts, card_id_judge
  <2>2. Known(card_id) /\ log.scanned \subseteq Card
    BY <1>21 DEF DisplayAccepts, Step
  <2>3. c \in Registered \cap log.scanned
    BY <2>1, <2>2, CheckInAssumption DEF CheckInAssumption
  <2>4. SuccessOnlyIfScanned'
    <3>1. log'.judged = card_id /\ log'.scanned = log.scanned
      BY <1>21 DEF DisplayAccepts
    <3> QED BY <3>1, <2>1, <2>3
  <2>5. /\ pc.disp = "judge" /\ pc' = [pc EXCEPT !.disp = "beep1"]
        /\ panel'.green = "on" /\ panel'.red = panel.red
        /\ log'.scanned = log.scanned /\ log'.sent = log.sent
        /\ UNCHANGED <<rcVars, mutex, card_id, arg, card_id_str>>
    BY <1>21 DEF DisplayAccepts, Step
  <2>6. BootOrder' /\ MutexHeld' /\ IdKnown'
    BY <2>5 DEF rcVars
  <2>7. TextKnown' /\ SentFromScans' /\ Lights'
    BY <2>5 DEF rcVars
  <2> QED BY <2>4, <2>6, <2>7
<1>22. CASE DisplayRejects
  BY <1>22 DEF DisplayRejects, Step, rcVars
<1>23. CASE DisplaySignals
  <2>1. UNCHANGED <<rcVars, mutex, card_id, arg, card_id_str, log>>
    BY <1>23 DEF DisplaySignals
  <2>2. \/ pc.disp = "beep1" /\ pc' = [pc EXCEPT !.disp = "pause1"] /\ panel' = [panel EXCEPT !.beep = "high"]
        \/ pc.disp = "pause1" /\ pc' = [pc EXCEPT !.disp = "beep2"] /\ panel' = [panel EXCEPT !.beep = "low"]
        \/ pc.disp = "beep2" /\ pc' = [pc EXCEPT !.disp = "unlock"] /\ panel' = [panel EXCEPT !.beep = "high", !.green = "off"]
        \/ pc.disp = "fail" /\ pc' = [pc EXCEPT !.disp = "unlock"] /\ panel' = [panel EXCEPT !.beep = "high", !.red = "off"]
    BY <1>23 DEF DisplaySignals, Step
  <2>3. BootOrder' /\ MutexHeld'
    BY <2>1, <2>2 DEF rcVars
  <2>4. IdKnown' /\ TextKnown' /\ SentFromScans'
    BY <2>1, <2>2 DEF rcVars
  <2>5. Lights'
    <3>1. panel' = [panel EXCEPT !.beep = "high", !.green = "off"] => panel'.green = "off" /\ panel'.red = panel.red
      OBVIOUS
    <3>2. panel' = [panel EXCEPT !.beep = "high", !.red = "off"] => panel'.red = "off" /\ panel'.green = panel.green
      OBVIOUS
    <3> QED BY <2>2, <3>1, <3>2
  <2>6. SuccessOnlyIfScanned'
    BY <2>1, <2>2
  <2> QED BY <2>3, <2>4, <2>5, <2>6
<1>24. CASE DisplayUnlocks
  BY <1>24 DEF DisplayUnlocks, Gives, Step, Cleared, NoNumber, rcVars
<1>25. CASE TcpListens
  BY <1>25 DEF TcpListens, Step, rcVars
<1>26. CASE TcpLocks
  BY <1>26 DEF TcpLocks, Takes, Step, rcVars
<1>27. CASE TcpClears
  BY <1>27 DEF TcpClears, Step, Cleared, rcVars
<1>28. CASE TcpFormatsHead
  BY <1>28, <1>b DEF TcpFormatsHead, FormatsHead, Step, rcVars
<1>29. CASE TcpFormatsTail
  BY <1>29, <1>b DEF TcpFormatsTail, Dead, Step, NoNumber, rcVars
<1>30. CASE TcpSends
  BY <1>30 DEF TcpSends, Step, rcVars
<1>31. CASE TcpSendReturns
  BY <1>31 DEF TcpSendReturns, Step, Cleared, rcVars
<1>32. CASE TcpUnlocks
  BY <1>32 DEF TcpUnlocks, Gives, Step, rcVars
<1>33. CASE Reboot
  BY <1>33 DEF Reboot, PCsAtReset, ArgsAtReset, PanelAtReset, LogAtReset, Cleared, NoNumber
<1>34. CASE ReaderStep /\ UNCHANGED appVars
  BY <1>34, ReaderStepTask DEF appVars
<1>35. CASE UNCHANGED vars
  BY <1>35 DEF vars, appVars, rcVars
<1> QED BY <1>1, <1>2, <1>3, <1>4, <1>5, <1>6, <1>7, <1>8, <1>9, <1>10, <1>11, <1>12, <1>13, <1>14, <1>15, <1>16, <1>17, <1>18, <1>19, <1>20, <1>21, <1>22, <1>23, <1>24, <1>25, <1>26, <1>27, <1>28, <1>29, <1>30, <1>31, <1>32, <1>33, <1>34, <1>35, NextCases

(* The inductive invariant holds of the device in every reachable state, through
   crashes and resets (main.c, rc522.c, gpio_bl.c).                         *)
THEOREM DeviceInvariant == Spec => []DeviceInv
<1>1. Init => DeviceInv
  <2> SUFFICES ASSUME Init PROVE DeviceInv
    OBVIOUS
  <2>1. Rc522TypeOK
    BY HeapIsNat DEF Init, Rc522Init, Rc522TypeOK, ResAtReset, CallerAtReset,
                     CallPCs, Calls, Errors, TaskPCs, MaxReports
  <2>2. NotCreated /\ Destroying /\ SetUp /\ Late /\ Remembered
    BY DEF Init, Rc522Init, CallerAtReset, NotCreated, Destroying, SetUp, Late, Remembered, Returned
  <2>3. TypeOK
    BY <2>1 DEF Init, AppInit, PCsAtReset, ArgsAtReset, PanelAtReset, LogAtReset, NoNumber, Cleared,
                TypeOK, PCs, DisplayCS, SignalPCs, TcpCS, Text, Number, Id
  <2>4. BootOrder /\ IdKnown /\ MutexHeld
    BY DEF Init, Rc522Init, AppInit, PCsAtReset, BootOrder, IdKnown, MutexHeld, Idle, DisplayCS, SignalPCs, TcpCS
  <2>5. TextKnown /\ SentFromScans /\ Lights /\ SuccessOnlyIfScanned
    BY DEF Init, AppInit, PCsAtReset, PanelAtReset, LogAtReset, Cleared,
           TextKnown, SentFromScans, Lights, SuccessOnlyIfScanned
  <2> QED BY <2>1, <2>2, <2>3, <2>4, <2>5 DEF DeviceInv, DriverInv
<1> QED BY <1>1, DeviceInvStep, PTL DEF Spec

(* Type correctness of the whole device, through crashes and reboots. *)
THEOREM DeviceTypeCorrect == Spec => []TypeOK
<1>1. DeviceInv => TypeOK
  BY DEF DeviceInv
<1> QED BY <1>1, DeviceInvariant, PTL

(* The mutex is held exactly while its holder is between take and give, and never
   asked for before it exists, whatever order the scheduler boots the threads in. *)
THEOREM MutexSafe == Spec => []MutexDiscipline
<1>1. DeviceInv => MutexDiscipline
  BY DEF DeviceInv, BootOrder, Idle, MutexDiscipline, MutexCreated
<1> QED BY <1>1, DeviceInvariant, PTL

(* A success signal is for a registered card scanned since the reset, although
   card_id is written and read by threads that do not exclude each other.   *)
THEOREM SuccessSafe == Spec => []SuccessOnlyIfScanned
<1>1. DeviceInv => SuccessOnlyIfScanned
  BY DEF DeviceInv
<1> QED BY <1>1, DeviceInvariant, PTL

(* Every digit sent is a scanned card's, although display_task writes card_id_str
   while tcp_client_task sends it.                                          *)
THEOREM SentSafe == Spec => []SentFromScans
<1>1. DeviceInv => SentFromScans
  BY DEF DeviceInv
<1> QED BY <1>1, DeviceInvariant, PTL

(* The LEDs are off whenever the display task waits for a card. *)
THEOREM LedsSafe == Spec => []LedsOffAtRest
<1>1. DeviceInv => LedsOffAtRest
  BY DEF DeviceInv, Lights, MutexHeld, LedsOffAtRest, DisplayCS, SignalPCs
<1> QED BY <1>1, DeviceInvariant, PTL

-----------------------------------------------------------------------------
(* The steps that neither handle a card nor send are none of the reporter's. *)
LEMMA QuietSteps ==
  ASSUME MainCreatesInit \/ MainCreatesTcp \/ MainCreatesDisplay \/ InitGpio
         \/ InitMutex \/ InitReader \/ InitRegisters \/ InitEnds \/ HandlerStoresSecond
         \/ HandlerNotifiesDisplay \/ HandlerNotifiesTcp \/ HandlerEnds
         \/ DisplayListens \/ DisplayLoadsId \/ DisplayFormatsHead
         \/ DisplayFormatsTail \/ DisplayDraws \/ DisplayLocks \/ DisplayTimesOut
         \/ DisplaySignals \/ TcpListens \/ TcpLocks \/ TcpClears \/ TcpFormatsHead
         \/ TcpFormatsTail \/ TcpUnlocks
  PROVE  UNCHANGED log
  BY  DEF MainCreatesInit, MainCreatesTcp, MainCreatesDisplay, InitGpio, InitMutex,
          InitReader, InitRegisters, InitEnds, HandlerStoresSecond,
          HandlerNotifiesDisplay, HandlerNotifiesTcp, HandlerEnds, DisplayListens,
          DisplayLoadsId, DisplayFormatsHead, DisplayFormatsTail, DisplayDraws,
          DisplayLocks, DisplayTimesOut, DisplaySignals, TcpListens, TcpLocks,
          TcpClears, TcpFormatsHead, TcpFormatsTail, TcpUnlocks

(* Each step of the device is a step of Reporter or leaves its variables alone. *)
LEMMA ReporterStep ==
  ASSUME DeviceInv, Next \/ UNCHANGED vars
  PROVE  R!ReporterNext \/ UNCHANGED R!reporterVars
<1>0. /\ TypeOK /\ IdKnown /\ TextKnown
      /\ log \in [scanned : SUBSET Card, judged : Number, sent : Text]
      /\ card_id_str \in Text /\ Blank \notin Number
  BY CheckInAssumption DEF DeviceInv, TypeOK, CheckInAssumption
<1>1. CASE UNCHANGED log
  BY <1>1 DEF R!reporterVars
<1>2. CASE HandlerStoresFirst
  <2>1. log'.scanned = log.scanned \cup {tag} /\ log'.sent = log.sent /\ tag \in Card
    BY <1>0, <1>2 DEF HandlerStoresFirst, HandlerStep, IdKnown
  <2> QED BY <2>1 DEF R!ReporterNext, R!Scan
<1>3. CASE DisplayAccepts \/ DisplayRejects \/ DisplayUnlocks
  BY <1>0, <1>3 DEF DisplayAccepts, DisplayRejects, DisplayUnlocks, R!reporterVars
<1>4. CASE TcpSends
  <2>1. pc.tcp = "send" /\ log'.sent = card_id_str /\ log'.scanned = log.scanned
    BY <1>0, <1>4 DEF TcpSends, Step
  <2>2. log.sent = Cleared
    BY <1>0, <2>1 DEF TextKnown
  <2>3. /\ card_id_str.head \in Number /\ card_id_str.tail \in Number
        /\ Known(card_id_str.head) /\ Known(card_id_str.tail)
    BY <1>0, <2>1 DEF TextKnown, Text
  <2>4. card_id_str \in R!Texts(log.scanned)
    BY <1>0, <2>3 DEF R!Texts, R!Numbers, Known, Number, Text
  <2> QED BY <2>1, <2>2, <2>4 DEF R!ReporterNext, R!Send
<1>5. CASE TcpSendReturns
  <2>1. log'.sent = Cleared /\ log'.scanned = log.scanned
    BY <1>0, <1>5 DEF TcpSendReturns
  <2> QED BY <2>1 DEF R!ReporterNext, R!Finish, R!reporterVars
<1>6. CASE Reboot
  BY <1>6 DEF Reboot, LogAtReset, R!ReporterNext, R!Reset
<1> QED BY <1>1, <1>2, <1>3, <1>4, <1>5, <1>6, NextCases, QuietSteps DEF vars, appVars

(* The device keeps the promise the server's model relies on: one string at a
   time, of digits of cards scanned since the last reset.                   *)
THEOREM DeviceImplementsReporter == Spec => ImplementsReporter
<1>1. Init => R!ReporterInit
  BY DEF Init, AppInit, LogAtReset, R!ReporterInit
<1>2. DeviceInv /\ [Next]_vars => [R!ReporterNext]_(R!reporterVars)
  BY ReporterStep
<1> QED BY <1>1, <1>2, DeviceInvariant, PTL DEF Spec, ImplementsReporter, R!ReporterSpec

=============================================================================
