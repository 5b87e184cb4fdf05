------------------------------- MODULE CheckIn -------------------------------
(***************************************************************************)
(* The firmware of the campus check-in device (main/main.c, gpio_bl.c).    *)
(*                                                                         *)
(* rc522_task (module Rc522) runs rc522_handler, which stores the serial   *)
(* number in the global card_id and notifies two tasks: display_task draws *)
(* it and signals the verdict, tcp_client_task sends it to the server.     *)
(* Both format it into the one buffer card_id_str, tcp_client_task under   *)
(* the mutex and display_task without it.  The ESP32 has two cores and     *)
(* card_id two words, so a store of card_id and a sprintf are two steps    *)
(* here.  A load of card_id is one: whichever half is stored first, a load *)
(* between the two stores already reads each mixture.                      *)
(***************************************************************************)
EXTENDS Rc522

CONSTANTS Zero,        \* the value 0 of card_id before any scan
          HiHalf,      \* the upper word of a serial number: its check byte
          Registered,  \* the cards in card_correct_id, whose other entries are 0
          Blank        \* a part of card_id_str that memset has cleared

Id     == Card \cup {Zero}
Number == [hi : Id, lo : Id]

(* A serial number is four bytes and their check byte (rc522_sn_to_u64), so two
   cards never share the low word and the low word can stand for the card.  *)
ASSUME CheckInAssumption ==
    /\ Zero \notin Card \cup {NoCard}
    /\ HiHalf \in [Id -> Nat]
    /\ HiHalf[Zero] = 0
    /\ Registered \subseteq Card
    /\ Blank \notin Number

VARIABLES pc,           \* where each thread is; "handler" runs while task = "handler"
          mutex,        \* its holder, or "free", or "null" before it is created
          card_id,      \* the serial numbers its two words come from
          arg,          \* the card_id each task's sprintf was called with
          card_id_str,  \* the numbers its first and its last digits come from
          panel,        \* the two LEDs and the level of the buzzer's pin
          log           \* the cards handled since the reset, and of the pass under way
                        \* the number judged and the string sent

appVars == <<pc, mutex, card_id, arg, card_id_str, panel, log>>
vars == <<rcVars, appVars>>

Text == [head : Number \cup {Blank}, tail : Number \cup {Blank}]

SignalPCs == {"beep1", "pause1", "beep2", "fail"}
DisplayCS == SignalPCs \cup {"judge", "unlock"}
TcpCS     == {"clear", "head", "tail", "send", "sending", "unlock"}

PCs == [main    : {"init", "tcp", "display", "done"},
        init    : {"none", "gpio", "mutex", "create", "register", "start", "end", "gone"},
        handler : {"store", "store_hi", "store_lo", "display", "tcp", "return"},
        disp    : DisplayCS \cup {"none", "setup", "blocked", "clear", "head", "tail", "draw", "lock", "delay"},
        tcp     : TcpCS \cup {"none", "setup", "blocked", "lock", "delay"}]

(* The values of main.h's globals, of where the threads are and of the record. *)
TypeOK ==
    /\ Rc522TypeOK
    /\ pc \in PCs
    /\ mutex \in {"null", "free", "disp", "tcp"}
    /\ card_id \in Number
    /\ arg \in [disp : Number, tcp : Number]
    /\ card_id_str \in Text
    /\ panel \in [green : {"on", "off"}, red : {"on", "off"}, beep : {"float", "low", "high"}]
    /\ log \in [scanned : SUBSET Card, judged : Number, sent : Text]

NoNumber == [hi |-> Zero, lo |-> Zero]
Cleared  == [head |-> Blank, tail |-> Blank]

PCsAtReset   == [main |-> "init", init |-> "none", handler |-> "store", disp |-> "none", tcp |-> "none"]
ArgsAtReset  == [disp |-> NoNumber, tcp |-> NoNumber]
PanelAtReset == [green |-> "off", red |-> "off", beep |-> "float"]
LogAtReset   == [scanned |-> {}, judged |-> NoNumber, sent |-> Cleared]

(* Reset: statics at their initial values, pins not driven. *)
AppInit ==
    /\ pc = PCsAtReset
    /\ mutex = "null"
    /\ card_id = NoNumber
    /\ arg = ArgsAtReset
    /\ card_id_str = Cleared
    /\ panel = PanelAtReset
    /\ log = LogAtReset

(* A card may lie on the reader when the device is switched on. *)
Init == Rc522Init /\ field \in Card \cup {NoCard} /\ AppInit

Step(t, from, to) == pc[t] = from /\ pc' = [pc EXCEPT ![t] = to]

(* abort(): an ESP_ERROR_CHECK or configASSERT fails, or a task returns. *)
Abort == Crash /\ UNCHANGED appVars

-----------------------------------------------------------------------------
(* app_main and init_task.                                                  *)

MainCreatesInit ==
    /\ pc.main = "init" /\ pc' = [pc EXCEPT !.main = "tcp", !.init = "gpio"]
    /\ UNCHANGED <<rcVars, mutex, card_id, arg, card_id_str, panel, log>>

MainCreatesTcp ==
    /\ pc.main = "tcp" /\ pc' = [pc EXCEPT !.main = "display", !.tcp = "setup"]
    /\ UNCHANGED <<rcVars, mutex, card_id, arg, card_id_str, panel, log>>

MainCreatesDisplay ==
    /\ pc.main = "display" /\ pc' = [pc EXCEPT !.main = "done", !.disp = "setup"]
    /\ UNCHANGED <<rcVars, mutex, card_id, arg, card_id_str, panel, log>>

(* gpio_bl_init takes ESP_OK for a failure: when gpio_config succeeds the pins are
   outputs at the level of a reset register and none of the three gpio_set_level
   calls is reached; when it fails they are, and switch the buzzer off.      *)
InitGpio ==
    /\ Step("init", "gpio", "mutex")
    /\ \E level \in {"low", "high"} : panel' = [panel EXCEPT !.beep = level]
    /\ UNCHANGED <<rcVars, mutex, card_id, arg, card_id_str, log>>

InitMutex ==
    /\ Step("init", "mutex", "create")
    /\ mutex' = "free"
    /\ UNCHANGED <<rcVars, card_id, arg, card_id_str, panel, log>>

(* init_task ignores what the driver's calls return. *)
InitReader ==
    /\ \/ Step("init", "create", "register") /\ (Create \/ CreateBusFails \/ CreateFails)
       \/ Step("init", "start", "end") /\ (StartFirst \/ StartTestFails \/ NullHandle("start"))
    /\ UNCHANGED <<mutex, card_id, arg, card_id_str, panel, log>>

InitReaderFails == pc.init = "start" /\ StartReadFails /\ UNCHANGED appVars

InitDestroys == DestroySteps /\ UNCHANGED appVars

(* rc522_register_events. *)
InitRegisters ==
    /\ Step("init", "register", "start")
    /\ UNCHANGED <<rcVars, mutex, card_id, arg, card_id_str, panel, log>>

(* rc522_start has returned: the task waits 500 ms and deletes itself. *)
InitEnds ==
    /\ Returned /\ Step("init", "end", "gone")
    /\ UNCHANGED <<rcVars, mutex, card_id, arg, card_id_str, panel, log>>

BootNext ==
    \/ MainCreatesInit \/ MainCreatesTcp \/ MainCreatesDisplay
    \/ InitGpio \/ InitMutex \/ InitReader \/ InitReaderFails \/ InitDestroys
    \/ InitRegisters \/ InitEnds

-----------------------------------------------------------------------------
(* rc522_task and rc522_handler.                                            *)

ReaderRuns == (TaskRuns \/ TransferFails \/ TaskCrashes \/ TaskUseAfterFree) /\ UNCHANGED appVars

HandlerStep(from, to) == task = "handler" /\ Step("handler", from, to)

(* card_id is 64 bits wide on a 32-bit core: two stores, in the order the
   compiler chose.                                                          *)
HandlerStoresFirst ==
    /\ \/ HandlerStep("store", "store_lo") /\ card_id' = [card_id EXCEPT !.hi = tag]
       \/ HandlerStep("store", "store_hi") /\ card_id' = [card_id EXCEPT !.lo = tag]
    /\ log' = [log EXCEPT !.scanned = @ \cup {tag}]
    /\ UNCHANGED <<rcVars, mutex, arg, card_id_str, panel>>

HandlerStoresSecond ==
    /\ \/ HandlerStep("store_lo", "display") /\ card_id' = [card_id EXCEPT !.lo = tag]
       \/ HandlerStep("store_hi", "display") /\ card_id' = [card_id EXCEPT !.hi = tag]
    /\ UNCHANGED <<rcVars, mutex, arg, card_id_str, panel, log>>

(* xTaskNotifyFromISR(.., eNoAction, ..) leaves the task's notification value at
   0, so it wakes the task if that is blocked in ulTaskNotifyTake at this moment
   and is forgotten otherwise: the next ulTaskNotifyTake finds 0 and blocks.  *)
Notified(t, to) == IF pc[t] = "blocked" THEN to ELSE pc[t]

HandlerNotifiesDisplay ==
    /\ task = "handler" /\ pc.handler = "display" /\ pc.disp # "none"
    /\ pc' = [pc EXCEPT !.handler = "tcp", !.disp = Notified("disp", "clear")]
    /\ UNCHANGED <<rcVars, mutex, card_id, arg, card_id_str, panel, log>>

HandlerNotifiesTcp ==
    /\ task = "handler" /\ pc.handler = "tcp" /\ pc.tcp # "none"
    /\ pc' = [pc EXCEPT !.handler = "return", !.tcp = Notified("tcp", "lock")]
    /\ UNCHANGED <<rcVars, mutex, card_id, arg, card_id_str, panel, log>>

(* configASSERT of a null task handle: app_main has not created the task. *)
HandlerNotifiesNull ==
    /\ task = "handler" /\ pc.handler = "display" /\ pc.disp = "none"
    /\ Abort

HandlerEnds ==
    /\ Step("handler", "return", "store")
    /\ HandlerReturns
    /\ UNCHANGED <<mutex, card_id, arg, card_id_str, panel, log>>

ReaderNext ==
    \/ ReaderRuns \/ HandlerStoresFirst \/ HandlerStoresSecond \/ HandlerNotifiesDisplay
    \/ HandlerNotifiesTcp \/ HandlerNotifiesNull \/ HandlerEnds

-----------------------------------------------------------------------------
(* What both tasks do.                                                      *)

(* xSemaphoreTake of a free mutex.  Taking a null one is a configASSERT. *)
Takes(t, to) == mutex = "free" /\ Step(t, "lock", to) /\ mutex' = t

Gives(t) == Step(t, "unlock", "delay") /\ mutex' = "free"

(* An argument is dead once its sprintf has returned. *)
Dead(t) == arg' = [arg EXCEPT ![t] = NoNumber]

(* The two halves of sprintf(card_id_str, "%llu", card_id). *)
FormatsHead(t) == Step(t, "head", "tail") /\ card_id_str' = [card_id_str EXCEPT !.head = arg[t]]

(* card_id_judge: the number is in the table, in which the unused entries are 0. *)
card_id_judge(n) == \E c \in Registered \cup {Zero} : n.lo = c /\ HiHalf[n.hi] = HiHalf[c]

-----------------------------------------------------------------------------
(* display_task.                                                            *)

(* A slip for DisplayListens: the first pass does not wait. *)
DisplayDoesNotListen ==
    /\ Step("disp", "setup", "clear") \/ Step("disp", "delay", "blocked")
    /\ UNCHANGED <<rcVars, mutex, card_id, arg, card_id_str, panel, log>>

(* The OLED's setup or the delay is over; ulTaskNotifyTake blocks. *)
DisplayListens ==
    /\ Step("disp", "setup", "blocked") \/ Step("disp", "delay", "blocked")
    /\ UNCHANGED <<rcVars, mutex, card_id, arg, card_id_str, panel, log>>

(* A slip for DisplayLoadsId: the buffer is cleared as tcp_client_task does. *)
DisplayClearsBuffer ==
    /\ Step("disp", "clear", "head")
    /\ card_id_str' = Cleared
    /\ arg' = [arg EXCEPT !.disp = card_id]
    /\ UNCHANGED <<rcVars, mutex, card_id, panel, log>>

DisplayLoadsId ==
    /\ Step("disp", "clear", "head")
    /\ arg' = [arg EXCEPT !.disp = card_id]
    /\ UNCHANGED <<rcVars, mutex, card_id, card_id_str, panel, log>>

DisplayFormatsHead ==
    /\ FormatsHead("disp")
    /\ UNCHANGED <<rcVars, mutex, card_id, arg, panel, log>>

DisplayFormatsTail ==
    /\ Step("disp", "tail", "draw")
    /\ card_id_str' = [card_id_str EXCEPT !.tail = arg.disp]
    /\ Dead("disp")
    /\ UNCHANGED <<rcVars, mutex, card_id, panel, log>>

(* The number and two empty boxes, one of which the verdict will fill. *)
DisplayDraws ==
    /\ Step("disp", "draw", "lock")
    /\ UNCHANGED <<rcVars, mutex, card_id, arg, card_id_str, panel, log>>

DisplayLocks ==
    /\ Takes("disp", "judge")
    /\ UNCHANGED <<rcVars, card_id, arg, card_id_str, panel, log>>

(* Slips for DisplayTimesOut: the give is not inside the if; portMAX_DELAY. *)
DisplayGivesUntaken ==
    /\ mutex = "tcp" /\ pc.tcp = "sending"
    /\ Step("disp", "lock", "unlock")
    /\ UNCHANGED <<rcVars, mutex, card_id, arg, card_id_str, panel, log>>
DisplayWaitsForever == FALSE

(* 1000 ticks are 10 s.  Only a send that the network blocks can hold the mutex
   for so long; display_task itself holds it for half a second.             *)
DisplayTimesOut ==
    /\ mutex = "tcp" /\ pc.tcp = "sending"
    /\ Step("disp", "lock", "delay")
    /\ UNCHANGED <<rcVars, mutex, card_id, arg, card_id_str, panel, log>>

(* card_id is loaded again: it need not be the number on the screen. *)
DisplayAccepts ==
    /\ card_id_judge(card_id)
    /\ Step("disp", "judge", "beep1")
    /\ panel' = [panel EXCEPT !.green = "on", !.beep = "low"]
    /\ log' = [log EXCEPT !.judged = card_id]
    /\ UNCHANGED <<rcVars, mutex, card_id, arg, card_id_str>>

DisplayRejects ==
    /\ ~card_id_judge(card_id)
    /\ Step("disp", "judge", "fail")
    /\ panel' = [panel EXCEPT !.red = "on", !.beep = "low"]
    /\ log' = [log EXCEPT !.judged = card_id]
    /\ UNCHANGED <<rcVars, mutex, card_id, arg, card_id_str>>

(* The rest of card_success and of card_fail. *)
DisplaySignals ==
    /\ \/ Step("disp", "beep1", "pause1") /\ panel' = [panel EXCEPT !.beep = "high"]
       \/ Step("disp", "pause1", "beep2") /\ panel' = [panel EXCEPT !.beep = "low"]
       \/ Step("disp", "beep2", "unlock") /\ panel' = [panel EXCEPT !.beep = "high", !.green = "off"]
       \/ Step("disp", "fail", "unlock") /\ panel' = [panel EXCEPT !.beep = "high", !.red = "off"]
    /\ UNCHANGED <<rcVars, mutex, card_id, arg, card_id_str, log>>

DisplayUnlocks ==
    /\ Gives("disp")
    /\ log' = [log EXCEPT !.judged = NoNumber]
    /\ UNCHANGED <<rcVars, card_id, arg, card_id_str, panel>>

DisplayRuns ==
    \/ DisplayListens \/ DisplayLoadsId \/ DisplayFormatsHead \/ DisplayFormatsTail \/ DisplayDraws
    \/ DisplayTimesOut \/ DisplayAccepts \/ DisplayRejects \/ DisplaySignals \/ DisplayUnlocks

-----------------------------------------------------------------------------
(* tcp_client_task.                                                         *)

(* Connected, or 100 ms after the last record; ulTaskNotifyTake blocks. *)
TcpListens ==
    /\ Step("tcp", "setup", "blocked") \/ Step("tcp", "delay", "blocked")
    /\ UNCHANGED <<rcVars, mutex, card_id, arg, card_id_str, panel, log>>

(* The network does not come up, or the server does not answer: an
   ESP_ERROR_CHECK, or a return from the task, which is an abort as well.   *)
TcpSetupFails == pc.tcp = "setup" /\ Abort

TcpLocks ==
    /\ Takes("tcp", "clear")
    /\ UNCHANGED <<rcVars, card_id, arg, card_id_str, panel, log>>

TcpClears ==
    /\ Step("tcp", "clear", "head")
    /\ card_id_str' = Cleared
    /\ arg' = [arg EXCEPT !.tcp = card_id]
    /\ UNCHANGED <<rcVars, mutex, card_id, panel, log>>

TcpFormatsHead ==
    /\ FormatsHead("tcp")
    /\ UNCHANGED <<rcVars, mutex, card_id, arg, panel, log>>

TcpFormatsTail ==
    /\ Step("tcp", "tail", "send")
    /\ card_id_str' = [card_id_str EXCEPT !.tail = arg.tcp]
    /\ Dead("tcp")
    /\ UNCHANGED <<rcVars, mutex, card_id, panel, log>>

(* send copies the string; it may block for as long as the peer is silent. *)
TcpSends ==
    /\ Step("tcp", "send", "sending")
    /\ log' = [log EXCEPT !.sent = card_id_str]
    /\ UNCHANGED <<rcVars, mutex, card_id, arg, card_id_str, panel>>

(* A slip for TcpSendReturns: the string is sent once more. *)
TcpSendsAgain ==
    /\ Step("tcp", "sending", "send")
    /\ UNCHANGED <<rcVars, mutex, card_id, arg, card_id_str, panel, log>>

(* send returns. *)
TcpSendReturns ==
    /\ Step("tcp", "sending", "unlock")
    /\ log' = [log EXCEPT !.sent = Cleared]
    /\ UNCHANGED <<rcVars, mutex, card_id, arg, card_id_str, panel>>

(* send fails: the task returns with the mutex taken, and the return aborts. *)
TcpSendFails == pc.tcp = "sending" /\ Abort

TcpUnlocks ==
    /\ Gives("tcp")
    /\ UNCHANGED <<rcVars, card_id, arg, card_id_str, panel, log>>

TcpRuns ==
    \/ TcpListens \/ TcpClears \/ TcpFormatsHead \/ TcpFormatsTail \/ TcpSends \/ TcpUnlocks

TcpNext == TcpRuns \/ TcpLocks \/ TcpSendReturns \/ TcpSetupFails \/ TcpSendFails

-----------------------------------------------------------------------------
(* Cards come and go at any time, but the antenna's field matters only to a poll:
   here they move while rc522_task polls, as often as they like.            *)
People == task = "poll" /\ (Withdraw \/ \E c \in Card : Present(c)) /\ UNCHANGED appVars

(* The panic handler prints and resets the chip: all RAM is as at power-on. *)
Reboot ==
    /\ cpu = "panic"
    /\ mem' = "none" /\ flags' = {} /\ res' = ResAtReset /\ handle' = "null"
    /\ caller' = CallerAtReset /\ task' = "none" /\ tag' = NoCard
    /\ leaked' = 0 /\ reports' = 0 /\ late' = 0 /\ cpu' = "running"
    /\ pc' = PCsAtReset /\ mutex' = "null" /\ card_id' = NoNumber /\ arg' = ArgsAtReset
    /\ card_id_str' = Cleared /\ panel' = PanelAtReset /\ log' = LogAtReset
    /\ UNCHANGED field

Next ==
    \/ cpu = "running" /\ (BootNext \/ ReaderNext \/ DisplayRuns \/ DisplayLocks \/ TcpNext \/ People)
    \/ Reboot

Spec == Init /\ [][Next]_vars

(* FreeRTOS runs the two tasks whenever they are not blocked.  display_task, when it
   waits for the mutex, gets it if that is given again and again: the other task
   sleeps for 100 ms or more in between.  A send need not return, and a network
   need not come up; nothing is asked of the other threads.                   *)
FairSpec ==
    /\ Spec
    /\ WF_vars(cpu = "running" /\ DisplayRuns) /\ SF_vars(cpu = "running" /\ DisplayLocks)
    /\ WF_vars(cpu = "running" /\ TcpRuns)

-----------------------------------------------------------------------------
(* Safety.                                                                  *)

(* The mutex is held exactly while its holder is between take and give: it is
   never given by a task that does not hold it, and never left behind.      *)
MutexHeld ==
    /\ mutex = "disp" <=> pc.disp \in DisplayCS
    /\ mutex = "tcp" <=> pc.tcp \in TcpCS

(* A task asks for the mutex only after init_task has created it, although it is
   app_main that creates the tasks.                                         *)
MutexCreated == pc.disp = "lock" \/ pc.tcp = "lock" => mutex # "null"

(* main.c:53-134: from its creation on the mutex does what it is for. *)
MutexDiscipline == MutexHeld /\ MutexCreated

(* The green LED and the success signal are only ever given for a registered
   card that was scanned since the reset: neither the zeros that fill
   card_correct_id nor a mixture of two serial numbers is ever accepted.    *)
SuccessOnlyIfScanned ==
    pc.disp \in {"beep1", "pause1", "beep2"} =>
        \E c \in Registered \cap log.scanned : log.judged.lo = c

(* What is sent is never empty or cut short, and has no digit that does not come
   from a card scanned since the reset, although display_task writes into the
   buffer at any moment.                                                    *)
SentFromScans ==
    log.sent # Cleared =>
        \A part \in {log.sent.head, log.sent.tail} :
            part # Blank /\ {part.hi, part.lo} \subseteq log.scanned

(* The LEDs are off whenever no verdict is being signalled, whatever the other
   tasks do and however a signal ended.                                     *)
LedsOffAtRest == "on" \in {panel.green, panel.red} => mutex = "disp" /\ pc.disp \in SignalPCs

R == INSTANCE Reporter WITH Nothing <- Cleared, scanned <- log.scanned, sent <- log.sent

(* main.c:28-137, what the server may rely on: the device implements module Reporter. *)
ImplementsReporter == R!ReporterSpec

-----------------------------------------------------------------------------
(* Liveness.                                                                *)

(* display_task always returns to where it can be notified, even if the network
   never lets tcp_client_task finish its send.                              *)
DisplayListensAgain == pc.disp = "clear" ~> pc.disp = "blocked" \/ cpu = "panic"

=============================================================================
