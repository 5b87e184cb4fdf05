-------------------------------- MODULE Rc522 --------------------------------
(***************************************************************************)
(* The RFID reader driver of the check-in device (components/rc522).       *)
(*                                                                         *)
(* Two threads share one heap-allocated struct rc522: the caller, which    *)
(* runs rc522_create, _start, _pause and _destroy, and rc522_task, which   *)
(* polls the chip and runs the event handler.  Nothing locks the struct.   *)
(* Register traffic is abstracted to its outcome: a poll sees a card or    *)
(* not, the read/write test passes or not, a failed read is a null         *)
(* dereference (rc522_read does not look at the buffer it gets back).      *)
(***************************************************************************)
EXTENDS Naturals

CONSTANTS Card,         \* the cards people hold to the reader
          NoCard,       \* nothing in the field, or no tag read
          BusByUser,    \* config->spi.bus_is_initialized
          Misses,       \* whether a poll may fail to see a card in the field
          HeapBlocks    \* serial-number arrays the heap can lose before malloc fails

ASSUME Rc522Assumption ==
    /\ NoCard \notin Card
    /\ BusByUser \in BOOLEAN
    /\ Misses \in BOOLEAN
    /\ HeapBlocks \in Nat \ {0}

VARIABLES mem,     \* struct rc522 and its config: "none", "live" or "freed"
          flags,   \* the fields of the struct that are true; "present" is tag_was_present_last_time
          res,     \* what the driver took from the SDK: SPI bus, SPI device, event loop
          handle,  \* the caller's *out_rc522: "null" or "set"
          caller,  \* the calling thread: the API call it is in or last returned from
          task,    \* where rc522_task is
          tag,     \* the tag of the event being dispatched
          leaked,  \* serial-number arrays nobody points to any more
          field,   \* the card in front of the antenna
          reports, \* how often the card in the field was taken for a new one
          late,    \* handler runs since rc522_pause returned
          cpu      \* "running", or "panic" after an exception or abort: nothing runs then

rcVars == <<mem, flags, res, handle, caller, task, tag, leaked, field, reports, late, cpu>>

TaskPCs == {"none", "loop", "poll", "dispatch", "handler", "mark", "delay", "gone"}
CallPCs == {"idle", "transport", "event_loop", "free"}
Calls   == {"none", "create", "start", "pause", "destroy"}
Errors  == {"ok", "err"}

(* reports stops counting here: one above what OncePerPlacement allows. *)
MaxReports == 2

(* The values of struct rc522, its resources, the two threads and the field. *)
Rc522TypeOK ==
    /\ mem \in {"none", "live", "freed"}
    /\ flags \in SUBSET {"running", "scanning", "initialized", "present"}
    /\ res \in SUBSET {"bus", "device", "loop"}
    /\ handle \in {"null", "set"}
    /\ caller \in [pc : CallPCs, call : Calls, err : Errors]
    /\ task \in TaskPCs
    /\ tag \in Card \cup {NoCard}
    /\ leaked \in 0 .. HeapBlocks
    /\ field \in Card \cup {NoCard}
    /\ reports \in 0 .. MaxReports
    /\ late \in Nat
    /\ cpu \in {"running", "panic"}

ResAtReset    == IF BusByUser THEN {"bus"} ELSE {}
CallerAtReset == [pc |-> "idle", call |-> "none", err |-> "ok"]

(* The driver's part of a machine that has just been reset. *)
Rc522Init ==
    /\ mem = "none"
    /\ flags = {}
    /\ res = ResAtReset
    /\ handle = "null"
    /\ caller = CallerAtReset
    /\ task = "none"
    /\ tag = NoCard
    /\ leaked = 0
    /\ reports = 0
    /\ late = 0
    /\ cpu = "running"

-----------------------------------------------------------------------------
(* The calling thread.                                                      *)

Returned == caller.pc = "idle"
Return(call, err) == caller' = [pc |-> "idle", call |-> call, err |-> err]

(* rc522_create: the struct, the transport, the event loop, then the task,
   which finds running already set.                                         *)
Create ==
    /\ Returned /\ mem = "none"
    /\ mem' = "live"
    /\ flags' = {"running"}
    /\ res' = {"bus", "device", "loop"}
    /\ task' = "loop"
    /\ handle' = "set"
    /\ Return("create", "ok")
    /\ UNCHANGED <<tag, leaked, field, reports, late, cpu>>

(* A later step of rc522_create fails and rc522_destroy undoes the rest before
   any other thread knows the struct.  A bus the driver initialised stays
   initialised, and when it is xTaskCreate that failed ret is still ESP_OK. *)
CreateFails ==
    /\ Returned /\ mem = "none"
    /\ mem' = "freed"
    /\ res' = IF BusByUser THEN {} ELSE {"bus"}
    /\ \E err \in Errors : Return("create", err)
    /\ UNCHANGED <<flags, handle, task, tag, leaked, field, reports, late, cpu>>

(* spi_bus_initialize fails: nothing was taken. *)
CreateBusFails ==
    /\ Returned /\ mem = "none" /\ ~BusByUser
    /\ mem' = "freed"
    /\ Return("create", "err")
    /\ UNCHANGED <<flags, res, handle, task, tag, leaked, field, reports, late, cpu>>

(* rc522_start, rc522_pause and rc522_destroy given the handle that a failed
   rc522_create left null.                                                  *)
NullHandle(call) ==
    /\ Returned /\ handle = "null" /\ mem # "none"
    /\ Return(call, IF call = "destroy" THEN "ok" ELSE "err")
    /\ UNCHANGED <<mem, flags, res, handle, task, tag, leaked, field, reports, late, cpu>>

(* rc522_start that only sets scanning, or finds it set. *)
Resume ==
    /\ Returned /\ handle = "set" /\ mem = "live"
    /\ "scanning" \in flags \/ "initialized" \in flags
    /\ flags' = flags \cup {"scanning"}
    /\ late' = 0
    /\ Return("start", "ok")
    /\ UNCHANGED <<mem, res, handle, task, tag, leaked, field, reports, cpu>>

(* The first rc522_start: the read/write test passes and the chip is set up.*)
StartFirst ==
    /\ Returned /\ handle = "set" /\ mem = "live"
    /\ "scanning" \notin flags /\ "initialized" \notin flags
    /\ flags' = flags \cup {"initialized", "scanning"}
    /\ late' = 0
    /\ Return("start", "ok")
    /\ UNCHANGED <<mem, res, handle, task, tag, leaked, field, reports, cpu>>

(* rc522_destroy up to the point where the task is told to stop. *)
BeginDestroy(call, err) ==
    /\ flags' = flags \ {"scanning", "running"}
    /\ caller' = [pc |-> "transport", call |-> call, err |-> err]

(* The read/write test fails.  rc522_start destroys the driver and returns
   the error of the last write: ESP_OK when only the value read back was
   wrong.                                                                   *)
StartTestFails ==
    /\ Returned /\ handle = "set" /\ mem = "live"
    /\ "scanning" \notin flags /\ "initialized" \notin flags
    /\ \E err \in Errors : BeginDestroy("start", err)
    /\ UNCHANGED <<mem, res, handle, task, tag, leaked, field, reports, late, cpu>>

Pause ==
    /\ Returned /\ handle = "set" /\ mem = "live"
    /\ flags' = flags \ {"scanning"}
    /\ late' = IF "scanning" \in flags THEN 0 ELSE late
    /\ Return("pause", "ok")
    /\ UNCHANGED <<mem, res, handle, task, tag, leaked, field, reports, cpu>>

(* rc522_destroy called by a thread other than rc522_task, which it refuses.*)
Destroy ==
    /\ Returned /\ handle = "set" /\ mem = "live"
    /\ BeginDestroy("destroy", "ok")
    /\ UNCHANGED <<mem, res, handle, task, tag, leaked, field, reports, late, cpu>>

(* rc522_destroy_transport: the device goes, and the bus if the USER set it up. *)
DestroyTransport ==
    /\ caller.pc = "transport"
    /\ res' = res \ (IF BusByUser THEN {"device", "bus"} ELSE {"device"})
    /\ caller' = [caller EXCEPT !.pc = "event_loop"]
    /\ UNCHANGED <<mem, flags, handle, task, tag, leaked, field, reports, late, cpu>>

(* A slip for DestroyEventLoop: a loop deleted without its mutex. *)
DestroyEventLoopAtOnce ==
    /\ caller.pc = "event_loop"
    /\ res' = res \ {"loop"}
    /\ caller' = [caller EXCEPT !.pc = "free"]
    /\ UNCHANGED <<mem, flags, handle, task, tag, leaked, field, reports, late, cpu>>

(* esp_event_loop_delete takes the loop's mutex: it waits for a running handler. *)
DestroyEventLoop ==
    /\ caller.pc = "event_loop" /\ task # "handler"
    /\ res' = res \ {"loop"}
    /\ caller' = [caller EXCEPT !.pc = "free"]
    /\ UNCHANGED <<mem, flags, handle, task, tag, leaked, field, reports, late, cpu>>

(* free(config); free(rc522), and the outermost call returns. *)
DestroyFree ==
    /\ caller.pc = "free"
    /\ mem' = "freed"
    /\ caller' = [caller EXCEPT !.pc = "idle"]
    /\ UNCHANGED <<flags, res, handle, task, tag, leaked, field, reports, late, cpu>>

DestroySteps == DestroyTransport \/ DestroyEventLoop \/ DestroyFree

Crash ==
    /\ cpu' = "panic"
    /\ UNCHANGED <<mem, flags, res, handle, caller, task, tag, leaked, field, reports, late>>

(* The read/write test reads a register and the SPI transfer fails. *)
StartReadFails ==
    /\ Returned /\ handle = "set" /\ mem = "live"
    /\ "scanning" \notin flags /\ "initialized" \notin flags
    /\ Crash

(* A call through a handle whose struct is gone. *)
StaleHandle == Returned /\ handle = "set" /\ mem = "freed" /\ Crash

-----------------------------------------------------------------------------
(* rc522_task.                                                              *)

TaskStep(from, to) == task = from /\ mem = "live" /\ task' = to

(* A slip for LoopScanning: the test of scanning left out. *)
LoopAlwaysScanning ==
    /\ TaskStep("loop", "poll")
    /\ "running" \in flags
    /\ UNCHANGED <<mem, flags, res, handle, caller, tag, leaked, field, reports, late, cpu>>

(* while(running), and the scanning test.  A task that finds the driver paused
   sleeps and looks again.                                                  *)
LoopScanning ==
    /\ TaskStep("loop", "poll")
    /\ "running" \in flags /\ "scanning" \in flags
    /\ UNCHANGED <<mem, flags, res, handle, caller, tag, leaked, field, reports, late, cpu>>

LoopStopped ==
    /\ TaskStep("loop", "gone")
    /\ "running" \notin flags
    /\ UNCHANGED <<mem, flags, res, handle, caller, tag, leaked, field, reports, late, cpu>>

CanPoll == "device" \in res /\ leaked < HeapBlocks

(* rc522_get_tag returns NULL: nothing there, or the card did not answer. *)
PollNone ==
    /\ TaskStep("poll", "delay") /\ CanPoll
    /\ field = NoCard \/ Misses
    /\ flags' = flags \ {"present"}
    /\ UNCHANGED <<mem, res, handle, caller, tag, leaked, field, reports, late, cpu>>

(* A slip for PollNew: the event is not dispatched. *)
PollNewSilent ==
    /\ TaskStep("poll", "mark") /\ CanPoll
    /\ field # NoCard /\ "present" \notin flags
    /\ reports' = IF reports = MaxReports THEN reports ELSE reports + 1
    /\ UNCHANGED <<mem, flags, res, handle, caller, tag, leaked, field, late, cpu>>

(* A serial number after a poll without one: a scan. *)
PollNew ==
    /\ TaskStep("poll", "dispatch") /\ CanPoll
    /\ field # NoCard /\ "present" \notin flags
    /\ tag' = field
    /\ reports' = IF reports = MaxReports THEN reports ELSE reports + 1
    /\ UNCHANGED <<mem, flags, res, handle, caller, leaked, field, late, cpu>>

(* A serial number after another: whichever card it is, it is no scan, and the
   array rc522_anticoll allocated for it is never freed.                    *)
PollAgain ==
    /\ TaskStep("poll", "delay") /\ CanPoll
    /\ field # NoCard /\ "present" \in flags
    /\ leaked' = leaked + 1
    /\ UNCHANGED <<mem, flags, res, handle, caller, tag, field, reports, late, cpu>>

(* rc522_dispatch_event posts to the queue of one and runs the loop itself. *)
Dispatch ==
    /\ TaskStep("dispatch", "handler") /\ "loop" \in res
    /\ late' = IF "scanning" \in flags \/ caller.call # "pause" THEN late ELSE late + 1
    /\ UNCHANGED <<mem, flags, res, handle, caller, tag, leaked, field, reports, cpu>>

HandlerReturns ==
    /\ TaskStep("handler", "mark")
    /\ tag' = NoCard
    /\ UNCHANGED <<mem, flags, res, handle, caller, leaked, field, reports, late, cpu>>

(* A slip for MarkPresent: tag_was_present_last_time not set. *)
MarkNothing ==
    /\ TaskStep("mark", "delay")
    /\ UNCHANGED <<mem, flags, res, handle, caller, tag, leaked, field, reports, late, cpu>>

MarkPresent ==
    /\ TaskStep("mark", "delay")
    /\ flags' = flags \cup {"present"}
    /\ UNCHANGED <<mem, res, handle, caller, tag, leaked, field, reports, late, cpu>>

ScanDelay ==
    /\ TaskStep("delay", "loop")
    /\ UNCHANGED <<mem, flags, res, handle, caller, tag, leaked, field, reports, late, cpu>>

(* A transfer of the poll fails and rc522_read follows its null buffer. *)
TransferFails == mem = "live" /\ task = "poll" /\ Crash

(* malloc returns NULL, a transfer goes to a removed device, or the event is
   posted to the null event loop.                                           *)
TaskCrashes ==
    /\ mem = "live"
    /\ \/ task = "poll" /\ ~CanPoll
       \/ task = "dispatch" /\ "loop" \notin res
    /\ Crash

(* rc522_task looks at the struct after it was freed: an exception, or, while
   the memory still reads as it was left, the end of the task.              *)
TaskUseAfterFree ==
    /\ mem = "freed"
    /\ \/ task \in {"loop", "poll", "dispatch", "mark", "delay"} /\ Crash
       \/ /\ task = "loop" /\ task' = "gone"
          /\ UNCHANGED <<mem, flags, res, handle, caller, tag, leaked, field, reports, late, cpu>>

TaskRuns == LoopScanning \/ LoopStopped \/ PollNone \/ PollNew \/ PollAgain
                \/ Dispatch \/ MarkPresent \/ ScanDelay

-----------------------------------------------------------------------------
(* People and cards.                                                        *)

Present(c) ==
    /\ field = NoCard /\ c \in Card
    /\ field' = c /\ reports' = 0
    /\ UNCHANGED <<mem, flags, res, handle, caller, task, tag, leaked, late, cpu>>

Withdraw ==
    /\ field # NoCard
    /\ field' = NoCard
    /\ UNCHANGED <<mem, flags, res, handle, caller, task, tag, leaked, reports, late, cpu>>

-----------------------------------------------------------------------------
(* The driver under a caller that goes on as long as its calls succeed and does
   not touch the handle after rc522_destroy.                                *)

GoesOn == caller.err = "ok" /\ caller.call # "destroy"

CallerNext ==
    \/ Create \/ CreateBusFails \/ CreateFails
    \/ GoesOn /\ (Resume \/ StartFirst \/ StartTestFails \/ StartReadFails \/ Pause \/ Destroy)
    \/ GoesOn /\ \E call \in {"start", "pause", "destroy"} : NullHandle(call)
    \/ GoesOn /\ StaleHandle
    \/ DestroySteps

TaskNext == TaskRuns \/ HandlerReturns \/ TransferFails \/ TaskCrashes \/ TaskUseAfterFree

DriverInit == Rc522Init /\ field = NoCard
DriverNext == cpu = "running" /\ (CallerNext \/ TaskNext \/ Withdraw \/ \E c \in Card : Present(c))
DriverSpec == DriverInit /\ [][DriverNext]_rcVars

(* FreeRTOS runs both threads: the driver's blocking calls are all delays and
   transfers that end.  A card that stays is read at some poll, however many
   polls miss it.  Nothing is assumed of people, of the caller's next call, or
   of failures.                                                             *)
DriverFairSpec ==
    /\ DriverSpec
    /\ WF_rcVars(cpu = "running" /\ (TaskRuns \/ HandlerReturns \/ TaskCrashes \/ TaskUseAfterFree))
    /\ WF_rcVars(cpu = "running" /\ DestroySteps)
    /\ SF_rcVars(cpu = "running" /\ (PollNew \/ PollAgain))

-----------------------------------------------------------------------------
(* What the driver promises.                                                *)

(* A caller that paused the driver sees at most one more event, the one of the
   poll that was under way, however the two threads interleave.             *)
AtMostOneLateEvent == late <= 1

(* Once rc522_destroy has freed the driver no event handler is running: what
   the handler uses may be freed next.  The struct is not safe, the task still
   reads it (TaskUseAfterFree); the handler's data is.                      *)
NoHandlerAfterFree == mem = "freed" => task # "handler"

(* A reader that never misses a card in its field reports each placement of a
   card at most once, through pauses and restarts.                          *)
OncePerPlacement == ~Misses => reports <= 1

(* The chip is polled only after rc522_start has set it up. *)
PolledOnlyWhenSetUp == task = "poll" /\ mem = "live" => "initialized" \in flags

(* A card that stays in the field after a poll without a card is reported,
   unless scanning is stopped or a transfer fails.  That it may sooner or later
   use up the heap is no excuse: it is reported before.                     *)
HeldCardReported ==
    \A c \in Card :
        field = c /\ task = "poll" /\ "present" \notin flags /\ "scanning" \in flags /\ leaked < HeapBlocks
            ~> \/ task = "handler" /\ tag = c
               \/ field # c \/ "scanning" \notin flags \/ (cpu = "panic" /\ leaked < HeapBlocks)

=============================================================================
