# Course-Design: a TLA+ verification project

The repository holds three independent systems that were built in one course. All
paths below are relative to `src/`; source texts in GBK are quoted in UTF-8.

| system | where | what it does |
|---|---|---|
| **A** campus check-in | `校园打卡/` | an ESP32 reads RFID cards, signals a verdict and sends the serial number over TCP; a Qt program keeps the attendance table |
| **B** voice control | `科大讯飞语音识别-linux/` | a client records speech and sends the sound file over TCP to a server that runs the iFlytek engine; the client acts on the id that comes back; a window simulates the touch screen |
| **C** ZigBee sensor | `无线单片机/ZStack-CC2530-2.5.1a-MPU6050/` | an end device reads an MPU6050 and reports it to a coordinator, which writes it to its UART, on TI's Z-Stack |

Most of the repository's 1241 source files are vendored: TI's Z-Stack and HAL, the
iFlytek SDK, the OLED library, generated Qt files. The systems' own code is about
twenty files. This project models that code, and of what is below it in system C the
parts the application stands on: the OSAL's kernel, its heap and its non-volatile
memory, the UART driver, and the task that takes an end device into its network.

## 1. Inventory

### A. Campus check-in

**Reader driver** (`校园打卡/下位机-esp-idf/components/rc522/rc522.c`).
State: the heap-allocated `struct rc522` (`running`, `scanning`, `initialized`,
`tag_was_present_last_time`, the handles of the SPI bus, SPI device and event loop).
Operations: `rc522_create`, `_start`, `_pause`, `_destroy`, `_register_events`, and
`rc522_task`, which polls the chip and runs the event handler.
Hard: the caller's thread and `rc522_task` share the struct without a lock;
`rc522_destroy` frees it without waiting for the task; each step of creating and
starting can fail half-way; every event loses one heap block.
Correct: at most one event after a pause, no handler in a destroyed driver, no poll
before the set-up, a placement reported once, and a card that lies there reported.

**Firmware** (`.../main/main.c`, `main/main.h`, `components/gpio_bl/gpio_bl.c`).
State: the globals `card_id`, `card_id_str`, `mutex`, the task handles, the pins.
Threads on two cores: `app_main`, `init_task`, `rc522_task` with `rc522_handler`,
`display_task`, `tcp_client_task`. They interact by notifications, the mutex, and by
writing the same globals.
Hard: `card_id` is two words written without a lock; `display_task` formats into
`card_id_str` without the mutex that protects `tcp_client_task`'s use of it;
notifications with `eNoAction` are lost unless someone waits; the network may hold
the mutex for ever; a task that returns aborts the device.
Correct: a success signal only for a registered card that was scanned; the number sent
is made of scanned digits; mutex and LEDs are never left behind; the display task
always listens again.

**Attendance server** (`校园打卡/上位机-qt/widget.cpp`, `card_data.cpp`, `card_data.h`).
State: the listening socket and its connections, the database table, the line the
window shows. Operations: start (listen, open the database, clear the table),
`newConnection`, `readyRead` (`readAll`, compare, insert), end.
Hard: TCP has no message boundaries; listen, open and insert may fail and nobody looks;
half-open connections after a device reset; a restart between any two messages.
Correct: no row is invented, repeated or put out of order.

### B. Voice control

**Touch input** (`Tool/vslcd/mmpTest/mainwindow.cpp`, `Tool/vslcd/event_drv/event_drv.c`,
the touch thread in `src/main.c`). State: the driver's one event slot and its count
`have_data`, the thread's decoding variables. The window writes two events per press;
the driver wakes the thread; the thread decodes them.
Hard: `have_data` is incremented and decremented without a lock on two processors; one
slot holds two events; a signal ends the wait as if there were data.
Correct: the count never goes below zero, a press is acted on a bounded number of times,
the thread comes to rest.

**Recognition server** (`Tool/kdxf/x86/examples/asr_record_demo/asr_record_demo.c`,
`speech_recognizer.c`). State: the connection, the session (`iat.state`,
`session_id`), the result text and its buffer. Operations: `get_audio_file`,
`demo_file`, the `sr_` functions, `on_result`.
Hard: every engine call can fail; a session is ended in four places; the result
buffer grows; the reply is sent from inside the callback, for every partial result.
Correct: sessions are ended exactly once, the text fits, the server comes back for the
next recording, a reply belongs to the recording being worked on.

**Voice client** (`src/main.c`). State: `touch_flag`, `touch_voiceflag`, `Piccount`,
`recvbuf`, the fifo to mplayer, the open files. Threads: the main loop (record, send,
receive, operate), the touch thread, and the mplayer processes.
Hard: two flags polled by one thread and set by another; replies that come late, in
parts or not at all; a fifo that all players read; descriptors that are never closed.
Correct: a wait ends only by a touch meant for it, each recording was asked for, a
command operated is the one said, the main loop comes back.

### C. ZigBee sensor

The application is in `Projects/zstack/Samples/SampleApp/`, the rest in `Components/`.

**End device** (`CC2530DB/EndDevice.c`). State: its one send timer (kept by the OSAL),
the six readings `acc`, `gyro` and their texts. Operations: the initialisation and each
entry into the network start the timer; its event reads the sensor, turns each 16-bit
reading into a sign and five digits (`type_change`), sends the report and starts the
timer again.
Hard: three places start one timer, and none looks whether it could be started; a
report is sent whether or not the device is in the network; -32768 has no negation.
Correct: the text reads back as the reading; as long as a timer could be started there
is another report.

**Coordinator** (`CC2530DB/Coordinator.c`). State: its message queue (kept by the OSAL).
Operation: the message callback writes a report as a line, by several `HalUARTWrite`
calls whose results are dropped, and the task handles all its messages before the
UART is polled again.
Hard: a buffer that is full takes some parts of a line and not others.
Correct: what was accepted leaves, in its order; nothing of it twice.

**UART transmitter** (`hal/target/CC2530EB/_hal_uart_dma.c`). State: two buffers and how
much of each is used, which one is written, `txDMAPending`, the time stamp `txShdw` of
the last interrupt; the DMA channel and DBUF. Operations: `HalUARTWriteDMA`,
`HalUARTPollDMA`, `HalUARTIsrDMA`.
Hard: the interrupt comes between any two steps of the main loop, which calls the
interrupt's function itself when it finds data and an idle channel; the first byte of a
transfer is triggered by hand, so a character time must have passed since the last one;
that time is the difference of two 8-bit readings.
Correct: what was accepted leaves unit by unit, in order; the line drains.

**Kernel** (`osal/common/OSAL.c`, `OSAL_Timers.c`). State: the events of each task, the
queue of messages, the list of timers. Operations: `osal_run_system`, `osal_set_event`,
`osal_msg_send`, `osal_msg_receive`, `osal_start_timerEx`, `osal_start_reload_timer`,
`osal_stop_timerEx`, `osalTimerUpdate`; tasks call them, and interrupts between any two
critical sections.
Hard: a message is queued and signalled in two steps; a task's events are taken out,
handled, and put back beside those that came meanwhile; an expired timer is out of the
list before its event is set; the first task with an event always goes first.
Correct: no event or message is lost or doubled, no message waits unseen, an event has
one timer, events are served and timers expire in the end.

**Heap** (`osal/common/OSAL_Memory.c`). State: the headers in the heap, `ff1`,
`osalMemStat`. Operations: `osal_mem_init`, `osal_mem_kick`, `osal_mem_alloc`,
`osal_mem_free`.
Hard: the search for a block joins free neighbours and splits what it takes; the bucket
for small blocks is kept apart by a block that is always in use; `ff1` must never pass a
free block.
Correct: blocks tile the heap, what is handed out never overlaps, an allocation fails
only when there is no room where it looks.

**Network entry** (`stack/zdo/ZDApp.c`, `ZDObject.c`, as built for the end device).
State: `devState`, `devStartMode`, `retryCnt`, `zdoDiscCounter`, the number of scans and
the channels to scan, the extended PAN id to return to, the list of networks heard, the
task's events, timers and messages; the leave control in the flash.
Operations: the start, ZDO_NETWORK_INIT (a discovery or an orphan scan), the answers of
the network layer (discovery, join, loss of the parent, leave), ZDO_STATE_CHANGE_EVT,
which tells the application, and the reset after a leave.
Hard: an answer is a message that is taken later, when the state may be another one, and
is lost without a word when the heap is full; each failure starts the next attempt in
another mode, on other channels; the application's task runs only when this one is idle.
Correct: a device outside has an attempt under way; it comes back to a network that is
there; it enters no other one; its application knows its last state.

**Non-volatile memory** (`osal/mcu/cc2530/OSAL_Nv.c`). State: pages of flash in which
bits are only cleared; in RAM the offset and the lost room of each page, the reserve
page, the places of the hot items. Operations: `osal_nv_init`, `osal_nv_item_init`,
`_write`, `_read`, `_delete`, and the compaction of a page.
Hard: the power may fail between any two words written and inside an erase, and the next
start must tell a finished copy from a half-made one, finish a compaction and find the
reserve page again, all by flags of which each is one cleared word.
Correct: an item has its old value or its new one, whenever the power fails; there is
one reserve page; no page is written past its end; the start ends.

### Not modelled, and why

| part | reason |
|---|---|
| `components/LCD/OLEDDisplay.c` | third-party drawing library used by one task: pixels, no shared state |
| `上位机-qt/tcp_server.cpp` | built, but called from nowhere |
| `lcd.c`, `mmp_drv.c` | pixels in shared memory, no control |
| `lcd_event_ui.c` | a demo of its own |
| `linuxrec.c`, `SR_MIC` in `speech_recognizer.c` | microphone recording, which the server never asks for |
| key and flash-cluster handlers of `EndDevice.c`, `Coordinator.c` | TI's sample: nothing in this system sends what they answer |
| `MPU6050.c` | bit-banged I2C, one reading inside one handler: a value from `Readings` |
| receive half of `_hal_uart_dma.c`, flow control | the coordinator only writes |
| `OSAL_Nv.c`: writes of a part of an item | they merge the part with the old value and write the whole: a write of the merged value |
| `OSAL_PwrMgr.c` | compiled out in this build |
| the rest of ZDO, AF, ZCL, MT, NWK, MAC, the rest of the HAL | TI's code, unchanged. The network layer and the MAC are libraries without source, ZCL is not built into this application, MT is a test interface; of ZDO the requests and responses of the device profile, binding and the security manager are answered or used by nothing in this system |
| `ZDApp.c`, `ZDObject.c`: routers, coordinators, security, NV_RESTORE | not built into the end device |
| iFlytek SDK, FreeRTOS, ESP-IDF, Qt | vendored or external; modelled only where this code uses them |

The files left out in the two rows on the Z-Stack are nine tenths of the lines in the
repository. They come as delivered by TI, this application reaches little of them, and
most of them cannot be given a meaning without the layers whose source is missing.

## 2. Modules

```
Rc522 <- CheckIn --implements--> Reporter <- CheckInServer --implements--> Attendance
AsrServer --implements--> Recognizer <- VoiceClient            TouchPanel
UartDma <- MotionSensor --implements--> SerialLine
Osal --implements--> TaskServices   OsalMemory --implements--> Allocator
OsalNv --implements--> NvStore      NetworkEntry
```

`<-` is EXTENDS: the module on the right is composed with the one on the left.
`Reporter` and `Recognizer` cut systems A and B at their network: the sender is shown
to implement the abstraction, and the receiver is checked against every behaviour of
the abstraction, which is more than the sender can do. In system C the abstract modules
are what a layer promises to the one above it: `MotionSensor` uses timers, events and
messages as `TaskServices` has them (a started timer fires, an event is served, messages
come in their order), and a timer that cannot be started as `OsalMemory` makes possible.

| module | models | state and actions |
|---|---|---|
| `Rc522` | `rc522.c` | the struct (`mem`, `flags`, `res`), the caller (one call at a time, `rc522_destroy` in three steps), `task` (loop, poll, dispatch, handler, mark, delay), the card in the field, heap blocks lost |
| `CheckIn` | `main.c`, `main.h`, `gpio_bl.c`, composed with `Rc522` | one `pc` per thread; `card_id` as the cards its two words come from; `card_id_str` as the numbers its first and last digits come from; a store and a `sprintf` are two steps each |
| `Reporter` | what the device promises | the cards scanned since the reset and the string being sent |
| `CheckInServer` | `widget.cpp`, `card_data.cpp`, TCP, composed with `Reporter` | connections (`link`, `dead`), byte streams at string granularity with strings begun (`half`), table, window; `ReadyRead` reads any number of strings and part of one |
| `Attendance` | what the table promises | strings pending per connection, rows |
| `TouchPanel` | window, `event_drv.c`, touch thread | the slot, `have_data` with load and store as steps of their own on both sides, `signals` that end a wait, `acted` counts per press |
| `AsrServer` | `asr_record_demo.c`, `speech_recognizer.c` | one `pc` through `demo_file`; sessions open, ended twice; text length and buffer size; every engine call with its failures |
| `Recognizer` | what the server promises | recordings sent, the one being worked on, replies under way, the server's end of the connection |
| `VoiceClient` | `src/main.c`, composed with `Recognizer` | main thread's `pc`, the flags, `recvbuf` as the reply it holds an id of, fifo, players, descriptors |
| `UartDma` | `_hal_uart_dma.c`, DMA channel, UART, ST0 | two buffers of units, the flags, `dma`, `irq`, DBUF with its age, the clock modulo `ClockMod`; the poll in its steps, interrupt, transfer, tick |
| `MotionSensor` | `EndDevice.c`, `Coordinator.c`, composed with `UartDma` | timers and events of the devices, the reading as text, a radio that loses reports, the coordinator's messages and the part of a line its handler is at |
| `SerialLine` | what the UART driver promises | units accepted and not gone, units gone |
| `NetworkEntry` | `ZDApp.c`, `ZDObject.c`, and the task of `EndDevice.c` as their receiver | `devState`, modes and counters as in the code; one action per message, event and callback; the network layer as one operation under way (`op`) that it may refuse to begin; where the networks are (`air`, `permit`); `lost` once the heap has refused a message or timer |
| `Osal` | `OSAL.c`, `OSAL_Timers.c` | events, queue, timers and the place of the update's walk in them, `pc` of the loop, the handler's events and message; interrupts at every step |
| `TaskServices` | what the kernel promises | per task the events pending and its messages; the task that runs and what it was given; timers armed and periodic; how often tasks and interrupts have called |
| `OsalMemory` | `OSAL_Memory.c` | headers, lengths, `inUse`, `ff1`; one action per header the search visits |
| `Allocator` | what the heap promises | pieces given out |
| `OsalNv` | `OSAL_Nv.c` | pages as sequences of items with their flags; RAM; one action per write to flash that a restart can tell; `Reset` at any time, and inside an erase |
| `NvStore` | what the NV memory promises | a table, the one operation under way, and whether `osal_nv_init` has returned since the last reset |
| `*_proofs` | | theorems (section 6) about `CheckIn` and with it `Rc522`, `CheckInServer`, `TouchPanel`, `AsrServer`, `VoiceClient`, `Osal`, `OsalNv`, `MotionSensor` and with it `UartDma`; those about `OsalMemory` stand behind those about `Osal`, those about `NetworkEntry` behind those about `MotionSensor` |
| `MCCheckIn`, `MCCheckInServer`, `MCMotionSensor`, `MCOsal`, `MCOsalNv` | | values of function and sequence constants for TLC; `MCMotionSensor` also has the assumption, which TLC evaluates, that `type_change` is right for every 16-bit reading but -32768 |

A few definitions in the modules are marked "a slip for ...": plausible mistakes in the
code (a forgotten assignment, a swapped order) which show that each property depends
on the code; they are not part of `Next`.

Abstraction. Cards, recordings, replies, messages, items and their values are members of
small sets; of texts only what the code compares, or their length, is kept, but for
`type_change`, whose characters are computed. A serial number is four bytes and their
check byte, so its low word stands for the card. Register traffic of the RC522 is one
poll with four outcomes. Commands of the client that show a picture and play a sound for
a fixed time are one action. A report has one reading instead of six that are handled
alike. An NV item's data and its checksum are written by one action: half of either is a
bad checksum. The order of every state change, guard and early return is kept.

## 3. Runs

Type invariants are proved (section 6) and not run; those of `OsalNv` and of
`MotionSensor` are, besides, part of `PagesSound` and `SensorSound`.

| run | what it checks | constants, distinct states |
|---|---|---|
| `driver` | `AtMostOneLateEvent`, `NoHandlerAfterFree`, `HeldCardReported` (liveness): the driver under any order of calls | two cards, a reader that misses polls, 3 heap blocks, the bus set up by the user; 3 417 |
| `device` | `MutexDiscipline` (held exactly between take and give, never asked for before it exists), `SuccessOnlyIfScanned`, `SentFromScans`, `OncePerPlacement`, `ImplementsReporter`, `DisplayListensAgain` (liveness): the tasks with both data races | a registered card and a stranger's, resets at any time, heap of 1 block; 1 384 289 |
| `server` | `ImplementsAttendance`: cut and joined strings, half-open connections, restarts | two listed cards, 2 connections, 2 strings under way on each, 2 rows, inserts that fail; 705 474 |
| `touch` | `NeverNegative`, `AtMostTwice`, `ComesToRest` (liveness) | 2 presses, 1 signal, `INT_MAX` 5; 111 552 |
| `asr` | `SessionsEnded`, `TextFits`, `RecordingFinished` (liveness), `ImplementsRecognizer` | 2 recordings of 2 chunks, 2 sessions, buffer of 2, text up to 5; 65 918 |
| `voice` | `VideoLeftByTouch`, `RecordedByTouch`; for a server without faults `OperatesOwn`, `RecordingOperated` (liveness) | 4 recordings answered once each, or 2 to a server that answers as it likes or is gone (`FaultyTurns`, with 3 ids), 3 descriptors, a fifo of 1; 655 382 |
| `nv` | `ReadsWhatIsStored`, `PagesSound`, `ImplementsNvStore`, `Ended` (liveness): power failures at every word, erases interrupted half-way | 2 items of 1 and 2 units, the first one hot, 2 values, 3 pages of 3 units; 666 660 |
| `nv_pick` | finds `OnlyDuplicatesPicked` violated (section 5) | as `nv` |
| `memory` | `HeapSound`, `ImplementsAllocator` | a heap of 15 units with a bucket of 6, headers of 1, requests of 1, 2 and 4; 120 327 |
| `osal` | `OneTimerPerEvent`, `ImplementsServices`, `EventsServed` (liveness): interrupts between any two critical sections | 2 tasks with one event of their own each, 3 messages, 2 timer records, timeouts 1 and 2, 6 calls; 232 566 |
| `sensor` | `SensorSound`, `TextReadsBack`, `ImplementsLine`, `LineDrains`, `ReportsGoOn` (liveness); at its start, `type_change` for every 16-bit reading but -32768 | a device, 3 reports of two parts of 1 and 2 units, buffers of 4, a character time of 1 tick, a clock of 3; 178 200 |
| `entry` | `AppFollows`, `AttemptGoesOn`, `ComesBack`, `ToldUnlessFull` (liveness): refusals, losses of the parent, leaves and restarts at any time | a network on one of 2 channels, of which 1 is a default one, a heap of 2 blocks, 1 discovery before a choice, 2 retries, 1 scan of the default channels, a counter of 3 values; 274 476 |

**Why the bounds are enough.** Cards, ids and connections are only compared for
equality. Two cards make every mixture of two serial numbers and every swap of cards;
a third adds no new pair. One heap block is the smallest heap, and with three
the driver runs out only after it has gone through its states with blocks to spare.
Two connections are a half-open one and its successor; two strings on a connection are
what merges. In `touch` each press writes two events and a slot holds one, so two
presses overrun it; `INT_MAX` need only exceed the events written. In `asr` a buffer
of 2 with results of 1 and 2 bytes, up to 5 in all, is enlarged more than once, and
the smallest sizes are where the terminator matters. In `voice` each recording takes a
descriptor that is never given back: with three of them and four recordings the fourth
finds none, also with a server without faults.

Three pages are a reserve page, the page that is compacted and one more; with two items
on a page an item and its new copy are on one page or on two, a page is full while the
other has room, and a compaction carries an item along while another one is written.
A hot item and one that is not are read by the two paths of the code. Values and ids are
only compared. The items are of two sizes, so that a page that is compacted need not be
full and another page can have lost as much. The safety properties hold for all sizes by
theorems.
In `memory` the requests are one below the limit of the bucket, one just at it and one above; the heap has room for a few blocks of each part, so that runs of
free blocks are joined, split, too short by one, and exhausted. Two tasks are one that
goes first and one that waits; two timers are one before the other in the list, of which
the walk takes out either or both; six calls can queue three messages while a timer is
stopped, started again and expires. In `sensor` a buffer holds one line and the first
part of another, so a part is dropped behind one that was taken; three lines keep both
buffers busy; a clock of three values wraps within the time a transfer takes, so that
every difference of time stamps occurs with every state of the channel.
In `entry` the network is found on its channel, on the other one, or not at all; two
blocks are two timers, a timer and a message, or the two messages that fill the heap; a
counter of three values wraps in a search that goes on; the retries never count past
one, whatever their limit is, which is a theorem. With two networks on one channel (479 600 states) the
invariants of the proofs and `OwnNetwork` hold as well.
What holds by a theorem (section 6) holds for every value of the constants anyway.

Every counter that the code leaves unbounded has a bound named in CONSTANTS
(`MaxConn`, `MaxStream`, `MaxRows`, `MaxTurns`, `MaxPress`, `MaxSignals`, `MaxText`,
`MaxSessions`, `MaxCalls`, `MaxElapsed`, and `MaxReports` in `Rc522` and `MotionSensor`).
`FaultyTurns` and `FaultyIds` bound the client's run with a faulty server.
`HeapBlocks`, `CounterSize`, `NUM_DISC_ATTEMPTS`, `MAX_RESUME_RETRY`, `ScansOfDefault`,
`FdLimit`, `PipeMax`, `INT_MAX`, `MaxTimers`, `Msgs`, `TxMax`, `TxTick`,
`ClockMod`, `NumPages`, `PageSize` and the sizes in `OsalMemory` are real limits of the
system, made small. `TornErases` says what an interrupted erase may leave: a page with
its header gone, or with the one word gone that marks it.

Deadlock is checked in `nv`, `osal`, `sensor` and `entry`, which can always go on. It is not in
the others: the device stops after a driver call that failed, the client waits for a
reply that nobody sends, `osal_mem_kick` halts when the heap is full, and behaviours end
where a bound does.

## 4. Fairness

Only progress of the code's own threads is assumed, never of people, networks or
failures.

* `Rc522` `DriverFairSpec`: `rc522_task` and a `rc522_destroy` that has begun go on,
  because their waits are delays and transfers that end. Strong fairness of a successful
  poll: a card that stays is seen at some poll.
* `CheckIn` `FairSpec`: FreeRTOS runs `display_task` and `tcp_client_task` when they are
  not blocked; of the other threads nothing is asked. For `display_task` the mutex is
  strongly fair, for its holder sleeps 100 ms or more between two takes. A send need
  not return, nor a network come up.
* `TouchPanel`: both threads run; a signal need not come.
* `AsrServer`: the server is scheduled. Of the engine nothing is assumed: it may say for
  ever that there is more to come, and in `end_sr_on_vad`, which does not look at the
  error of `QISRGetResult` (`speech_recognizer.c:82-88`), fail for ever. In both of its
  polling loops the server then stays; `RecordingFinished` names these two, and shows
  that a recording cannot keep the server anywhere else.
* `VoiceClient`: the main thread runs and the server works; touches and players need
  not.
* `OsalNv`: an operation or start that has begun goes on; a reset may come or not, and
  `Ended` excepts behaviours that are reset again and again.
* `Osal`: the loop goes on, interrupts or not, and of the two outcomes of looking at the
  clock "time has passed" comes again and again (strong fairness). `EventsServed` needs
  more than fairness: the task that goes first must not have work for ever. The calls
  of tasks and interrupts are bounded by `MaxCalls`, and of the timers only the last
  task's may reload themselves (`MCReloaded`); with a reload timer on the first task
  and time passing at every turn the second never runs.
* `MotionSensor`: both processors, the channel, the UART and the clock go on. Besides, a
  turn of the coordinator's loop must take longer than a character time again and again
  (the formula `[]<><<PollShadow /\ CharTimeOver>>_vars`): the code takes the
  difference of two 8-bit readings of a clock that does not stop, and a poll that
  always came just after the clock had wrapped would always find it too small. Real
  turns are of all lengths, but nothing in the code excludes that they agree.

* `NetworkEntry` `EntryFairSpec`: timers expire, the network layer confirms what it has
  begun, both tasks run. Strong fairness of `NetworkInitEvt` and `StateChangeEvt`: of the
  turns in which ZDApp asks for a block there is one in which the other tasks have left
  it one. `ComesBack` speaks of behaviours in which, from some time on, nothing is
  refused or lost any more, no beacon of the network is missed, no join fails that could
  succeed (`Setback`), and what the device looks for is there (`Welcome`): before its first
  join a network on the default channels that lets it join, afterwards its own network on
  any channel. `ToldUnlessFull` excepts requests refused and leaves for ever.

## 5. Where code and comment disagree

One of these is a run of its own: `nv_pick` finds the comments on the page that `initNV`
picks violated. The others are in the models as the code has them, and that on
`ZDApp.c:1502` is proved.

| the comment says | the code does |
|---|---|
| `rc522.h:81` "`@return` ESP_OK on success" | `rc522_create` returns ESP_OK without a handle when its task cannot be created (`CreateFails`) |
| `main.c:120` "等待通知发送打卡信息" (wait for the notification and send the check-in) | a notification that comes while `tcp_client_task` sends or sleeps is forgotten |
| `widget.cpp:64` "消息处理" (handle the message) | two numbers read at once, or one in two parts, match no card and are dropped (`ReadyRead`) |
| `main.c:284` "等待操控屏幕退出" (wait until the control screen quits) | `while(touch_flag);` does not wait without a quit touch and never ends after one |
| `SampleApp.h:76` "Every 5 seconds" | the period is 1000 ms |
| `_hal_uart_dma.c:800` "re-start the DMA immediately" | the transfer is fired by a later poll, a character time after (`IsrDMA`, `PollFire`) |
| `OSAL_Nv.c:294` "Such a page should only contain duplicate items (i.e. all items will be marked 'Xfer') and thus should have the lost count equal to the page size less the page header", `:331` "the above test should always succeed" | `initPage` counts zeroed items, not the unused room behind the last one, so a compacted page that was not full to its end is only found by the second test, as the page with the most lost room (`MostLost`); and another page may have lost as much (`OnlyDuplicatesPicked`, violated in run `nv_pick`). With items of 1 and 2 units on pages of 3: page 3 holds a write of the large item that was cut off, page 2 its old copy and the small item. Writing the large item again compacts page 3 onto page 1; the erase of page 3 is interrupted, and reads back with its xfer word alone gone. Now pages 2 and 3 have both lost 2, and page 2, the first one, is erased: the small item is gone. `ImplementsNvStore` has this step as its one exception |
| `ZDApp.c:1502` "Do a normal join to the network after certain times of rejoin retries" | the first failure of an orphan scan has set MODE_REJOIN, and the test for MODE_RESUME that leads here is not passed again. Theorem `NormalJoinNeverComes`: a device that is not in MODE_JOIN never gets there but by a restart, for every number of retries and every `AIB_apsUseInsecureJoin` |
| `ZDObject.c:420` "re-set the ZDO event to try again later when more Heap may be available" | ZDApp runs again at once, before every task that could free a block: with SampleApp's messages in all blocks it never ends (`ToldUnlessFull` excepts this case) |

Other behaviours the models have and no run claims otherwise:

* The bus is not freed by `rc522_destroy` when the driver set it up, so a second create
  fails (`DestroyTransport`, `CreateFails`).
* `rc522_start` returns what an earlier call returned when its self-test fails.
* `gpio_bl_init` returns before it sets the buzzer's pin when `gpio_config` succeeds:
  the buzzer sounds until the first verdict.
* A notification can be given to a null task handle and a task function can return;
  both abort the device (`HandlerNotifiesNull`, `TcpSetupFails`, `TcpSendFails`).
* A string sent may have the digits of two cards, as may a number that is judged;
  `Reporter` and `SuccessOnlyIfScanned` say what is left of the promise.
* The window shows a number whose insert failed.
* After a signal `have_data` is below zero and each read returns at once, and an event
  that was overwritten in the slot is read twice.
* A server that sends every partial result makes the client operate each command one
  recording late; `recvbuf`, never cleared, gives the old id again after the server has
  gone (`ReceivesEnd`).
* A recording that is not made or cannot be opened is not sent, and the client waits for
  its reply for ever.
* A quit command in the fifo may end a player that was started after it (`PlayerReads`).
* With each recording the client loses a descriptor (`main.c:397` never closes it); at
  the limit it sends no more and waits for an answer that cannot come (`Stuck`).
* `demo_file` frees an `iat` that was never initialised when the file cannot be read
  (`asr_record_demo.c:408`).
* `type_change` makes of -32768 a sign and five characters that are no digits.
* A timer that cannot be allocated ends the reports for ever: the result of
  `osal_start_timerEx` is dropped (`EndDevice.c:334`).
* When a buffer of the UART is full a line loses some of its parts and keeps others,
  shorter ones that come later.
* Starting a reload timer anew by `osal_start_timerEx` leaves it reloading. A timer that
  is started between two updates is charged the time since the first and expires early
  by as much. A timer that is stopped after the update took it out still sets its event.
* A device that is told to leave and to come back does not wait: `ZDApp_LeaveCtrlStartup`
  sets `startDelay`, which nobody reads afterwards (`ZDOInitDevice`).
* A message to ZDApp that the heap refuses ends the entry: no timer looks for it again
  (`lost` in `AttemptGoesOn`).
* Two networks on one channel share a descriptor, with the extended PAN id of the last
  beacon and the permission of any (`Beacons`).
* `osal_mem_alloc` adds the header to a 16-bit size: a request within `Hdr` of 2^16 gets a
  small block (excluded by `Requests`).
* The place of a hot item stays in RAM after it was deleted (`ReadsWhatIsStored` speaks
  of items that exist).

## 6. Proofs

All checked by TLAPS, for every value of the constants that satisfies the module's
named assumptions; no fact is taken on trust.

| module | theorem | states |
|---|---|---|
| `CheckIn_proofs` | `DriverTypeCorrect` | `Rc522TypeOK` |
| | `LateEventSafe`, `HandlerSafe`, `PollSafe`, `PlacementSafe` | `AtMostOneLateEvent`, `NoHandlerAfterFree`, `PolledOnlyWhenSetUp` (proved only), `OncePerPlacement` |
| | `DeviceTypeCorrect`, `MutexSafe`, `SuccessSafe`, `SentSafe`, `LedsSafe` | `TypeOK`, `MutexDiscipline`, `SuccessOnlyIfScanned`, `SentFromScans`, `LedsOffAtRest` (proved only) |
| | `DeviceImplementsReporter` | every step of the device is a step of `Reporter` or a stutter |
| `CheckInServer_proofs` | `ServerTypes`, `ServerImplementsAttendance` | `TypeOK`; every step of server and network is a step of `Attendance` or a stutter |
| `TouchPanel_proofs` | `TouchTypeCorrect`, `CountSafe`, `ActsSafe` | `TypeOK`, `NeverNegative`, `AtMostTwice` |
| `AsrServer_proofs` | `ServerTypeCorrect`, `SessionsSafe`, `TextSafe` | `TypeOK`, `SessionsEnded`, `TextFits` |
| | `ServerImplementsRecognizer` | every step of the server is a step of `Recognizer` or a stutter |
| `VoiceClient_proofs` | `ClientTypeCorrect`, `VideoSafe`, `RecordSafe`, `OwnSafe` | `TypeOK`, `VideoLeftByTouch`, `RecordedByTouch`, `OperatesOwn` |
| `Osal_proofs` | `KernelTypeCorrect`, `NoMessageUnseen`, `TimersUnique` | `TypeOK`, `MessageSignalled` (proved only), `OneTimerPerEvent` of `Osal` |
| | `KernelServes` | every step of the kernel is a step of `TaskServices` or a stutter |
| | `HeapTypeCorrect`, `HeapIsSound`, `FailsJustly` | `HeapTypeOK`, `HeapSound`, `FailsOnlyWhenFull` (proved only) of `OsalMemory` |
| | `HeapIsAllocator` | every step of the heap is a step of `Allocator` or a stutter |
| `OsalNv_proofs` | `SpecNv`, `TypeCorrect` | the inductive invariant `NvInv`, `TypeOK` |
| | `PagesSafe`, `ReadsSafe` | `PagesSound`, `ReadsWhatIsStored` |
| | `ImplementsStore` | `ImplementsNvStore`: every step of the NV memory is a step of `NvStore` or a stutter, but for the erasing of the page that `initNV` picked by its lost room, which takes exactly the items on that page away |
| | `SpecKnown`, `DuplicatesWhenKnown`, `LosesNothing` | when an interrupted erase never takes the xfer word alone: the reserve page is always known, `OnlyDuplicatesPicked`, and the memory implements `NvStore` without the exception |
| `MotionSensor_proofs` | `SensorSafe`, `ReadsBack` | `SensorSound`, `TextReadsBack` |
| | `SensorImplementsLine` | every step of devices, coordinator and UART is a step of `SerialLine` or a stutter |
| | `EntryTypesCorrect`, `EntryGoesOn`, `ApplicationFollows` | `EntryTypes`, `AttemptGoesOn`, `AppFollows` of `NetworkEntry` |
| | `NormalJoinNeverComes`, `EntersNoOther` | `RejoinsOnly`, `OwnNetwork` (proved only) |

**The arguments.** Hardly any of the properties is inductive as it stands.

* `DriverInv` adds that no handler runs and none can be started from the moment
  `rc522_destroy` has deleted the event loop, that the driver scans only after it has
  been set up, that a late event can come only from the poll under way at the
  pause, and that a reader that misses nothing remembers the card in the field once it
  has reported it.
* `DeviceInv` carries `DriverInv` and adds the boot order (`init_task` creates the mutex
  before the reader's task exists, and without that task nobody is notified), that from
  the first notification on both words of `card_id` are those of scanned cards, that
  what each `sprintf` was called with and what stands in `card_id_str` is made of such
  words, that nobody clears the buffer between a `sprintf` and its send, and which
  LED may be on where. A mixed number is accepted only if its low word is a
  registered card's, and that card was then scanned; zeros are never accepted because
  the display task is woken only after a scan.
* In `ServerImplementsAttendance` what is pending on a connection are its unread strings
  without one that has been begun; `Linked` adds that the device's connection is one
  that was made. A read of m strings takes away m pending ones, one less when the first
  had been begun before, one more when it leaves another begun. Only a read of exactly
  one string that was not begun can make a row, and it makes the row of that string
  (`Record`); every other is a `Drop`, or a stutter when nothing pending is touched.
* `TouchInv` counts the events written and says that `have_data` is at most that many,
  and that wherever the reader is past its wait there is at least one: a lost update by
  the writer leaves one too many or the one just written, never none. `ActedInv` gives
  the events positions in the order in which they are written, each of which may be read
  any number of times: `x` never goes back; the first act for a press may have used a Y
  of an earlier one, but the second has used the press's own Y, and then its X is past
  and cannot be read again.
* `ServerInv` of `AsrServer` ties `iat.state`, `session_id` and the set of open sessions
  together at each line of `demo_file` (on which side of the three ends of a session the
  server is), and the recording being worked on to the line the server is at.
* `ClientInv` says which touches a set flag stands for at each wait, and that a
  recording starts at most one player. `OwnInv`, for a server that answers each
  recording once, says that nothing is under way but between a recording and its
  reply, and then one thing only: the recording, the work on it, or its reply.
* `HeapInv` of `OsalMemory` is `HeapTypeOK`, `Tiled`, `GivenKept` and `FirstFree` with the locals
  of the search: the block between the two parts of the heap is in use, is nobody's, and
  is the only one without room (`Placed`); `prev` is free and ends at `at`, and every free
  block the search has passed is too short and followed by a used one, or is `prev`
  (`Searching`); until `osal_mem_kick` has ended `ff1` is at the start and the search
  takes the first free block (`Kicking`). Splitting and joining keep the tiling because a header that is
  removed ends its predecessor exactly where its own block ended.
* `IInv` of `Osal` is `TypeOK`, `OneTimerPerEvent` and `Signalled`: a queued message's event
  is set, or its sender is about to set it, or its task is at `osal_msg_receive`, which
  sets the event again when it leaves another message in the queue; a timer that is in the list is found by `osalAddTimer` and changed in
  place, and an expired one is out of the list before a second can be added.
  For `KernelServes` the event of a timer that was taken out is pending from then on
  (`Expiring`), so that setting it is a stutter, and the SYS_EVENT_MSG of a message is
  pending from the moment it is queued (`SendMessage`, then `SignalMessage`). `TaskServices`
  clears the event of an empty box when the last message is received or the handler
  returns; that the code does so too needs `Settled`: SYS_EVENT_MSG is set, or about to
  be set, for no task without a message, only a handler sends, a task is called with an
  event only, and a handler that was given SYS_EVENT_MSG has served it before it returns.
  The messages of a task are the
  queue filtered by `dest` (`Mail`); that a message added or taken out changes this for
  one task, and there at its end or front, is shown by induction along the queue.
* `NvInv` of `OsalNv` says for every state what a restart would find. `FlashInv`: an item
  that is marked old is complete, of two complete copies of an item one is old, once the
  reserve page is in use all that is left on the marked page has a newer copy, and no page
  is overrun. `Phase`: what the headers are at each step of an
  operation, of a compaction and of the start, so that at most one page is marked and the
  reserve page is blank or marked or the target of a copy. `ReserveInv`: the reserve page
  holds copies of what `compactPage` has passed, and has room for the rest and for the new
  item; this is a statement on sums of lengths, for which a compaction gains what
  `pgLost` counts. `OpInv` and `ServeInv`: which copy of an item may be lost without harm
  at each step. `ScanInv`: what the walk of `initNV` has passed has no duplicates, no bad
  checksums, and is counted. `HotInv`: the places in RAM. None of it depends on the sizes.
* A step of the flash that changes what a restart would read is a `Takes` of `NvStore`,
  except erasing a page that was picked for its lost room (`Picking`), whole or as far as
  its header. For that step `PickedLost` shows what is lost: `PickInv` says that at that
  point there is one copy of each item, so the items on the page are gone and the others
  are untouched. With `"xfer"` not in `TornErases` a page whose erase was interrupted is
  blank or still marked (`ReserveKnown`), so nothing is ever picked.
* `IInv` of `MotionSensor` is `TypeOK`, `Channel`, `CharTime` and `Copied`. `Channel`: from
  the firing of a transfer to its interrupt the channel works on the buffer that is not
  written, no other transfer is pending and the shadow is not valid; at other times that
  buffer is empty. `CharTime`: a character in DBUF has been there at least since the
  interrupt and at most a character time, so once more than that has passed since the
  interrupt DBUF is empty; since a character time and one tick are less than the clock's
  period, the difference of the two readings cannot have wrapped before. `Copied`: between
  the copy and the commit of a write the part stands right behind what is to be sent.
  What waits is then in DBUF, behind it in the buffer that is transferred and behind that
  in the one that is written: a move of the channel, the swap of the buffers and the
  interrupt leave this sequence as it is, a commit appends to it, and only the UART takes
  from its front. That the text reads back is proved from the digits: each is the quotient
  of a remainder, bounded by the divisions before it, and -32768 is computed.
* `EntryInv` of `NetworkEntry` is `EntryTypes` and `AttemptGoesOn` with the shape of what lies
  between the two layers (`InboxShape`: the network layer says nothing while it works, its
  answer is the first message, and behind it is at most that of a parent lost since), what
  a device that holds has not (`Holding`), and `Awaiting`: an answer that is under way finds
  the device in the state it belongs to, or an attempt is to begin anyway; without this
  an answer could be dropped with nothing behind it. `Resuming` says that the mode of an
  orphan scan is left at the first failure, so that the counter of retries is then 0: the
  branch of the normal join is not reached. `Own` adds, for a device that looks for any
  network, that there is one attempt at a time and none once it is in, so that no second
  join is under way when the first succeeds; any other device asks for its own network.
  For `AppFollows` each step that moves the device into or out of its network sets the
  event of the state change.

## 7. Only model-checked

Liveness (`HeldCardReported`, `DisplayListensAgain`, `ComesToRest`, `RecordingFinished`,
`RecordingOperated`, `Ended`, `EventsServed`, `LineDrains`, `ReportsGoOn`, `ComesBack`,
`ToldUnlessFull`): it depends on fairness, which the prover does not treat.
Every other property of a passing run is a theorem. The prover has no induction over data: what is proved of recursive sums
(`Total`) and of the filtered queue (`Mail`) is by the well-foundedness of the numbers,
with a set in the place of a property (`NatSet`, `UpTo`), which serves for what holds up to
a bound.

## 8. Assumptions of the models

* No listed number spans the end of one string and the beginning of the next
  (`CheckInServer`), and no two listed cards have one number.
* `Zero` is no card; only a card's check byte is in its upper word.
* A send of less than a few hundred bytes is taken whole by the kernel.
* `INT_MAX` exceeds the events that can be written: an int is not overrun by hand.
* A single result of the engine is not longer than `BUFFER_SIZE` (`Sizes`).
* The programs are built as the repository's build files say (without optimisation for
  system B), so `while(touch_flag);` reads memory each time.
* Callers of the heap free what they were given, once, and ask for less than 2^16
  bytes less a header.
* The checksum of an NV item that was not completely written does not agree by accident;
  the flash does what it is told while the power is good.
* The network layer does one thing at a time, confirms only what it has begun, and a join or
  rejoin that succeeds is into a network that was asked for; it tells of a lost parent
  again only after ZDApp has taken the first message (it takes several polls to tell).
* All networks have the configured PAN id, and differ in their extended ones.
* `txIdx` counts up to `TxMax` and does not wrap. It is a `uint8` up to
  `HAL_UART_DMA_TX_MAX` 256, where a full buffer would read as an empty one; the coordinator
  and the end device are built with `MT_TASK` (`SampleApp.ewp:1335`), which makes it 128
  (`OnBoard.h:171`).
* A character leaves DBUF within a character time (`Tick`), and the channel moves a unit
  when the UART asks for one.

## 9. Plan

What is left, in this order:

1. The two halves of system B together: `TouchPanel`'s decoded presses as the touches
   of `VoiceClient`, with the invariants of both proofs carried over to the composition.
2. The bounds of the picture in `lcd_draw_bmp` against the frame buffer.
