------------------------------- MODULE Osal -------------------------------
(***************************************************************************)
(* The task loop, the events, the messages and the timers of the OSAL      *)
(* (osal/common/OSAL.c, OSAL_Timers.c).  One loop updates the timers, looks *)
(* for the first task with an event and lets it handle one; interrupts may  *)
(* set events and start timers between any two critical sections.  A task   *)
(* handles SYS_EVENT_MSG first: it receives its messages until there is     *)
(* none, or only one of them (MT_ProcessEvent).  While it handles an event  *)
(* or a message it calls the services of the OSAL.                          *)
(*                                                                         *)
(* The records of timers and messages come from the heap, which may be     *)
(* full.  The elapsed milliseconds that osalTimeUpdate finds are any       *)
(* number up to MaxElapsed.                                                *)
(***************************************************************************)
EXTENDS Integers, Sequences, SequencesExt

CONSTANTS
    TaskCount,    \* tasksCnt; the tasks are 1 .. TaskCount, the first goes first
    AppEvents,    \* the events of a task besides SYS_EVENT_MSG
    Msgs,         \* the message buffers the heap has room for
    MaxTimers,    \* the timer records it has room for
    Timeouts,     \* the times timers are started with
    Reloaded,     \* the timers, <<task, event>>, that osal_start_reload_timer starts
    MaxElapsed,   \* at most so long passes from one update to the next
    MaxCalls      \* bound: so often tasks and interrupts call the OSAL

ASSUME OsalAssumption ==
    /\ TaskCount \in Nat \ {0} /\ AppEvents # {} /\ {"msg", "deleted"} \cap AppEvents = {}
    /\ MaxTimers \in Nat /\ Timeouts \subseteq Nat \ {0} /\ MaxElapsed \in Nat \ {0}
    /\ MaxCalls \in Nat

Tasks == 1 .. TaskCount
NoTask == 0                       \* TASK_NO_TASK
SysEventMsg == "msg"
Events == AppEvents \cup {SysEventMsg}
Deleted == "deleted"              \* the event_flag of a timer that is stopped: 0

VARIABLES
    tasksEvents,   \* the events that are set for each task
    queue,         \* osal_qHead: the messages that are sent and not received
    dest,          \* dest_id of each message
    held,          \* the messages a task has allocated or received
    timers,        \* timerHead: the timers, oldest first
    expired,       \* the record that osalTimerUpdate took out, as a sequence
    pc,            \* where the loop is
    walk,          \* which timer is looked at: srchTimer, 0 for none
    elapsed,       \* updateTime
    idx,           \* the task that is looked at, or is active
    events,        \* the events its handler was called with, less those it has served
    sent,          \* the task whose event osal_msg_send has still to set
    calls          \* how often the OSAL was called

kernelVars == <<pc, walk, elapsed, idx, events>>
msgVars == <<queue, dest, held, sent>>
timerVars == <<timers, expired>>
vars == <<tasksEvents, queue, dest, held, timers, expired, pc, walk, elapsed, idx, events,
          sent, calls>>

Init ==
    /\ tasksEvents = [t \in Tasks |-> {}]
    /\ queue = << >> /\ dest = [m \in Msgs |-> NoTask] /\ held = {} /\ sent = NoTask
    /\ timers = << >> /\ expired = << >>
    /\ pc = "update" /\ walk = 0 /\ elapsed = 0 /\ idx = 1 /\ events = {}
    /\ calls = 0

SetEvent(t, e) == tasksEvents' = [tasksEvents EXCEPT ![t] = @ \cup {e}]

--------------------------------------------------------------------------------
(* Timers. *)

Live(t, e) == {i \in DOMAIN timers : timers[i].task = t /\ timers[i].event = e}

(* A slip for AddTimer: a timer that runs is not looked for. *)
AddTimerBlindly(t, e, n, reload) ==
    /\ Len(timers) + Len(expired) < MaxTimers
    /\ timers' = Append(timers, [task |-> t, event |-> e, timeout |-> n,
                                 reload |-> IF reload THEN n ELSE 0])

(* osalAddTimer and its callers: a timer that is found is only given its new time. *)
AddTimer(t, e, n, reload) ==
    \/ /\ Live(t, e) # {}
       /\ timers' = [i \in DOMAIN timers |->
                       IF i \in Live(t, e)
                       THEN [timers[i] EXCEPT !.timeout = n, !.reload = IF reload THEN n ELSE @]
                       ELSE timers[i]]
    \/ /\ Live(t, e) = {} /\ Len(timers) + Len(expired) < MaxTimers
       /\ timers' = Append(timers, [task |-> t, event |-> e, timeout |-> n,
                                    reload |-> IF reload THEN n ELSE 0])

(* osal_stop_timerEx: the record is left for osalTimerUpdate to take out. *)
StopTimer(t, e) ==
    /\ Live(t, e) # {}
    /\ timers' = [i \in DOMAIN timers |->
                    IF i \in Live(t, e) THEN [timers[i] EXCEPT !.event = Deleted] ELSE timers[i]]

(* osalTimeUpdate and the start of osalTimerUpdate. *)
TimeUpdate(n) ==
    /\ pc = "update" /\ n \in 1 .. MaxElapsed
    /\ IF timers = << >> THEN pc' = "scan" /\ UNCHANGED <<walk, elapsed>>
                         ELSE pc' = "walk" /\ walk' = 1 /\ elapsed' = n
    /\ UNCHANGED <<tasksEvents, msgVars, timerVars, idx, events, calls>>

NoTimePassed ==
    /\ pc = "update" /\ pc' = "scan"
    /\ UNCHANGED <<tasksEvents, msgVars, timerVars, walk, elapsed, idx, events, calls>>

(* One critical section of osalTimerUpdate: what is left of the timer's time, its event
   and new time if it reloads, and whether it is taken out; then the timer after it, if
   there is one now. *)
Timer == timers[walk]

Left == IF Timer.timeout <= elapsed THEN 0 ELSE Timer.timeout - elapsed
Reloads == Left = 0 /\ Timer.reload # 0 /\ Timer.event # Deleted
TakenOut == (Left = 0 /\ ~ Reloads) \/ Timer.event = Deleted

WalkTimer ==
    /\ pc = "walk" /\ walk # 0
    /\ IF Reloads THEN SetEvent(Timer.task, Timer.event) ELSE UNCHANGED tasksEvents
    /\ IF TakenOut
       THEN /\ timers' = RemoveAt(timers, walk) /\ expired' = <<[Timer EXCEPT !.timeout = Left]>>
            /\ pc' = "expire" /\ walk' = IF walk < Len(timers) THEN walk ELSE 0
       ELSE /\ timers' = [timers EXCEPT ![walk].timeout = IF Reloads THEN Timer.reload ELSE Left]
            /\ walk' = (IF walk < Len(timers) THEN walk + 1 ELSE 0) /\ UNCHANGED <<expired, pc>>
    /\ UNCHANGED <<msgVars, elapsed, idx, events, calls>>

(* The event of the record that was taken out, after the critical section. *)
Expire ==
    /\ pc = "expire"
    /\ IF Head(expired).timeout = 0 /\ Head(expired).event # Deleted
       THEN SetEvent(Head(expired).task, Head(expired).event)
       ELSE UNCHANGED tasksEvents
    /\ expired' = << >> /\ pc' = "walk"
    /\ UNCHANGED <<msgVars, timers, walk, elapsed, idx, events, calls>>

WalkEnds ==
    /\ pc = "walk" /\ walk = 0
    /\ pc' = "scan" /\ elapsed' = 0
    /\ UNCHANGED <<tasksEvents, msgVars, timerVars, walk, idx, events, calls>>

--------------------------------------------------------------------------------
(* osal_run_system. *)

(* A slip for NextTask: the last task is left out. *)
NextTaskEarly ==
    /\ pc = "scan" /\ tasksEvents[idx] = {}
    /\ IF idx + 1 >= TaskCount THEN idx' = 1 /\ pc' = "update"
                               ELSE idx' = idx + 1 /\ UNCHANGED pc
    /\ UNCHANGED <<tasksEvents, msgVars, timerVars, walk, elapsed, events, calls>>

NextTask ==
    /\ pc = "scan" /\ tasksEvents[idx] = {}
    /\ IF idx = TaskCount THEN idx' = 1 /\ pc' = "update" ELSE idx' = idx + 1 /\ UNCHANGED pc
    /\ UNCHANGED <<tasksEvents, msgVars, timerVars, walk, elapsed, events, calls>>

TaskFound ==
    /\ pc = "scan" /\ tasksEvents[idx] # {} /\ pc' = "call"
    /\ UNCHANGED <<tasksEvents, msgVars, timerVars, walk, elapsed, idx, events, calls>>

CallTask ==
    /\ pc = "call"
    /\ events' = tasksEvents[idx] /\ tasksEvents' = [tasksEvents EXCEPT ![idx] = {}]
    /\ pc' = IF SysEventMsg \in tasksEvents[idx] THEN "receive" ELSE "handle"
    /\ UNCHANGED <<msgVars, timerVars, walk, elapsed, idx, calls>>

(* A slip for TaskReturns: they replace the events that were set meanwhile. *)
TaskReturnsReplacing ==
    /\ pc = "return"
    /\ tasksEvents' = [tasksEvents EXCEPT ![idx] = events]
    /\ events' = {} /\ idx' = 1 /\ pc' = "update"
    /\ UNCHANGED <<msgVars, timerVars, walk, elapsed, calls>>

(* Unprocessed events are added back. *)
TaskReturns ==
    /\ pc = "return"
    /\ tasksEvents' = [tasksEvents EXCEPT ![idx] = @ \cup events]
    /\ events' = {} /\ idx' = 1 /\ pc' = "update"
    /\ UNCHANGED <<msgVars, timerVars, walk, elapsed, calls>>

--------------------------------------------------------------------------------
(* A task's handler. *)

For(t) == {i \in DOMAIN queue : dest[queue[i]] = t}
First(t) == CHOOSE i \in For(t) : \A j \in For(t) : i <= j

(* osal_msg_receive finds a message, and says whether there is another. *)
ReceiveMessage ==
    /\ pc = "receive" /\ For(idx) # {}
    /\ tasksEvents' = [tasksEvents EXCEPT
                         ![idx] = IF \E i, j \in For(idx) : i # j THEN @ \cup {SysEventMsg}
                                                              ELSE @ \ {SysEventMsg}]
    /\ queue' = RemoveAt(queue, First(idx)) /\ dest' = [dest EXCEPT ![queue[First(idx)]] = NoTask]
    /\ held' = held \cup {queue[First(idx)]}
    /\ pc' = "message"
    /\ UNCHANGED <<timerVars, sent, walk, elapsed, idx, events, calls>>

(* It finds none. *)
NoMessage ==
    /\ pc = "receive" /\ For(idx) = {}
    /\ tasksEvents' = [tasksEvents EXCEPT ![idx] = @ \ {SysEventMsg}]
    /\ events' = events \ {SysEventMsg} /\ pc' = "return"
    /\ UNCHANGED <<msgVars, timerVars, walk, elapsed, idx, calls>>

(* The message is deallocated, or has been sent on; then the next, or the handler ends. *)
MessageDone ==
    /\ pc = "message" /\ sent = NoTask /\ held' = {}
    /\ \/ pc' = "receive" /\ UNCHANGED events
       \/ pc' = "return" /\ events' = events \ {SysEventMsg}
    /\ UNCHANGED <<tasksEvents, queue, dest, timerVars, sent, walk, elapsed, idx, calls>>

(* One event has been handled. *)
EventDone(e) ==
    /\ pc = "handle" /\ sent = NoTask /\ e \in events
    /\ events' = events \ {e} /\ pc' = "return"
    /\ UNCHANGED <<tasksEvents, msgVars, timerVars, walk, elapsed, idx, calls>>

Handling == pc \in {"message", "handle"}

Calls == calls < MaxCalls /\ calls' = calls + 1

(* osal_msg_allocate and osal_msg_send: the message is queued, then the event set. *)
Unused == Msgs \ (held \cup ToSet(queue))

SendMessage(m, t) ==
    /\ Handling /\ sent = NoTask /\ m \in held \cup Unused
    /\ dest' = [dest EXCEPT ![m] = t] /\ queue' = Append(queue, m) /\ held' = held \ {m}
    /\ sent' = t
    /\ UNCHANGED <<tasksEvents, timerVars, kernelVars>>

SignalMessage ==
    /\ sent # NoTask /\ SetEvent(sent, SysEventMsg) /\ sent' = NoTask
    /\ UNCHANGED <<queue, dest, held, timerVars, kernelVars, calls>>

(* What a handler may call, and what an interrupt may. *)
TaskCalls ==
    /\ Handling /\ sent = NoTask /\ Calls
    /\ \/ \E m \in Msgs, t \in Tasks : SendMessage(m, t)
       \/ \E t \in Tasks, e \in AppEvents :
             \/ /\ SetEvent(t, e) /\ UNCHANGED <<msgVars, timerVars, kernelVars>>
             \/ /\ \/ \E n \in Timeouts : AddTimer(t, e, n, <<t, e>> \in Reloaded)
                   \/ StopTimer(t, e)
                /\ UNCHANGED <<tasksEvents, msgVars, expired, kernelVars>>

Interrupt ==
    /\ Calls
    /\ \E t \in Tasks, e \in AppEvents :
          \/ SetEvent(t, e) /\ UNCHANGED timers
          \/ \E n \in Timeouts : AddTimer(t, e, n, FALSE) /\ UNCHANGED tasksEvents
    /\ UNCHANGED <<msgVars, expired, kernelVars>>

Loop == NextTask \/ TaskFound \/ CallTask \/ TaskReturns
Handler == ReceiveMessage \/ NoMessage \/ MessageDone \/ \E e \in AppEvents : EventDone(e)
Walk == WalkTimer \/ Expire \/ WalkEnds
TimePasses == \E n \in 1 .. MaxElapsed : TimeUpdate(n)

Next == \/ TimePasses \/ NoTimePassed \/ Walk \/ Loop
        \/ Handler \/ SignalMessage \/ TaskCalls \/ Interrupt

Spec == Init /\ [][Next]_vars

(* The processor does not stop, handlers return, and the MAC's timer goes on. *)
FairSpec == /\ Spec
            /\ WF_vars(NoTimePassed \/ Walk \/ Loop \/ Handler \/ SignalMessage)
            /\ SF_vars(TimePasses)

--------------------------------------------------------------------------------
(* Properties. *)

(* The task whose handler runs. *)
Active == IF pc \in {"receive", "message", "handle"} THEN idx ELSE NoTask

(* What it was called with, less what it has served. *)
Given == IF Active = NoTask THEN {} ELSE events

(* The event of a record that was taken out of the list and has still to be set. *)
Expiring(t) == {e \in AppEvents : \E i \in DOMAIN expired : /\ expired[i].timeout = 0
                                                            /\ expired[i].task = t
                                                            /\ expired[i].event = e}

(* What is pending for a task: what is set for it, what its handler has left unserved, and
   what is about to be set by osal_msg_send or by osalTimerUpdate. *)
Pending == [t \in Tasks |-> tasksEvents[t] \cup Expiring(t)
                              \cup (IF pc = "return" /\ t = idx THEN events ELSE {})
                              \cup (IF t = sent THEN {SysEventMsg} ELSE {})]

(* The timers that run, and those that reload themselves. *)
Armed == {te \in Tasks \X AppEvents : Live(te[1], te[2]) # {}}
Periodic == {te \in Tasks \X AppEvents : \E i \in Live(te[1], te[2]) : timers[i].reload # 0}

(* The messages of a sequence that go to a task, in their order. *)
Mail(ms, to, t) ==
    LET mail[i \in 0 .. Len(ms)] == IF i = 0 THEN << >>
                                    ELSE IF to[ms[i]] = t THEN Append(mail[i - 1], ms[i])
                                                          ELSE mail[i - 1]
    IN mail[Len(ms)]

(* The messages that each task has yet to receive. *)
Box == [t \in Tasks |-> Mail(queue, dest, t)]

TimerRecords == [task : Tasks, event : AppEvents \cup {Deleted}, timeout : Nat, reload : Nat]

KernelTypes ==
    /\ tasksEvents \in [Tasks -> SUBSET Events] /\ events \subseteq Events /\ idx \in Tasks
    /\ pc \in {"update", "walk", "expire", "scan", "call", "receive", "message", "handle", "return"}
    /\ calls \in 0 .. MaxCalls

MessageTypes ==
    /\ queue \in Seq(Msgs) /\ IsInjective(queue) /\ dest \in [Msgs -> Tasks \cup {NoTask}]
    /\ ToSet(queue) = {m \in Msgs : dest[m] # NoTask}
    /\ held \subseteq Msgs \ ToSet(queue) /\ sent \in Tasks \cup {NoTask}

TimerTypes ==
    /\ timers \in Seq(TimerRecords) /\ expired \in Seq(TimerRecords)
    /\ Len(expired) = IF pc = "expire" THEN 1 ELSE 0
    /\ Len(timers) + Len(expired) <= MaxTimers
    /\ walk \in 0 .. Len(timers) /\ elapsed \in 0 .. MaxElapsed

(* Type correctness: the messages in the queue are those with a destination, each is
   there once, and no task holds one; the records of timers fit into the heap. *)
TypeOK == KernelTypes /\ MessageTypes /\ TimerTypes

(* No message waits unseen: while one is in the queue its task has SYS_EVENT_MSG pending,
   or is receiving; also when a handler receives only one of several. *)
MessageSignalled ==
    \A m \in ToSet(queue) : \/ SysEventMsg \in Pending[dest[m]]
                            \/ dest[m] = Active /\ SysEventMsg \in Given

(* There is never a second timer for the same event of a task, so that stopping or
   restarting it reaches the one there is. *)
OneTimerPerEvent == \A t \in Tasks, e \in AppEvents : \A i, j \in Live(t, e) : i = j

Promised == INSTANCE TaskServices WITH
    pending <- Pending, active <- Active, given <- Given,
    armed <- Armed, periodic <- Periodic, box <- Box

(* Whatever comes between its critical sections the OSAL is what its tasks rely on.  Only
   a call, of which each step makes one at most, raises an event, starts or stops a timer
   or posts a message; a timer fires once, or once a period; a handler is given all that
   is pending and what it has not served is pending again, with what came meanwhile; the
   messages of a task reach it once and in order, and its SYS_EVENT_MSG goes only with the
   last.  So no event, timer or message is lost or doubled. *)
ImplementsServices == Promised!Services

(* Once the calls cease every event that is pending is given to its task, whatever the
   priorities, and served. *)
EventsServed ==
    \A t \in Tasks : \A e \in Events :
        /\ e \in Pending[t] ~> (t = Active /\ e \in Given)
        /\ (t = Active /\ e \in Given) ~> (e \notin Pending[t] /\ (t = Active => e \notin Given))
=============================================================================
