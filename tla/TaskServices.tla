---------------------------- MODULE TaskServices ----------------------------
(***************************************************************************)
(* What the OSAL promises to its tasks and to the interrupts.  They call   *)
(* it: they raise events, start and stop timers and post messages, and     *)
(* only that is counted in calls.  What the OSAL does by itself raises no  *)
(* event but that of a timer whose time has come, disarms no timer but     *)
(* that one, and takes nothing away: one task at a time is given all the   *)
(* events that are pending for it, and what it has not served when it      *)
(* returns is pending again, together with what was raised meanwhile.      *)
(* Messages are received in the order in which they were posted, and their *)
(* event stays pending until the last of them is received.                 *)
(***************************************************************************)
EXTENDS Naturals, Sequences

CONSTANTS Tasks, Events, Msgs, NoTask,
          SysEventMsg          \* the event that says that there are messages

VARIABLES
    pending,   \* the events that are pending for each task
    active,    \* the task that runs, or NoTask
    given,     \* the events it was given
    armed,     \* the timers, <<task, event>>, that have been started
    periodic,  \* those of them that start again when they fire
    box,       \* the messages that each task has yet to receive
    calls      \* how often tasks and interrupts have called

servicesVars == <<pending, active, given, armed, periodic, box, calls>>

ServicesInit ==
    /\ pending = [t \in Tasks |-> {}] /\ active = NoTask /\ given = {}
    /\ armed = {} /\ periodic = {} /\ box = [t \in Tasks |-> << >>] /\ calls = 0

(* SYS_EVENT_MSG, as long as there are messages. *)
Signal(ms) == IF ms = << >> THEN {} ELSE {SysEventMsg}

--------------------------------------------------------------------------------
(* Calls of tasks and interrupts; only a task stops a timer or posts a message. *)

Raise(t, e) ==
    /\ calls' = calls + 1 /\ pending' = [pending EXCEPT ![t] = @ \cup {e}]
    /\ UNCHANGED <<active, given, armed, periodic, box>>

(* A timer that is started once more keeps starting again if it did. *)
Start(t, e, again) ==
    /\ calls' = calls + 1 /\ armed' = armed \cup {<<t, e>>}
    /\ periodic' = IF again THEN periodic \cup {<<t, e>>} ELSE periodic
    /\ UNCHANGED <<pending, active, given, box>>

Stop(t, e) ==
    /\ active # NoTask /\ calls' = calls + 1
    /\ armed' = armed \ {<<t, e>>} /\ periodic' = periodic \ {<<t, e>>}
    /\ UNCHANGED <<pending, active, given, box>>

Post(t, m) ==
    /\ active # NoTask /\ calls' = calls + 1
    /\ box' = [box EXCEPT ![t] = Append(@, m)]
    /\ pending' = [pending EXCEPT ![t] = @ \cup {SysEventMsg}]
    /\ UNCHANGED <<active, given, armed, periodic>>

--------------------------------------------------------------------------------
(* What the OSAL does, and how a task ends. *)

Fire(t, e) ==
    /\ <<t, e>> \in armed
    /\ armed' = IF <<t, e>> \in periodic THEN armed ELSE armed \ {<<t, e>>}
    /\ pending' = [pending EXCEPT ![t] = @ \cup {e}]
    /\ UNCHANGED <<active, given, periodic, box, calls>>

Activate(t) ==
    /\ active = NoTask /\ pending[t] # {}
    /\ active' = t /\ given' = pending[t] /\ pending' = [pending EXCEPT ![t] = {}]
    /\ UNCHANGED <<armed, periodic, box, calls>>

Receive(t) ==
    /\ active = t /\ SysEventMsg \in given /\ box[t] # << >>
    /\ box' = [box EXCEPT ![t] = Tail(@)]
    /\ pending' = [pending EXCEPT ![t] = (@ \ {SysEventMsg}) \cup Signal(Tail(box[t]))]
    /\ UNCHANGED <<active, given, armed, periodic, calls>>

(* A task that was given SYS_EVENT_MSG returns with all its other events unserved. *)
EndMail(t) ==
    /\ active = t /\ SysEventMsg \in given
    /\ active' = NoTask /\ given' = {}
    /\ pending' = [pending EXCEPT ![t] = ((@ \cup given) \ {SysEventMsg}) \cup Signal(box[t])]
    /\ UNCHANGED <<armed, periodic, box, calls>>

Serve(t, e) ==
    /\ active = t /\ SysEventMsg \notin given /\ e \in given
    /\ active' = NoTask /\ given' = {}
    /\ pending' = [pending EXCEPT ![t] = @ \cup (given \ {e})]
    /\ UNCHANGED <<armed, periodic, box, calls>>

ServicesNext ==
    \E t \in Tasks :
        \/ \E e \in Events \ {SysEventMsg} :
              Raise(t, e) \/ Stop(t, e) \/ Fire(t, e) \/ Serve(t, e)
              \/ \E again \in BOOLEAN : Start(t, e, again)
        \/ \E m \in Msgs : Post(t, m)
        \/ Activate(t) \/ Receive(t) \/ EndMail(t)

Services == ServicesInit /\ [][ServicesNext]_servicesVars
=============================================================================
