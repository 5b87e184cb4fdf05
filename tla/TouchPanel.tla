------------------------------ MODULE TouchPanel ------------------------------
(***************************************************************************)
(* How a press of the mouse in the simulated screen's window reaches the   *)
(* touch thread: the window's handler (mainwindow.cpp) writes the two      *)
(* coordinates, the character device (event_drv.c) keeps the last event    *)
(* and counts the events, and the thread (main.c) reads them and acts.     *)
(*                                                                         *)
(* The driver has no lock: reader and writer may run on two processors,    *)
(* and each adds to have_data with a load and a store.  The fields of an   *)
(* event that are looked at lie in one word and are copied at once.  A     *)
(* signal to the reading process ends its wait, and the driver then goes   *)
(* on as if there were data.                                               *)
(***************************************************************************)
EXTENDS Integers

CONSTANTS MaxPress,   \* presses
          MaxSignals, \* signals that end a wait
          INT_MAX     \* the greatest value of have_data, which wraps round

ASSUME TouchPanelAssumption ==
    MaxPress \in Nat /\ MaxSignals \in Nat /\ INT_MAX \in Nat /\ INT_MAX > 2 * MaxPress

Presses == 1 .. MaxPress
NoEvent == [axis |-> "none", press |-> 0]
Ints    == -(INT_MAX + 1) .. INT_MAX
Events  == [axis : {"X", "Y"}, press : Presses] \cup {NoEvent}

VARIABLES window,     \* "idle", or where the handler is: its event is "copied" or "loaded"
          writing,    \* the event it writes
          inputData, have_data,  \* the driver's
          wload,      \* have_data as the writer loaded it
          thread,     \* where the touch thread is
          buf,        \* the event it read last
          rload,      \* have_data as the reader loaded it
          flag_ts,    \* the axes seen since the thread last acted
          x,          \* the press of which it holds the X coordinate
          signals,    \* the signals that have been given
          acted       \* how often the thread acted for each press

driver     == <<inputData, have_data>>
windowVars == <<window, writing, wload>>
threadVars == <<thread, buf, rload, flag_ts, x, acted>>
vars == <<driver, windowVars, threadVars, signals>>

(* The values of the driver's slot and counter and of what the two threads hold. *)
TypeOK ==
    /\ window \in {"idle", "copied", "loaded", "between"}
    /\ writing \in Events
    /\ inputData \in Events /\ have_data \in Ints
    /\ wload \in Ints /\ rload \in Ints
    /\ thread \in {"open", "wait", "copied", "loaded", "act"}
    /\ buf \in Events
    /\ flag_ts \in {{}, {"X"}, {"Y"}}
    /\ x \in 0 .. MaxPress
    /\ signals \in 0 .. MaxSignals
    /\ acted \in [Presses -> Nat]

Init ==
    /\ window = "idle" /\ writing = NoEvent /\ wload = 0
    /\ inputData = NoEvent /\ have_data = 0
    /\ thread = "open" /\ buf = NoEvent /\ rload = 0 /\ flag_ts = {} /\ x = 0
    /\ signals = 0
    /\ acted = [n \in Presses |-> 0]

-----------------------------------------------------------------------------
(* The window: mousePressEvent and mouseMoveEvent write X, sleep, and write Y. *)

Writes(event) ==
    /\ writing' = event /\ inputData' = event
    /\ window' = "copied"
    /\ UNCHANGED <<have_data, wload, threadVars, signals>>

WritesX == window = "idle" /\ writing.press < MaxPress
           /\ Writes([axis |-> "X", press |-> writing.press + 1])

WritesY == window = "between" /\ Writes([writing EXCEPT !.axis = "Y"])

WriteLoads ==
    /\ window = "copied" /\ window' = "loaded"
    /\ wload' = have_data
    /\ UNCHANGED <<driver, writing, threadVars, signals>>

WriteStores ==
    /\ window = "loaded"
    /\ have_data' = IF wload = INT_MAX THEN -(INT_MAX + 1) ELSE wload + 1
    /\ window' = IF writing.axis = "X" THEN "between" ELSE "idle"
    /\ UNCHANGED <<inputData, writing, wload, threadVars, signals>>

WindowNext == WritesX \/ WritesY \/ WriteLoads \/ WriteStores

-----------------------------------------------------------------------------
(* The touch thread. *)

(* open clears the event, and not the count. *)
Opens ==
    /\ thread = "open" /\ thread' = "wait"
    /\ inputData' = NoEvent
    /\ UNCHANGED <<have_data, windowVars, buf, rload, flag_ts, x, acted, signals>>

ReadCopies ==
    /\ buf' = inputData
    /\ thread' = "copied"
    /\ UNCHANGED <<inputData, have_data, windowVars, rload, flag_ts, x, acted>>

(* A slip for Reads: there is no wait. *)
ReadsAtOnce == thread = "wait" /\ ReadCopies /\ UNCHANGED signals

Reads == thread = "wait" /\ have_data # 0 /\ ReadCopies /\ UNCHANGED signals

Interrupted ==
    /\ thread = "wait" /\ have_data = 0 /\ signals < MaxSignals
    /\ ReadCopies /\ signals' = signals + 1

ReadLoads ==
    /\ thread = "copied" /\ thread' = "loaded"
    /\ rload' = have_data
    /\ UNCHANGED <<driver, windowVars, buf, flag_ts, x, acted, signals>>

(* A slip for ReadStores: the event is not counted off. *)
ReadStoresNothing ==
    /\ thread = "loaded" /\ thread' = "act"
    /\ UNCHANGED <<driver, windowVars, buf, rload, flag_ts, x, acted, signals>>

ReadStores ==
    /\ thread = "loaded" /\ thread' = "act"
    /\ have_data' = IF rload = -(INT_MAX + 1) THEN INT_MAX ELSE rload - 1
    /\ UNCHANGED <<inputData, windowVars, buf, rload, flag_ts, x, acted, signals>>

(* A slip for Acts: any event makes it act. *)
ActsOnEach ==
    /\ thread = "act" /\ thread' = "wait"
    /\ x' = IF buf.axis = "X" THEN buf.press ELSE x
    /\ acted' = IF x' # 0 THEN [acted EXCEPT ![x'] = @ + 1] ELSE acted
    /\ UNCHANGED <<driver, windowVars, buf, rload, flag_ts, signals>>

(* The thread acts when it has seen both axes, in any order, and only looks at x. *)
Acts ==
    /\ thread = "act" /\ thread' = "wait"
    /\ x' = IF buf.axis = "X" THEN buf.press ELSE x
    /\ LET seen == flag_ts \cup ({buf.axis} \cap {"X", "Y"})
           both == seen = {"X", "Y"}
       IN /\ flag_ts' = IF both THEN {} ELSE seen
          /\ acted' = IF both THEN [acted EXCEPT ![x'] = @ + 1] ELSE acted
          /\ buf' = IF both THEN NoEvent ELSE buf
    /\ UNCHANGED <<driver, windowVars, rload, signals>>

ThreadNext == Opens \/ Reads \/ Interrupted \/ ReadLoads \/ ReadStores \/ Acts

Next == WindowNext \/ ThreadNext

Spec == Init /\ [][Next]_vars

(* Both threads are scheduled; a signal need never come. *)
FairSpec == Spec /\ WF_vars(WindowNext) /\ WF_vars(Opens \/ Reads \/ ReadLoads \/ ReadStores \/ Acts)

-----------------------------------------------------------------------------
(* event_drv.c:62-84: with one reader and until a signal comes the unlocked count
   does not go below zero, whatever updates are lost.                       *)
NeverNegative == signals = 0 => have_data >= 0

(* main.c:122-200: however often an event is read and whichever events are lost, the
   thread acts at most twice for a press.                                   *)
AtMostTwice == \A n \in Presses : acted[n] <= 2

(* event_drv.c:64: once the window writes no more the thread comes to rest in its
   wait, if no signal ever ended one.                                       *)
ComesToRest == [](signals = 0) => <>[](thread = "wait" /\ have_data = 0)

=============================================================================
