--------------------------- MODULE TouchPanel_proofs ---------------------------
(* What holds of the touch driver's unlocked counter for every number of presses
   and of signals.                                                          *)
EXTENDS TouchPanel, TLAPS

(* The constants' assumption, as the provers need it. *)
LEMMA ConstantsAreNat ==
    MaxPress \in Nat /\ MaxSignals \in Nat /\ INT_MAX \in Nat /\ INT_MAX > 2 * MaxPress
  BY TouchPanelAssumption DEF TouchPanelAssumption

-----------------------------------------------------------------------------
(* The inductive invariants. *)

(* The number of events written up to and with the one being written. *)
Written == IF writing.axis = "X" THEN 2 * writing.press - 1 ELSE 2 * writing.press

(* Where the window's handler is, and what it wrote last. *)
WindowInv ==
    /\ window = "idle" => writing.axis # "X"
    /\ window = "between" => writing.axis = "X"
    /\ window \in {"copied", "loaded"} => writing # NoEvent

(* Until a signal ends a wait no event is counted that was not written, so the count
   does not wrap round, and there is an event to be counted off whenever the reader
   is past its wait, for a store of the writer always leaves one.  After a signal
   the count only goes down.                                                *)
CountInv ==
    signals = 0 =>
        /\ have_data \in 0 .. Written
        /\ window \in {"copied", "loaded"} => have_data < Written
        /\ window = "loaded" => wload \in 0 .. Written - 1
        /\ thread = "copied" => have_data > 0
        /\ thread = "loaded" => rload \in 1 .. Written

TouchInv == TypeOK /\ WindowInv /\ CountInv

-----------------------------------------------------------------------------
(* The events. *)

(* The parts of an event. *)
LEMMA EventProperties ==
  ASSUME NEW e \in Events
  PROVE  /\ e.press \in 0 .. MaxPress /\ e.axis \in {"X", "Y", "none"}
         /\ e # NoEvent => e.press \in Presses /\ e.axis \in {"X", "Y"}
         /\ e.axis = "X" => e.press \in Presses
  BY ConstantsAreNat DEF Events, NoEvent, Presses

(* The events written are never so many that their count wraps round. *)
LEMMA WrittenIsSmall ==
  ASSUME TypeOK
  PROVE  Written \in 0 .. 2 * MaxPress /\ Written < INT_MAX
<1>1. writing.press \in 0 .. MaxPress /\ (writing.axis = "X" => writing.press > 0)
  BY ConstantsAreNat, EventProperties DEF TypeOK, Presses
<1> QED BY <1>1, ConstantsAreNat DEF Written

-----------------------------------------------------------------------------
(* Steps. *)

(* What a handler that begins to write leaves. *)
LEMMA WriteBegins ==
  ASSUME TouchInv, NEW e \in Events, e # NoEvent, Writes(e),
         Written' = Written + 1
  PROVE  TouchInv'
<1>1. TypeOK'
  BY DEF TouchInv, TypeOK, Writes, threadVars
<1>2. WindowInv'
  BY DEF WindowInv, Writes
<1>3. CountInv'
  BY WrittenIsSmall, ConstantsAreNat DEF TouchInv, TypeOK, CountInv, Writes, threadVars, Ints
<1> QED BY <1>1, <1>2, <1>3 DEF TouchInv

(* Each step keeps the invariant. *)
LEMMA TouchInvStep ==
  ASSUME TouchInv, Next \/ UNCHANGED vars
  PROVE  TouchInv'
<1>1. Written \in 0 .. 2 * MaxPress /\ Written < INT_MAX
  BY WrittenIsSmall DEF TouchInv
<1>2. CASE WritesX
  <2> DEFINE e == [axis |-> "X", press |-> writing.press + 1]
  <2>1. writing.press + 1 \in Presses /\ writing.axis # "X"
    BY <1>2, ConstantsAreNat, EventProperties DEF WritesX, TouchInv, TypeOK, WindowInv, Presses
  <2>2. e \in Events /\ e # NoEvent /\ Writes(e)
    BY <1>2, <2>1 DEF WritesX, Events, NoEvent
  <2>3. Written' = Written + 1
    <3>1. writing' = e
      BY <2>2 DEF Writes
    <3>2. writing'.axis = "X" /\ writing'.press = writing.press + 1
      BY <3>1
    <3>3. writing.press \in Nat
      BY ConstantsAreNat, EventProperties DEF TouchInv, TypeOK
    <3> QED BY <2>1, <3>2, <3>3 DEF Written
  <2> QED BY <2>2, <2>3, WriteBegins
<1>3. CASE WritesY
  <2> DEFINE e == [writing EXCEPT !.axis = "Y"]
  <2>1. writing \in Events /\ writing.axis = "X" /\ writing.press \in Presses
    BY <1>3, EventProperties DEF WritesY, TouchInv, TypeOK, WindowInv
  <2>2. e \in Events /\ e # NoEvent /\ e.axis = "Y" /\ e.press = writing.press
    BY <2>1 DEF Events, NoEvent
  <2>3. Writes(e)
    BY <1>3 DEF WritesY
  <2>4. Written' = Written + 1
    BY <2>1, <2>2, <2>3, ConstantsAreNat DEF Writes, Written, Presses
  <2> QED BY <2>2, <2>3, <2>4, WriteBegins
<1>4. CASE UNCHANGED writing /\ (WriteLoads \/ WriteStores \/ ThreadNext \/ UNCHANGED vars)
  <2>1. Written' = Written
    BY <1>4 DEF Written
  <2>2. CASE WriteLoads
    BY <1>1, <2>1, <2>2 DEF WriteLoads, TouchInv, TypeOK, WindowInv, CountInv, driver, threadVars
  <2>3. CASE WriteStores
    <3>1. writing \in Events /\ writing # NoEvent /\ writing.axis \in {"X", "Y"}
      BY <2>3, EventProperties DEF WriteStores, TouchInv, TypeOK, WindowInv
    <3>2. have_data' \in Ints
      BY <2>3, ConstantsAreNat DEF WriteStores, TouchInv, TypeOK, Ints
    <3>3. TypeOK' /\ WindowInv'
      BY <2>3, <3>1, <3>2 DEF WriteStores, TouchInv, TypeOK, WindowInv, threadVars
    <3>4. CountInv'
      BY <1>1, <2>1, <2>3, <3>1 DEF WriteStores, TouchInv, CountInv, threadVars
    <3> QED BY <3>3, <3>4 DEF TouchInv
  <2>4. CASE Opens
    BY <1>1, <2>1, <2>4 DEF Opens, TouchInv, TypeOK, WindowInv, CountInv, windowVars, Events
  <2>5. CASE Reads
    BY <1>1, <2>1, <2>5 DEF Reads, ReadCopies, TouchInv, TypeOK, WindowInv, CountInv, windowVars
  <2>6. CASE Interrupted
    <3>1. signals' # 0 /\ signals' \in 0 .. MaxSignals
      BY <2>6, ConstantsAreNat DEF Interrupted, TouchInv, TypeOK
    <3> QED BY <2>1, <2>6, <3>1 DEF Interrupted, ReadCopies, TouchInv, TypeOK, WindowInv, CountInv, windowVars
  <2>7. CASE ReadLoads
    BY <1>1, <2>1, <2>7 DEF ReadLoads, TouchInv, TypeOK, WindowInv, CountInv, driver, windowVars
  <2>8. CASE ReadStores
    <3>1. have_data' \in Ints
      BY <2>8, ConstantsAreNat DEF ReadStores, TouchInv, TypeOK, Ints
    <3>2. CountInv'
      BY <1>1, <2>1, <2>8, ConstantsAreNat DEF ReadStores, TouchInv, TypeOK, CountInv, windowVars, Ints
    <3> QED BY <2>8, <3>1, <3>2 DEF ReadStores, TouchInv, TypeOK, WindowInv, windowVars
  <2>9. CASE Acts
    <3>1. buf \in Events
      BY DEF TouchInv, TypeOK
    <3>2. x' \in 0 .. MaxPress
      BY <2>9, <3>1, EventProperties DEF Acts, TouchInv, TypeOK
    <3>3. acted' \in [Presses -> Nat]
      BY <2>9, <3>2 DEF Acts, TouchInv, TypeOK
    <3>4. flag_ts' \in {{}, {"X"}, {"Y"}} /\ buf' \in Events
      BY <2>9, <3>1, EventProperties DEF Acts, TouchInv, TypeOK, Events
    <3> QED BY <2>1, <2>9, <3>2, <3>3, <3>4
            DEF Acts, TouchInv, TypeOK, WindowInv, CountInv, driver, windowVars
  <2>10. CASE UNCHANGED vars
    BY <2>1, <2>10 DEF vars, driver, windowVars, threadVars, TouchInv, TypeOK, WindowInv, CountInv
  <2> QED BY <1>4, <2>2, <2>3, <2>4, <2>5, <2>6, <2>7, <2>8, <2>9, <2>10 DEF ThreadNext
<1>5. WriteLoads \/ WriteStores \/ ThreadNext \/ UNCHANGED vars => UNCHANGED writing
  BY DEF WriteLoads, WriteStores, ThreadNext, Opens, Reads, ReadCopies, Interrupted, ReadLoads, ReadStores,
         Acts, vars, windowVars
<1> QED BY <1>2, <1>3, <1>4, <1>5 DEF Next, WindowNext

(* event_drv.c and thread_touch_ctrl: the inductive invariant holds of every run. *)
THEOREM TouchInvariant == Spec => []TouchInv
<1>1. Init => TouchInv
  BY ConstantsAreNat DEF Init, TouchInv, TypeOK, WindowInv, CountInv, Written, NoEvent, Events, Ints
<1> QED BY <1>1, TouchInvStep, PTL DEF Spec

(* Type correctness, the wrapped count after a signal included. *)
THEOREM TouchTypeCorrect == Spec => []TypeOK
<1>1. TouchInv => TypeOK
  BY DEF TouchInv
<1> QED BY <1>1, TouchInvariant, PTL

(* The unlocked count does not go below zero before the first signal, however many
   presses there are and however the two threads interleave.                *)
THEOREM CountSafe == Spec => []NeverNegative
<1>1. TouchInv => NeverNegative
  BY WrittenIsSmall DEF TouchInv, CountInv, NeverNegative
<1> QED BY <1>1, TouchInvariant, PTL
-----------------------------------------------------------------------------
(* How often the thread acts for a press. *)

(* The place of an event in the sequence in which the events are written. *)
Pos(e) == IF e.axis = "X" THEN 2 * e.press - 1 ELSE 2 * e.press

(* An event has been read and the thread has not acted on it. *)
Pending == thread \in {"copied", "loaded", "act"} /\ buf # NoEvent

(* The X coordinate of press n will not be read again. *)
Past(n) == Pos(inputData) >= 2 * n /\ (Pending => Pos(buf) >= 2 * n)

(* Events are read in the order in which they are written, each any number of times.
   So x never goes back; the first time that the thread acts for a press it may have
   used a Y of an earlier one, but the second time it used the press's own Y, and then
   its X is past and cannot be seen again.                                  *)
ActedInv ==
    /\ thread = "open" => x = 0 /\ flag_ts = {}
    /\ Pos(inputData) <= Pos(writing)
    /\ Pending => Pos(buf) <= Pos(inputData) /\ 2 * x - 1 <= Pos(buf)
    /\ x > 0 => 2 * x - 1 <= Pos(inputData)
    /\ \A n \in Presses : acted[n] <= 2 /\ (n > x => acted[n] = 0)
    /\ "X" \in flag_ts => x > 0 /\ acted[x] <= 1
    /\ x > 0 /\ ("Y" \in flag_ts \/ acted[x] = 2) => Past(x)

LEMMA PosIsNat ==
  ASSUME NEW e \in Events
  PROVE  /\ Pos(e) \in Nat
         /\ e.axis = "X" => Pos(e) = 2 * e.press - 1
         /\ e.axis # "X" => Pos(e) = 2 * e.press
  BY EventProperties, ConstantsAreNat DEF Pos, Presses

(* A step that at most puts a later event into the slot keeps it. *)
LEMMA SlotStep ==
  ASSUME TypeOK, ActedInv, inputData' \in Events, writing' \in Events,
         Pos(inputData) <= Pos(inputData)', Pos(inputData)' <= Pos(writing)',
         UNCHANGED <<buf, flag_ts, x, acted>>,
         thread' = "open" => thread = "open",
         Pending' = Pending
  PROVE  ActedInv'
<1>1. /\ Pos(inputData) \in Int /\ Pos(inputData)' \in Int /\ Pos(writing)' \in Int /\ Pos(buf) \in Int
      /\ x \in Nat
  BY PosIsNat, ConstantsAreNat DEF TypeOK
<1>2. Pos(buf)' = Pos(buf)
  BY DEF Pos
<1>3. x > 0 => (Past(x) => Past(x)')
  BY <1>1, <1>2 DEF Past
<1> QED BY <1>1, <1>2, <1>3 DEF ActedInv

(* What the thread does with an event it has read. *)
LEMMA ActsStep ==
  ASSUME TypeOK, TypeOK', ActedInv, Acts
  PROVE  ActedInv'
<1> DEFINE p == buf.press
<1>1. /\ buf \in Events /\ Pos(buf) \in Nat /\ Pos(inputData) \in Nat /\ x \in 0 .. MaxPress /\ x' \in 0 .. MaxPress
      /\ MaxPress \in Nat /\ Presses = 1 .. MaxPress
      /\ acted \in [Presses -> Nat] /\ acted' \in [Presses -> Nat]
      /\ flag_ts \in {{}, {"X"}, {"Y"}}
  BY PosIsNat, ConstantsAreNat DEF TypeOK, Presses
<1>2. /\ ~ Pending' /\ thread' = "wait" /\ inputData' = inputData /\ writing' = writing
      /\ Pos(inputData)' = Pos(inputData) /\ Pos(writing)' = Pos(writing)
  BY DEF Acts, Pending, driver, windowVars, Pos
<1>3. Pos(inputData) >= 2 * x' => Past(x)'
  BY <1>2 DEF Past
<1>4. /\ Pos(inputData) <= Pos(writing)
      /\ x > 0 => 2 * x - 1 <= Pos(inputData)
      /\ \A n \in Presses : acted[n] <= 2 /\ (n > x => acted[n] = 0)
      /\ "X" \in flag_ts => x > 0 /\ acted[x] <= 1
      /\ x > 0 /\ ("Y" \in flag_ts \/ acted[x] = 2) => Past(x)
  BY DEF ActedInv
<1>5. CASE buf = NoEvent
  <2>1. buf.axis = "none" /\ flag_ts \cup ({buf.axis} \cap {"X", "Y"}) = flag_ts /\ flag_ts # {"X", "Y"}
    <3>1. buf.axis = "none"
      BY <1>5 DEF NoEvent
    <3>2. {buf.axis} \cap {"X", "Y"} = {}
      BY <3>1
    <3>3. flag_ts \cup ({buf.axis} \cap {"X", "Y"}) = flag_ts
      BY <3>2, Zenon
    <3>4. flag_ts # {"X", "Y"}
      <4>1. ~ ("X" \in flag_ts /\ "Y" \in flag_ts)
        <5>1. flag_ts = {} \/ flag_ts = {"X"} \/ flag_ts = {"Y"}
          BY <1>1
        <5> QED BY <5>1
      <4> QED BY <4>1
    <3> QED BY <3>1, <3>3, <3>4, Zenon
  <2>2. UNCHANGED <<x, flag_ts, acted>>
    <3> DEFINE seen == flag_ts \cup ({buf.axis} \cap {"X", "Y"})
    <3>1. /\ flag_ts' = (IF seen = {"X", "Y"} THEN {} ELSE seen)
          /\ acted' = (IF seen = {"X", "Y"} THEN [acted EXCEPT ![x'] = @ + 1] ELSE acted)
      BY DEF Acts
    <3>2. seen = flag_ts /\ seen # {"X", "Y"}
      BY <2>1
    <3> HIDE DEF seen
    <3>4. flag_ts' = flag_ts /\ acted' = acted
      BY <3>1, <3>2
    <3>3. x' = x
      BY <2>1 DEF Acts
    <3> QED BY <3>3, <3>4
  <2>3. x > 0 /\ Past(x) => Past(x)'
    BY <1>3, <2>2 DEF Past
  <2> QED BY <1>1, <1>2, <1>4, <2>2, <2>3 DEF ActedInv
<1>6. CASE buf # NoEvent /\ buf.axis = "X"
  <2>1. /\ Pos(buf) = 2 * p - 1 /\ p \in Presses /\ x' = p
        /\ 2 * x - 1 <= Pos(buf) /\ Pos(buf) <= Pos(inputData)
    BY <1>1, <1>6, PosIsNat, EventProperties DEF Acts, ActedInv, Pending
  <2>2. p >= x /\ p > 0
    BY <1>1, <2>1
  <2>3. acted[p] <= 1 /\ (flag_ts = {"Y"} => acted[p] = 0)
    <3>1. p = x => ~ Past(x)
      BY <1>1, <1>6, <2>1 DEF Past, Pending, Acts
    <3>2. p = x => acted[p] # 2 /\ flag_ts # {"Y"} /\ acted[p] <= 2
      BY <1>4, <2>1, <2>2, <3>1
    <3>3. p # x => acted[p] = 0
      BY <1>1, <1>4, <2>1, <2>2
    <3>4. acted[p] \in Nat
      BY <1>1, <2>1
    <3> QED BY <3>2, <3>3, <3>4
  <2>4. CASE flag_ts = {"Y"}
    <3>1. flag_ts' = {} /\ acted' = [acted EXCEPT ![p] = @ + 1]
      BY <1>6, <2>1, <2>4 DEF Acts
    <3>2. acted'[p] = 1 /\ \A n \in Presses : n # p => acted'[n] = acted[n]
      BY <1>1, <2>1, <2>3, <2>4, <3>1
    <3>3. ASSUME NEW n \in Presses PROVE acted'[n] <= 2 /\ (n > x' => acted'[n] = 0)
      <4>1. acted[n] <= 2 /\ (n > x => acted[n] = 0) /\ n \in Nat
        BY <1>1, <1>4
      <4>2. CASE n = p
        <5>1. acted'[n] = 1
          BY <3>2, <4>2
        <5>2. ~ (n > x')
          BY <1>1, <2>1, <4>1, <4>2
        <5> QED BY <5>1, <5>2
      <4>3. CASE n # p
        <5>1. acted'[n] = acted[n]
          BY <3>2, <4>3
        <5> QED BY <1>1, <2>1, <2>2, <4>1, <5>1
      <4> QED BY <4>2, <4>3
    <3> QED BY <1>1, <1>2, <1>4, <2>1, <2>2, <3>1, <3>2, <3>3 DEF ActedInv
  <2>5. CASE flag_ts # {"Y"}
    <3>1. flag_ts' = {"X"} /\ acted' = acted
      BY <1>1, <1>6, <2>1, <2>5 DEF Acts
    <3>2. \A n \in Presses : acted'[n] <= 2 /\ (n > x' => acted'[n] = 0)
      BY <1>1, <1>4, <2>1, <2>2, <3>1
    <3>3. acted'[x'] <= 1 /\ acted'[x'] \in Nat
      BY <1>1, <2>1, <2>3, <3>1
    <3> QED BY <1>1, <1>2, <1>4, <2>1, <2>2, <3>1, <3>2, <3>3 DEF ActedInv
  <2> QED BY <2>4, <2>5
<1>7. CASE buf # NoEvent /\ buf.axis # "X"
  <2>1. /\ Pos(buf) = 2 * p /\ p \in Presses /\ x' = x /\ buf.axis = "Y"
        /\ 2 * x - 1 <= Pos(buf) /\ Pos(buf) <= Pos(inputData)
    BY <1>1, <1>7, PosIsNat, EventProperties DEF Acts, ActedInv, Pending
  <2>2. p >= x
    BY <1>1, <2>1
  <2>3. Past(x)'
    BY <1>1, <1>3, <2>1, <2>2
  <2>4. CASE flag_ts = {"X"}
    <3>1. flag_ts' = {} /\ acted' = [acted EXCEPT ![x] = @ + 1] /\ x \in Presses /\ acted[x] <= 1
      BY <1>1, <1>4, <2>1, <2>4 DEF Acts
    <3>2. acted'[x] <= 2 /\ \A n \in Presses : n # x => acted'[n] = acted[n]
      BY <1>1, <3>1
    <3>3. ASSUME NEW n \in Presses PROVE acted'[n] <= 2 /\ (n > x' => acted'[n] = 0)
      <4>1. acted[n] <= 2 /\ (n > x => acted[n] = 0) /\ n \in Nat
        BY <1>1, <1>4
      <4>2. CASE n = x
        BY <1>1, <2>1, <3>2, <4>1, <4>2
      <4>3. CASE n # x
        <5>1. acted'[n] = acted[n]
          BY <3>2, <4>3
        <5> QED BY <1>1, <2>1, <4>1, <5>1
      <4> QED BY <4>2, <4>3
    <3> QED BY <1>1, <1>2, <1>4, <2>1, <2>3, <3>1, <3>3 DEF ActedInv
  <2>5. CASE flag_ts # {"X"}
    <3>1. flag_ts' = {"Y"} /\ acted' = acted
      BY <1>1, <1>7, <2>1, <2>5 DEF Acts
    <3> QED BY <1>1, <1>2, <1>4, <2>1, <2>3, <3>1 DEF ActedInv
  <2> QED BY <2>4, <2>5
<1> QED BY <1>5, <1>6, <1>7

(* Each step keeps it. *)
LEMMA ActedStep ==
  ASSUME TouchInv, TouchInv', ActedInv, Next \/ UNCHANGED vars
  PROVE  ActedInv'
<1>1. /\ TypeOK /\ TypeOK' /\ buf \in Events /\ inputData \in Events /\ writing \in Events /\ x \in 0 .. MaxPress
      /\ Pos(buf) \in Nat /\ Pos(inputData) \in Nat /\ Pos(writing) \in Nat /\ MaxPress \in Nat
  BY PosIsNat, ConstantsAreNat DEF TouchInv, TypeOK
<1>2. CASE WritesX \/ WritesY
  <2>1. PICK e \in Events : Writes(e) /\ Pos(writing) <= Pos(e)
    <3>1. CASE WritesX
      <4> DEFINE e == [axis |-> "X", press |-> writing.press + 1]
      <4>1. writing.press \in Nat /\ writing.press + 1 \in Presses /\ writing.axis # "X"
        BY <1>1, <3>1, EventProperties DEF WritesX, TouchInv, WindowInv, Presses
      <4>2. e \in Events /\ Writes(e)
        BY <3>1, <4>1 DEF WritesX, Events
      <4>3. Pos(e) = 2 * (writing.press + 1) - 1 /\ Pos(writing) = 2 * writing.press
        BY <4>1 DEF Pos
      <4> QED BY <4>1, <4>2, <4>3
    <3>2. CASE WritesY
      <4> DEFINE e == [writing EXCEPT !.axis = "Y"]
      <4>1. writing.axis = "X" /\ writing.press \in Presses /\ writing \in [axis : {"X", "Y"}, press : Presses]
        BY <1>1, <3>2, EventProperties DEF WritesY, TouchInv, WindowInv, Events, NoEvent
      <4>2. e \in Events /\ Writes(e) /\ e.press = writing.press /\ e.axis = "Y"
        BY <3>2, <4>1 DEF WritesY, Events
      <4>3. Pos(e) = 2 * writing.press /\ Pos(writing) = 2 * writing.press - 1
        BY <4>1, <4>2 DEF Pos
      <4>4. Pos(writing) <= Pos(e)
        BY <4>1, <4>3, <1>1 DEF Presses
      <4> QED BY <4>2, <4>4
    <3> QED BY <1>2, <3>1, <3>2
  <2>2. /\ inputData' = e /\ writing' = e /\ UNCHANGED <<buf, flag_ts, x, acted, thread>> /\ Pending' = Pending
        /\ Pos(inputData)' = Pos(e) /\ Pos(writing)' = Pos(e)
    BY <2>1 DEF Writes, threadVars, Pending, Pos
  <2>3. Pos(inputData) <= Pos(writing) /\ Pos(e) \in Nat
    BY PosIsNat DEF ActedInv
  <2> QED BY <1>1, <2>1, <2>2, <2>3, SlotStep
<1>3. CASE Opens
  <2>1. /\ x' = 0 /\ x = 0 /\ flag_ts' = {} /\ acted' = acted /\ ~ Pending' /\ thread' = "wait"
        /\ inputData' = NoEvent /\ writing' = writing
    BY <1>3 DEF Opens, ActedInv, windowVars, Pending
  <2>2. Pos(inputData)' = 0 /\ Pos(writing)' = Pos(writing)
    BY <2>1 DEF Pos, NoEvent
  <2> QED BY <1>1, <2>1, <2>2 DEF ActedInv
<1>4. CASE Reads \/ Interrupted
  <2>1. /\ buf' = inputData /\ thread' = "copied" /\ UNCHANGED <<inputData, writing, flag_ts, x, acted>>
    BY <1>4 DEF Reads, Interrupted, ReadCopies, windowVars
  <2>2. Pos(buf)' = Pos(inputData) /\ Pos(inputData)' = Pos(inputData) /\ Pos(writing)' = Pos(writing)
    BY <2>1 DEF Pos
  <2>3. x > 0 /\ Past(x) => Past(x)'
    BY <1>1, <2>1, <2>2 DEF Past
  <2>4. 2 * x - 1 <= Pos(inputData)
    BY <1>1 DEF ActedInv
  <2> QED BY <1>1, <2>1, <2>2, <2>3, <2>4 DEF ActedInv
<1>5. CASE WriteLoads \/ WriteStores \/ ReadLoads \/ ReadStores \/ UNCHANGED vars
  <2>1. /\ UNCHANGED <<inputData, writing, buf, flag_ts, x, acted>> /\ (thread' = "open" => thread = "open")
        /\ Pending' = Pending
    BY <1>5 DEF WriteLoads, WriteStores, ReadLoads, ReadStores, vars, driver, windowVars, threadVars, Pending
  <2>2. Pos(inputData)' = Pos(inputData) /\ Pos(writing)' = Pos(writing)
    BY <2>1 DEF Pos
  <2>3. Pos(inputData) <= Pos(writing)
    BY DEF ActedInv
  <2> QED BY <1>1, <2>1, <2>2, <2>3, SlotStep
<1>6. CASE Acts
  BY <1>1, <1>6, ActsStep
<1> QED BY <1>2, <1>3, <1>4, <1>5, <1>6 DEF Next, WindowNext, ThreadNext

(* thread_touch_ctrl and event_drv.c: the thread acts at most twice for a press, for
   every number of presses and of signals, whatever updates of the count are lost. *)
THEOREM ActsSafe == Spec => []AtMostTwice
<1>1. Init => ActedInv
  BY ConstantsAreNat DEF Init, ActedInv, Pos, NoEvent, Pending, Presses
<1>2. TouchInv /\ TouchInv' /\ ActedInv /\ [Next]_vars => ActedInv'
  BY ActedStep
<1>3. ActedInv => AtMostTwice
  BY DEF ActedInv, AtMostTwice
<1> QED BY <1>1, <1>2, <1>3, TouchInvariant, PTL DEF Spec
=============================================================================
